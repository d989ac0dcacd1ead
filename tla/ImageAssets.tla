-------------------------------- MODULE ImageAssets --------------------------------
(***************************************************************************)
(* Images of one product: rows in the database, objects in two buckets     *)
(* (apps/api/src/modules/management/image, catalog.repository.ts,          *)
(* utils/object-storage.ts).                                               *)
(*                                                                         *)
(* A client puts an object into the private bucket under a signed URL and  *)
(* then registers it: the service copies it under a fresh key into the     *)
(* public bucket and consumes the upload in a transaction.  Deleting is    *)
(* soft or forced; an hourly pruner removes what has expired.  No          *)
(* transaction spans the database and the buckets.                         *)
(*                                                                         *)
(* Written rows become visible when their transaction commits; until then  *)
(* it holds their locks.  Definitions whose names begin with Wrong are not *)
(* part of the model: each is a mistake the definition after it could have *)
(* had.                                                                    *)
(***************************************************************************)
EXTENDS Integers, FiniteSets

CONSTANTS
  Req,       \* requests; an image registered by request r has identifier r
  Pruner,    \* running pruners, one for each API server
  Seed,      \* images that exist from the start
  Cover,     \* which of them is the thumbnail then, or None
  Upload,    \* signed uploads
  None,      \* SQL NULL, and "no holder" of a lock
  Gallery,   \* the product row, as something to lock
  Inputs,    \* what the requests ask, a set of Input records
  MaxFaults  \* bound on failures, crashes and lost commit answers

Image == Seed \cup Req
Proc == Req \cup Pruner

Input == [op: {"create", "delete", "force", "restore", "crop"},
          image: Image,       \* whom all but a create are about
          upload: Upload,     \* the upload a create registers
          thumb: BOOLEAN]     \* placement = 'thumbnail'

ASSUME NamesAssumption ==
  /\ Req \cap (Seed \cup Pruner \cup Upload \cup {None, Gallery}) = {}
  /\ Seed \cap (Upload \cup {None, Gallery}) = {}
  /\ Pruner \cap (Upload \cup {None}) = {}
ASSUME InputsAssumption == Inputs \subseteq Input
ASSUME CoverAssumption == Cover \in Seed \cup {None}
ASSUME FaultsAssumption == MaxFaults \in Nat

VARIABLES
  upload,     \* upload[u]: its row: "none", "pending", "consumed" or "gone"
  expired,    \* uploads whose expiresAt has passed
  private,    \* objects in the upload bucket, named by their upload
  public,     \* objects in the public bucket
  image,      \* image[i]: its row: "absent", "live", "deleted" or "gone"
  aged,       \* images deleted more than 30 days ago
  crop,       \* images with a crop (focusX, focusY and zoom are set)
  thumbnail,  \* the product's thumbnailImageId
  lock,       \* lock[x]: the process that holds the row lock of x
  pc, in,     \* where each process is; the input of each request
  about,      \* about[p]: the image p is deleting, restoring, cropping or replacing
  seen,       \* seen[p]: what p read before: "is thumbnail", "not expired"
  todo,       \* todo[p]: images and uploads a pruner has still to remove
  reply,      \* reply[r]: what the client is answered
  condemned,  \* history: images whose object a removal or a lost answer took away
  faults      \* failures so far

rows == <<upload, image, aged, crop, thumbnail>>
buckets == <<private, public>>
vars == <<rows, buckets, expired, lock, pc, in, about, seen, todo, reply, condemned, faults>>

-----------------------------------------------------------------------------
Exists(i) == i \in Image /\ image[i] \in {"live", "deleted"}

\* The public object of an image; promoteImageAsset chooses a new key each time.
WrongAssetOf(i) == IF i \in Req /\ in[i].op = "create" THEN in[i].upload ELSE i
AssetOf(i) == i

Goto(p, label) == pc' = [pc EXCEPT ![p] = label]

\* The locks of p are released.
WrongUnlocked(p) == [lock EXCEPT ![Gallery] = IF @ = p THEN None ELSE @]
Unlocked(p) == [x \in DOMAIN lock |-> IF lock[x] = p THEN None ELSE lock[x]]

\* A request is answered; a pruner goes back to sleep.
Ended(p, answer) ==
  /\ Goto(p, IF p \in Pruner THEN "sleep" ELSE "done")
  /\ reply' = [r \in Req |-> IF r = p THEN answer ELSE reply[r]]
  /\ todo' = [q \in Proc |-> IF q = p THEN {} ELSE todo[q]]

\* p ends; its transaction, if any, is rolled back.
End(p, answer) ==
  /\ Ended(p, answer)
  /\ lock' = Unlocked(p)
  /\ UNCHANGED <<rows, buckets, expired, in, about, seen, condemned>>

Init ==
  /\ upload = [u \in Upload |-> "none"]
  /\ expired = {} /\ private = {}
  /\ image = [i \in Image |-> IF i \in Seed THEN "live" ELSE "absent"]
  /\ public = {AssetOf(i) : i \in Seed}
  /\ aged = {}
  /\ thumbnail = Cover
  /\ crop = Seed \cap {Cover}
  /\ lock = [x \in Image \cup {Gallery} |-> None]
  /\ pc = [p \in Proc |-> IF p \in Pruner THEN "sleep" ELSE "idle"]
  /\ in \in [Req -> Inputs]
  /\ about = [p \in Proc |-> None]
  /\ seen = [p \in Proc |-> FALSE]
  /\ todo = [p \in Proc |-> {}]
  /\ reply = [r \in Req |-> "none"]
  /\ condemned = {} /\ faults = 0

-----------------------------------------------------------------------------
(* The client and the clock *)

\* createImageUploadTarget: the URL is signed, then the row is inserted.
CreateTarget(u) ==
  /\ upload[u] = "none"
  /\ upload' = [upload EXCEPT ![u] = "pending"]
  /\ UNCHANGED <<image, aged, crop, thumbnail, buckets, expired, lock, pc, in, about, seen,
                 todo, reply, condemned, faults>>

\* The signed URL works, again and again, until it expires.
Put(u) ==
  /\ upload[u] # "none" /\ u \notin expired /\ u \notin private
  /\ private' = private \cup {u}
  /\ UNCHANGED <<rows, public, expired, lock, pc, in, about, seen, todo, reply, condemned,
                 faults>>

Expire(u) ==
  /\ upload[u] # "none" /\ u \notin expired
  /\ expired' = expired \cup {u}
  /\ UNCHANGED <<rows, buckets, lock, pc, in, about, seen, todo, reply, condemned, faults>>

Age(i) ==
  /\ image[i] = "deleted" /\ i \notin aged
  /\ aged' = aged \cup {i}
  /\ UNCHANGED <<upload, image, crop, thumbnail, buckets, expired, lock, pc, in, about, seen,
                 todo, reply, condemned, faults>>

-----------------------------------------------------------------------------
(* The checks of the service *)

Start(r, label) ==
  /\ Goto(r, label)
  /\ about' = [about EXCEPT ![r] = IF in[r].op = "create" THEN None ELSE in[r].image]
  /\ UNCHANGED <<rows, buckets, expired, lock, in, seen, todo, reply, condemned, faults>>

Refuse(r, answer) == End(r, answer) /\ UNCHANGED faults

FindUpload(r) ==
  LET u     == in[r].upload
      ready == upload[u] = "pending" /\ u \notin expired
  IN  /\ pc[r] = "idle" /\ in[r].op = "create"
      /\ \/ ready /\ Start(r, "promote")
         \/ ~ready /\ Refuse(r, "expired")

\* deleteImage, restoreImage and updateImageCrop look the image up.
FindImage(r) ==
  LET i     == in[r].image
      label == CASE in[r].op = "delete" -> "read" [] in[r].op = "force" -> "asset"
                 [] OTHER -> "row"
      found == CASE in[r].op \in {"force", "restore"} -> Exists(i)
                 [] OTHER -> image[i] = "live"
      fits  == CASE in[r].op = "restore" -> image[i] = "deleted"
                 [] in[r].op = "crop"    -> thumbnail = i
                 [] OTHER -> TRUE
  IN  /\ pc[r] = "idle" /\ in[r].op # "create"
      /\ \/ ~found /\ Refuse(r, "notFound")
         \/ found /\ ~fits /\ Refuse(r, "conflict")
         \/ found /\ fits /\ Start(r, label)

-----------------------------------------------------------------------------
(* createImage: copy the object, then consume the upload *)

\* The clock for consumeImageUpload is read once the copy is made.
Promote(r) ==
  /\ pc[r] = "promote" /\ in[r].upload \in private
  /\ public' = public \cup {AssetOf(r)}
  /\ seen' = [seen EXCEPT ![r] = in[r].upload \notin expired]
  /\ Goto(r, "lock")
  /\ UNCHANGED <<rows, private, expired, lock, in, about, todo, reply, condemned, faults>>

NothingToPromote(r) ==
  pc[r] = "promote" /\ in[r].upload \notin private /\ Refuse(r, "missing")

\* What was put is no image: it is removed.
PurgeInvalid(r) ==
  /\ pc[r] = "promote" /\ in[r].upload \in private
  /\ private' = private \ {in[r].upload}
  /\ Ended(r, "invalid")
  /\ UNCHANGED <<rows, public, expired, lock, in, about, seen, condemned, faults>>

\* SELECT ... FOR UPDATE
LockProduct(r) ==
  /\ pc[r] = "lock" /\ lock[Gallery] = None
  /\ lock' = [lock EXCEPT ![Gallery] = r]
  /\ Goto(r, "consume")
  /\ UNCHANGED <<rows, buckets, expired, in, about, seen, todo, reply, condemned, faults>>

\* The upload has not been consumed, and was not expired by the clock read before.
WrongConsumable(r) == upload[in[r].upload] \in {"pending", "consumed"} /\ seen[r]
Consumable(r) == upload[in[r].upload] = "pending" /\ seen[r]

ConsumeUpload(r) ==
  /\ pc[r] = "consume"
  /\ \/ /\ Consumable(r)
        /\ about' = [about EXCEPT ![r] = IF in[r].thumb THEN thumbnail ELSE None]
        /\ Goto(r, IF in[r].thumb /\ thumbnail # None THEN "old" ELSE "commit")
        /\ UNCHANGED <<lock, reply>>
     \/ /\ ~Consumable(r)
        /\ lock' = Unlocked(r)
        /\ reply' = [reply EXCEPT ![r] = "alreadyUsed"]
        /\ Goto(r, "discard")
        /\ UNCHANGED about
  /\ UNCHANGED <<rows, buckets, expired, in, seen, todo, condemned, faults>>

\* The crop of the thumbnail that is replaced is cleared.
LockOldThumbnail(r) ==
  /\ pc[r] = "old" /\ lock[about[r]] = None
  /\ lock' = [lock EXCEPT ![about[r]] = r]
  /\ Goto(r, "commit")
  /\ UNCHANGED <<rows, buckets, expired, in, about, seen, todo, reply, condemned, faults>>

\* The transaction commits; when the answer is lost the service takes it as failed.
CommitImage(r, lost) ==
  LET u == in[r].upload
  IN  /\ pc[r] = "commit"
      /\ upload' = [upload EXCEPT ![u] = IF @ = "pending" THEN "consumed" ELSE @]
      /\ image' = [image EXCEPT ![r] = "live"]
      /\ crop' = (crop \ {about[r]}) \cup (IF in[r].thumb THEN {r} ELSE {})
      /\ thumbnail' = IF in[r].thumb THEN r ELSE thumbnail
      /\ lock' = Unlocked(r)
      /\ reply' = [reply EXCEPT ![r] = IF lost THEN "failed" ELSE "created"]
      /\ Goto(r, IF lost THEN "discard" ELSE "cleanup")
      /\ condemned' = IF lost THEN condemned \cup {r} ELSE condemned
      /\ faults' = IF lost THEN faults + 1 ELSE faults
      /\ UNCHANGED <<aged, buckets, expired, in, about, seen, todo>>

\* Both deletions are attempts whose failure is ignored.
Cleanup(r) ==
  /\ pc[r] = "cleanup"
  /\ private' \in {private, private \ {in[r].upload}}
  /\ Goto(r, "done")
  /\ UNCHANGED <<rows, public, expired, lock, in, about, seen, todo, reply, condemned, faults>>

Discard(r) ==
  /\ pc[r] = "discard"
  /\ public' \in {public, public \ {AssetOf(r)}}
  /\ Goto(r, "done")
  /\ UNCHANGED <<rows, private, expired, lock, in, about, seen, todo, reply, condemned, faults>>

-----------------------------------------------------------------------------
(* Image rows are changed: first the image, then its product *)

\* softDeleteImage reads whether the image is the thumbnail, without a lock.
ReadThumbnail(r) ==
  /\ pc[r] = "read"
  /\ \/ /\ Exists(about[r])
        /\ seen' = [seen EXCEPT ![r] = thumbnail = about[r]]
        /\ Goto(r, "row")
        /\ UNCHANGED <<rows, buckets, expired, lock, in, about, todo, reply, condemned, faults>>
     \/ ~Exists(about[r]) /\ Refuse(r, "notFound")

\* Forced deletions and pruners remove the object before the row, and stop on an
\* error: without the object the public bucket is one of Taken.
WrongTaken(i) == {public, public \ {AssetOf(i)}}
Taken(i) == {public \ {AssetOf(i)}}

DeleteAsset(p) ==
  /\ pc[p] = "asset"
  /\ public' \in Taken(about[p])
  /\ condemned' = condemned \cup {about[p]}
  /\ Goto(p, "row")
  /\ UNCHANGED <<rows, private, expired, lock, in, about, seen, todo, reply, faults>>

LockImage(p) ==
  /\ pc[p] = "row" /\ lock[about[p]] = None
  /\ \/ /\ Exists(about[p])
        /\ lock' = [lock EXCEPT ![about[p]] = p]
        /\ Goto(p, "product")
        /\ UNCHANGED <<rows, buckets, expired, in, about, seen, todo, reply, condemned, faults>>
     \/ ~Exists(about[p]) /\ Refuse(p, "notFound")

\* Whether a soft deletion clears the thumbnail.
WrongDropsThumbnail(r) == FALSE
DropsThumbnail(r) == seen[r]

Written(p, state, cleared, cropped) ==
  LET i == about[p]
  IN  /\ image' = [image EXCEPT ![i] = state]
      /\ crop' = IF cropped THEN crop \cup {i} ELSE crop \ {i}
      /\ thumbnail' = IF cleared THEN None ELSE thumbnail

\* The product row is updated and the transaction commits.
CommitChange(p) ==
  LET i  == about[p]
      op == IF p \in Pruner THEN "force" ELSE in[p].op
  IN  /\ pc[p] = "product" /\ lock[Gallery] = None
      /\ CASE op = "delete"  -> Written(p, "deleted", DropsThumbnail(p), i \in crop)
           [] op = "restore" -> Written(p, "live", FALSE, FALSE)
           [] op = "crop"    -> Written(p, image[i], FALSE, TRUE)
           [] op = "force"   -> Written(p, "gone", thumbnail = i, FALSE)
      /\ aged' = IF op = "crop" THEN aged ELSE aged \ {i}
      /\ lock' = Unlocked(p)
      /\ IF p \in Pruner
         THEN Goto(p, "next") /\ UNCHANGED reply
         ELSE Goto(p, "done") /\ reply' = [reply EXCEPT ![p] = op]
      /\ todo' = [todo EXCEPT ![p] = @ \ {i}]
      /\ UNCHANGED <<upload, buckets, expired, in, about, seen, condemned, faults>>

-----------------------------------------------------------------------------
(* The pruner: a list, then one removal after another; an error ends the run *)

WrongLeftovers == {i \in Image : image[i] = "deleted" /\ i \in aged}
                    \cup {u \in expired : upload[u] = "pending"}
Leftovers == {i \in Image : image[i] = "deleted" /\ i \in aged}
               \cup {u \in expired : upload[u] \in {"pending", "consumed"}}

List(p) ==
  /\ pc[p] = "sleep"
  /\ todo' = [todo EXCEPT ![p] = Leftovers]
  /\ Goto(p, "next")
  /\ UNCHANGED <<rows, buckets, expired, lock, in, about, seen, reply, condemned, faults>>

PruneImage(p) ==
  /\ pc[p] = "next"
  /\ \E i \in todo[p] \cap Image : about' = [about EXCEPT ![p] = i]
  /\ Goto(p, "asset")
  /\ UNCHANGED <<rows, buckets, expired, lock, in, seen, todo, reply, condemned, faults>>

\* Images come before uploads.
PruneUpload(p) ==
  /\ pc[p] = "next" /\ todo[p] \cap Image = {}
  /\ \E u \in todo[p] :
       /\ private' = private \ {u}
       /\ about' = [about EXCEPT ![p] = u]
  /\ Goto(p, "upload")
  /\ UNCHANGED <<rows, public, expired, lock, in, seen, todo, reply, condemned, faults>>

DeleteUpload(p) ==
  LET u == about[p]
  IN  /\ pc[p] = "upload"
      /\ \/ /\ upload[u] # "gone"
            /\ upload' = [upload EXCEPT ![u] = "gone"]
            /\ todo' = [todo EXCEPT ![p] = @ \ {u}]
            /\ Goto(p, "next")
            /\ UNCHANGED <<image, aged, crop, thumbnail, buckets, expired, lock, in, about,
                           seen, reply, condemned, faults>>
         \/ upload[u] = "gone" /\ Refuse(p, "notFound")

Sleep(p) == pc[p] = "next" /\ todo[p] = {} /\ Refuse(p, "none")

-----------------------------------------------------------------------------
(* Failures *)

Waits(p, q) ==
  \/ pc[p] \in {"lock", "product"} /\ lock[Gallery] = q
  \/ pc[p] \in {"old", "row"} /\ lock[about[p]] = q

\* An error: a create still tries to remove what it has promoted.
Broken(p) ==
  IF p \in Req /\ pc[p] \in {"lock", "consume", "old", "commit"}
  THEN /\ lock' = Unlocked(p)
       /\ reply' = [reply EXCEPT ![p] = "failed"]
       /\ Goto(p, "discard")
       /\ UNCHANGED <<rows, buckets, expired, in, about, seen, todo, condemned>>
  ELSE End(p, "failed")

\* The database aborts one of two transactions that wait for each other.
DeadlockVictim(p) ==
  /\ \E q \in Proc : Waits(p, q) /\ Waits(q, p)
  /\ Broken(p)
  /\ UNCHANGED faults

\* A call to the database or to a bucket fails without effect.
Fail(p) ==
  /\ pc[p] \notin {"idle", "done", "sleep", "cleanup", "discard"} /\ faults < MaxFaults
  /\ Broken(p)
  /\ faults' = faults + 1

\* The server stops: transactions are rolled back, nobody is answered.
Crash ==
  /\ faults < MaxFaults
  /\ \E p \in Proc : pc[p] \notin {"idle", "done", "sleep"}
  /\ faults' = faults + 1
  /\ lock' = [x \in DOMAIN lock |-> None]
  /\ pc' = [p \in Proc |-> IF p \in Pruner THEN "sleep"
                           ELSE IF pc[p] = "idle" THEN "idle" ELSE "done"]
  /\ todo' = [p \in Proc |-> {}]
  /\ UNCHANGED <<rows, buckets, expired, in, about, seen, reply, condemned>>

Work(r) ==
  \/ Promote(r) \/ NothingToPromote(r) \/ LockProduct(r) \/ ConsumeUpload(r)
  \/ LockOldThumbnail(r) \/ CommitImage(r, FALSE) \/ Cleanup(r) \/ Discard(r)
  \/ ReadThumbnail(r) \/ DeleteAsset(r) \/ LockImage(r) \/ CommitChange(r)

Prune(p) ==
  \/ List(p) \/ PruneImage(p) \/ PruneUpload(p) \/ DeleteUpload(p) \/ Sleep(p)
  \/ DeleteAsset(p) \/ LockImage(p) \/ CommitChange(p)

Next ==
  \/ \E u \in Upload : CreateTarget(u) \/ Put(u) \/ Expire(u)
  \/ \E i \in Image : Age(i)
  \/ \E r \in Req : FindUpload(r) \/ FindImage(r) \/ Work(r) \/ PurgeInvalid(r)
  \/ \E r \in Req : faults < MaxFaults /\ CommitImage(r, TRUE)
  \/ \E p \in Pruner : Prune(p)
  \/ \E p \in Proc : DeadlockVictim(p) \/ Fail(p)
  \/ Crash

Spec == Init /\ [][Next]_vars

\* What the server has begun goes on, deadlocks are broken, and pruners run every hour.
FairSpec ==
  /\ Spec
  /\ \A r \in Req : WF_vars(Work(r)) /\ WF_vars(DeadlockVictim(r))
  /\ \A p \in Pruner : WF_vars(Prune(p)) /\ WF_vars(DeadlockVictim(p))

-----------------------------------------------------------------------------
(* Properties *)

Answer == {"expired", "notFound", "conflict", "missing", "invalid", "alreadyUsed", "failed",
           "created", "delete", "force", "restore", "crop"}
Label == {"idle", "promote", "lock", "consume", "old", "commit", "cleanup", "discard", "read",
          "asset", "row", "product", "done", "sleep", "next", "upload"}

\* Every variable has its type.
TypeOK ==
  /\ upload \in [Upload -> {"none", "pending", "consumed", "gone"}]
  /\ expired \subseteq Upload /\ private \subseteq Upload
  /\ public \subseteq Image
  /\ image \in [Image -> {"absent", "live", "deleted", "gone"}]
  /\ aged \subseteq Image /\ crop \subseteq Image /\ condemned \subseteq Image
  /\ thumbnail \in Image \cup {None}
  /\ lock \in [Image \cup {Gallery} -> Proc \cup {None}]
  /\ pc \in [Proc -> Label]
  /\ in \in [Req -> Inputs]
  /\ about \in [Proc -> Image \cup Upload \cup {None}]
  /\ seen \in [Proc -> BOOLEAN]
  /\ todo \in [Proc -> SUBSET (Image \cup Upload)]
  /\ reply \in [Req -> Answer \cup {"none"}]
  /\ faults \in 0..MaxFaults

\* However often an upload is registered at once, it yields one image: the first
\* transaction consumes it.
UploadUsedOnce ==
  \A r, q \in Req :
    (image[r] # "absent" /\ image[q] # "absent" /\ in[r].upload = in[q].upload) => r = q

\* An image on display keeps its object, unless a forced deletion or a pruner has
\* begun to remove that image or the answer to its commit was lost: what a request
\* that loses the race for an upload cleans up is never the winner's object.
LiveImagesKeepAssets ==
  \A i \in Image : (Exists(i) /\ i \notin condemned) => AssetOf(i) \in public

\* A removed image leaves no object behind, wherever a failure cuts the removal.
RemovedImagesLeaveNothing == \A i \in Image : image[i] = "gone" => AssetOf(i) \notin public

\* The product's thumbnail is an image on display, although a deletion decides
\* whether to clear it from an earlier read.
ThumbnailIsLive == thumbnail # None => image[thumbnail] = "live"

\* Registrations lock the product and then the old thumbnail, deletions the image and
\* then the product: they deadlock, and every request is still answered.
EveryRequestAnswered == \A r \in Req : pc[r] # "idle" ~> pc[r] = "done"

\* Expired uploads and images deleted long ago disappear, object and row, although
\* any error ends a run of the pruner.
LeftoversPruned ==
  /\ \A u \in Upload : u \in expired ~> (u \notin private /\ upload[u] = "gone")
  /\ \A i \in Image : i \in aged ~> (image[i] = "gone" \/ i \notin aged)

\* Only the thumbnail on display has a crop: updateImageCrop answers "Only thumbnail
\* images support crop positioning."
CroppedImagesAreThumbnails == \A i \in crop : image[i] = "live" => thumbnail = i

-----------------------------------------------------------------------------
(* The inductive invariant behind the safety properties *)

Creating == {"promote", "lock", "consume", "old", "commit", "cleanup", "discard"}
Changing == {"read", "asset", "row", "product"}
Removing(p) == p \in Pruner \/ in[p].op = "force"

\* Who can be where.
Roles(p) ==
  /\ (p \in Pruner => pc[p] \in {"sleep", "next", "upload", "asset", "row", "product"})
  /\ (p \in Req => pc[p] \in {"idle", "done"} \cup
                     (IF in[p].op = "create" THEN Creating ELSE Changing))
  /\ (pc[p] = "asset" => Removing(p))
  /\ (pc[p] = "read" => p \in Req /\ in[p].op = "delete")

\* Nobody works on an image before it is registered.
Subject(p) ==
  /\ (pc[p] \in Changing => about[p] \in Image /\ image[about[p]] # "absent")
  /\ (pc[p] = "upload" => about[p] \in Upload)
  /\ (pc[p] = "old" => about[p] \in Image)
  /\ \A i \in todo[p] \cap Image : image[i] # "absent"

\* The locks a transaction relies on.
Held(p) ==
  /\ (pc[p] \in {"consume", "old", "commit"} => lock[Gallery] = p)
  /\ (pc[p] = "product" => lock[about[p]] = p /\ Exists(about[p]))

\* A removal reaches the row only after the object is gone.
Emptied(p) == (pc[p] \in {"row", "product"} /\ Removing(p)) => about[p] \notin public

\* A registration has its copy, and no row yet.
Registering(r) ==
  /\ (in[r].op # "create" \/ pc[r] \in (Creating \ {"cleanup", "discard"}) \cup {"idle"}
        => image[r] = "absent")
  /\ (pc[r] \in {"lock", "consume", "old", "commit"} => r \in public)
  /\ (pc[r] = "discard" => image[r] = "absent" \/ r \in condemned)

\* Whoever is past the check of an upload is the only one.
Claimed(r) ==
  /\ (image[r] # "absent" => upload[in[r].upload] \in {"consumed", "gone"})
  /\ (pc[r] \in {"old", "commit"} =>
        /\ upload[in[r].upload] # "none"
        /\ \A q \in Req : in[q].upload = in[r].upload => image[q] = "absent")

\* An image that was not the thumbnail when it was read never becomes it.
Unseen(r) ==
  (in[r].op = "delete" /\ pc[r] \in {"row", "product"} /\ ~seen[r]) => thumbnail # about[r]

\* The inductive invariant: what the proofs carry from step to step.
IInv ==
  /\ TypeOK
  /\ UploadUsedOnce /\ LiveImagesKeepAssets /\ RemovedImagesLeaveNothing /\ ThumbnailIsLive
  /\ \A p \in Proc : Roles(p) /\ Subject(p) /\ Held(p) /\ Emptied(p)
  /\ \A r \in Req : Registering(r) /\ Claimed(r) /\ Unseen(r)

================================================================================
