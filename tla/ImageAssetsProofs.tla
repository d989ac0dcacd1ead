----------------------------- MODULE ImageAssetsProofs -----------------------------
(***************************************************************************)
(* Proofs about ImageAssets, for every set of requests, pruners, images    *)
(* and uploads and every number of faults.  IInv is inductive and has the  *)
(* safety properties as conjuncts.  Frame says what a step of one process  *)
(* may do to the others; each action is then shown to keep its own         *)
(* process's part of IInv.                                                 *)
(***************************************************************************)
EXTENDS ImageAssets, TLAPS

ProcInv(p) == Roles(p) /\ Subject(p) /\ Held(p) /\ Emptied(p)
ReqInv(r) == Registering(r) /\ Claimed(r) /\ Unseen(r)
Safe == UploadUsedOnce /\ LiveImagesKeepAssets /\ RemovedImagesLeaveNothing /\ ThumbnailIsLive

LEMMA Parts ==
  IInv <=> /\ TypeOK /\ Safe
           /\ \A p \in Proc : ProcInv(p)
           /\ \A r \in Req : ReqInv(r)
BY DEF IInv, Safe, ProcInv, ReqInv

LEMMA Names ==
  /\ Image \cap Upload = {} /\ None \notin Image /\ Gallery \notin Image /\ None \notin Proc
  /\ Req \subseteq Image /\ Req \subseteq Proc /\ Pruner \subseteq Proc /\ Req \cap Pruner = {}
BY NamesAssumption DEF Image, Proc

LEMMA InputTypes ==
  ASSUME TypeOK, NEW r \in Req
  PROVE  /\ in[r].op \in {"create", "delete", "force", "restore", "crop"}
         /\ in[r].image \in Image /\ in[r].upload \in Upload /\ in[r].thumb \in BOOLEAN
BY InputsAssumption DEF TypeOK, Input

LEMMA UnlockedType ==
  ASSUME TypeOK, NEW p
  PROVE  /\ Unlocked(p) \in [Image \cup {Gallery} -> Proc \cup {None}]
         /\ \A x \in Image \cup {Gallery} : lock[x] # p => Unlocked(p)[x] = lock[x]
BY DEF Unlocked, TypeOK

-----------------------------------------------------------------------------
(* What a step of p may do to the others *)

Frame(p) ==
  /\ in' = in
  /\ \A q \in Proc \ {p} : pc'[q] = pc[q] /\ about'[q] = about[q] /\ seen'[q] = seen[q]
                             /\ todo'[q] = todo[q]
  /\ \A q \in Proc \ {p}, x \in Image \cup {Gallery} : lock[x] = q => lock'[x] = q
  /\ \A i \in Image : image[i] # "absent" => image'[i] # "absent"
  /\ \A i \in Image : (Exists(i) /\ lock[i] # p) => Exists(i)'
  /\ \A i \in Image : (image[i] = "absent" /\ i # p) => image'[i] = "absent"
  /\ \A i \in public' \ public : image[i] = "absent"
  /\ \A i \in public \ public' : image[i] = "absent" => i = p
  /\ condemned \subseteq condemned'
  /\ \A u \in Upload : upload[u] \in {"consumed", "gone"} => upload'[u] \in {"consumed", "gone"}
  /\ \A u \in Upload : upload[u] # "none" => upload'[u] # "none"
  /\ thumbnail' \in {thumbnail, None} \/ (thumbnail' = p /\ image[p] = "absent")
  /\ (p \in Image /\ image[p] = "absent" /\ image'[p] # "absent") => lock[Gallery] = p

LEMMA FrameKeepsProc ==
  ASSUME IInv, TypeOK', NEW p, Frame(p), NEW q \in Proc \ {p}
  PROVE  ProcInv(q)'
<1>1. TypeOK /\ ProcInv(q)
  BY Parts
<1>2. pc'[q] = pc[q] /\ about'[q] = about[q] /\ todo'[q] = todo[q] /\ in' = in
  BY DEF Frame
<1>3. Roles(q)'
  BY <1>1, <1>2, Zenon DEF ProcInv, Roles, Removing
<1>4. Subject(q)'
  BY <1>1, <1>2 DEF ProcInv, Subject, Frame
<1>5. Held(q)'
  BY <1>1, <1>2, Names DEF ProcInv, Held, Subject, Frame, Exists, Changing
<1>6. Emptied(q)'
  BY <1>1, <1>2 DEF ProcInv, Emptied, Subject, Frame, Changing, Removing
<1> QED
  BY <1>3, <1>4, <1>5, <1>6 DEF ProcInv

LEMMA FrameKeepsReq ==
  ASSUME IInv, TypeOK', NEW p, Frame(p), NEW q \in Req \ {p}
  PROVE  ReqInv(q)'
<1>1. TypeOK /\ ProcInv(q) /\ ReqInv(q) /\ q \in Proc /\ q \in Image
  BY Parts, Names
<1>2. pc'[q] = pc[q] /\ about'[q] = about[q] /\ seen'[q] = seen[q] /\ in' = in
  BY <1>1 DEF Frame
<1>3. Registering(q)'
  <2>1. image[q] = "absent" => image'[q] = "absent" /\ (q \in public => q \in public')
    BY <1>1 DEF Frame
  <2>2. q \in condemned => q \in condemned'
    BY DEF Frame
  <2>3. pc[q] \in {"lock", "consume", "old", "commit"} => image[q] = "absent"
    BY <1>1 DEF ReqInv, Registering, Creating
  <2> QED
    BY <1>1, <1>2, <2>1, <2>2, <2>3 DEF ReqInv, Registering
<1>4. Claimed(q)'
  <2>1. image'[q] # "absent" => upload'[in[q].upload] \in {"consumed", "gone"}
    BY <1>1, InputTypes DEF ReqInv, Claimed, Frame
  <2>2. ASSUME pc[q] \in {"old", "commit"}, NEW s \in Req, in[s].upload = in[q].upload
        PROVE  image'[s] = "absent"
    <3>1. image[s] = "absent" /\ lock[Gallery] = q
      BY <1>1, <2>2 DEF ReqInv, Claimed, ProcInv, Held
    <3> QED
      BY <1>1, <3>1, Names DEF Frame
  <2>3. pc[q] \in {"old", "commit"} => upload'[in[q].upload] # "none"
    BY <1>1, InputTypes DEF ReqInv, Claimed, Frame
  <2> QED
    BY <1>2, <2>1, <2>2, <2>3 DEF Claimed
<1>5. Unseen(q)'
  BY <1>1, <1>2, Names DEF ProcInv, ReqInv, Subject, Changing, Unseen, Frame
<1> QED
  BY <1>3, <1>4, <1>5 DEF ReqInv

\* A step of p within its frame keeps IInv if it keeps the types, the safety
\* properties and p's own part.
LEMMA FrameStep ==
  ASSUME IInv, NEW p, Frame(p), TypeOK', Safe',
         p \in Proc => ProcInv(p)', p \in Req => ReqInv(p)'
  PROVE  IInv'
<1>1. \A q \in Proc : ProcInv(q)'
  BY FrameKeepsProc
<1>2. \A q \in Req : ReqInv(q)'
  BY FrameKeepsReq
<1> QED
  BY <1>1, <1>2 DEF IInv, Safe, ProcInv, ReqInv

LEMMA SafeKept ==
  ASSUME Safe, UNCHANGED <<image, thumbnail, in, public>>, condemned \subseteq condemned'
  PROVE  Safe'
BY DEF Safe, UploadUsedOnce, LiveImagesKeepAssets, RemovedImagesLeaveNothing, ThumbnailIsLive,
       Exists, AssetOf

\* A step of p that changes no upload, image, thumbnail or public object.
LEMMA QuietStep ==
  ASSUME IInv, NEW p, TypeOK', UNCHANGED <<upload, image, thumbnail, public, in, condemned>>,
         \A q \in Proc \ {p} : pc'[q] = pc[q] /\ about'[q] = about[q] /\ seen'[q] = seen[q]
                                 /\ todo'[q] = todo[q],
         \A q \in Proc \ {p}, x \in Image \cup {Gallery} : lock[x] = q => lock'[x] = q,
         p \in Proc => ProcInv(p)', p \in Req => ReqInv(p)'
  PROVE  IInv'
<1>1. Safe'
  BY Parts, SafeKept
<1>2. Frame(p)
  BY DEF Frame, Exists
<1> QED
  BY <1>1, <1>2, FrameStep

\* A step of p that changes neither rows nor buckets.
LEMMA LocalStep ==
  ASSUME IInv, NEW p \in Proc, TypeOK', UNCHANGED <<rows, buckets, in, condemned>>,
         \A q \in Proc \ {p} : pc'[q] = pc[q] /\ about'[q] = about[q] /\ seen'[q] = seen[q]
                                 /\ todo'[q] = todo[q],
         \A q \in Proc \ {p}, x \in Image \cup {Gallery} : lock[x] = q => lock'[x] = q,
         ProcInv(p)', p \in Req => ReqInv(p)'
  PROVE  IInv'
BY QuietStep DEF rows, buckets

-----------------------------------------------------------------------------
(* Steps that touch neither rows nor buckets *)

\* Ending a request or a run of a pruner.
LEMMA EndStep ==
  ASSUME IInv, NEW p \in Proc, NEW a, a \in Answer \cup {"none"}, End(p, a),
         faults' \in 0..MaxFaults
  PROVE  IInv'
<1>1. TypeOK /\ ProcInv(p) /\ (p \in Req => ReqInv(p))
  BY Parts
<1>2. lock' \in [Image \cup {Gallery} -> Proc \cup {None}]
      /\ \A q \in Proc \ {p}, x \in Image \cup {Gallery} : lock[x] = q => lock'[x] = q
  BY <1>1, UnlockedType DEF End
<1>3. TypeOK'
  BY <1>1, <1>2 DEF End, Ended, Goto, TypeOK, Label, rows, buckets
<1>4. /\ pc'[p] \in {"sleep", "done"} /\ (p \in Req => pc'[p] = "done")
      /\ (p \in Pruner => pc'[p] = "sleep") /\ todo'[p] = {}
      /\ \A q \in Proc \ {p} : pc'[q] = pc[q] /\ about'[q] = about[q] /\ seen'[q] = seen[q]
                                 /\ todo'[q] = todo[q]
  BY <1>1, Names DEF End, Ended, Goto, TypeOK
<1>5. ProcInv(p)'
  BY <1>4 DEF ProcInv, Roles, Subject, Held, Emptied, Changing
<1>6. p \in Req => ReqInv(p)'
  BY <1>1, <1>4 DEF ReqInv, Registering, Claimed, Unseen, Creating, End, rows
<1> QED
  BY <1>2, <1>3, <1>4, <1>5, <1>6, LocalStep DEF End

LEMMA RefuseStep ==
  ASSUME IInv, NEW p \in Proc, NEW a, a \in Answer \cup {"none"}, Refuse(p, a)
  PROVE  IInv'
BY EndStep DEF Refuse, IInv, TypeOK

LEMMA FindUploadStep ==
  ASSUME IInv, NEW r \in Req, FindUpload(r)
  PROVE  IInv'
<1> USE Names
<1>1. CASE Refuse(r, "expired")
  BY <1>1, RefuseStep DEF Answer
<1>2. CASE Start(r, "promote")
  <2>1. TypeOK /\ ProcInv(r) /\ ReqInv(r) /\ r \in Proc /\ pc[r] = "idle" /\ in[r].op = "create"
    BY Parts DEF FindUpload
  <2>2. /\ pc'[r] = "promote" /\ UNCHANGED <<rows, buckets, in, lock, condemned, todo, seen>>
        /\ \A q \in Proc \ {r} : pc'[q] = pc[q] /\ about'[q] = about[q]
    BY <1>2, <2>1 DEF Start, Goto, TypeOK
  <2>3. TypeOK'
    BY <1>2, <2>1 DEF Start, Goto, TypeOK, Label, rows, buckets
  <2>4. ProcInv(r)'
    BY <2>1, <2>2, <2>3
       DEF ProcInv, Roles, Subject, Held, Emptied, Changing, Creating, rows
  <2>5. ReqInv(r)'
    BY <2>1, <2>2 DEF ReqInv, Registering, Claimed, Unseen, Creating, rows
  <2> QED
    BY <2>1, <2>2, <2>3, <2>4, <2>5, LocalStep
<1> QED
  BY <1>1, <1>2 DEF FindUpload

LEMMA FindImageStep ==
  ASSUME IInv, NEW r \in Req, FindImage(r)
  PROVE  IInv'
<1> USE Names
<1>1. CASE \E a \in Answer : Refuse(r, a)
  BY <1>1, RefuseStep
<1>2. CASE \E label \in {"read", "asset", "row"} :
             /\ Start(r, label)
             /\ (label = "asset" <=> in[r].op = "force")
             /\ (label = "read" <=> in[r].op = "delete")
             /\ image[in[r].image] # "absent"
  <2>1. TypeOK /\ ProcInv(r) /\ ReqInv(r) /\ r \in Proc /\ pc[r] = "idle" /\ in[r].op # "create"
        /\ in[r].image \in Image
    BY Parts, InputTypes DEF FindImage
  <2>2. PICK label \in {"read", "asset", "row"} :
             /\ Start(r, label)
             /\ (label = "asset" <=> in[r].op = "force")
             /\ (label = "read" <=> in[r].op = "delete")
             /\ image[in[r].image] # "absent"
    BY <1>2
  <2>3. /\ pc'[r] = label /\ about'[r] = in[r].image
        /\ UNCHANGED <<rows, buckets, in, lock, condemned, todo, seen>>
        /\ \A q \in Proc \ {r} : pc'[q] = pc[q] /\ about'[q] = about[q]
    BY <2>1, <2>2 DEF Start, Goto, TypeOK
  <2>4. TypeOK'
    BY <2>1, <2>2 DEF Start, Goto, TypeOK, Label, rows, buckets
  <2>5. ProcInv(r)'
    BY <2>1, <2>2, <2>3
       DEF ProcInv, Roles, Subject, Held, Emptied, Changing, Removing, rows
  <2>6. ReqInv(r)'
    BY <2>1, <2>2, <2>3 DEF ReqInv, Registering, Claimed, Unseen, Creating, rows
  <2> QED
    BY <2>1, <2>3, <2>4, <2>5, <2>6, LocalStep
<1>3. in[r].op \in {"delete", "force", "restore", "crop"} /\ in[r].image \in Image
  BY InputTypes DEF FindImage, IInv
<1> QED
  BY <1>1, <1>2, <1>3 DEF FindImage, Answer, Exists

LEMMA LockProductStep ==
  ASSUME IInv, NEW r \in Req, LockProduct(r)
  PROVE  IInv'
<1> USE Names
<1>1. TypeOK /\ ProcInv(r) /\ ReqInv(r) /\ r \in Proc
  BY Parts
<1>2. /\ pc[r] = "lock" /\ pc'[r] = "consume" /\ lock'[Gallery] = r
      /\ UNCHANGED <<rows, buckets, in, about, condemned, todo, seen>>
      /\ \A q \in Proc \ {r} : pc'[q] = pc[q]
      /\ \A q \in Proc \ {r}, x \in Image \cup {Gallery} : lock[x] = q => lock'[x] = q
  BY <1>1 DEF LockProduct, Goto, TypeOK
<1>3. TypeOK'
  BY <1>1 DEF LockProduct, Goto, TypeOK, Label, rows, buckets
<1>4. ProcInv(r)'
  BY <1>1, <1>2 DEF ProcInv, Roles, Subject, Held, Emptied, Changing, Creating, rows
<1>5. ReqInv(r)'
  BY <1>1, <1>2 DEF ReqInv, Registering, Claimed, Unseen, Creating, rows, buckets
<1> QED
  BY <1>1, <1>2, <1>3, <1>4, <1>5, LocalStep

LEMMA LockOldThumbnailStep ==
  ASSUME IInv, NEW r \in Req, LockOldThumbnail(r)
  PROVE  IInv'
<1> USE Names
<1>1. TypeOK /\ ProcInv(r) /\ ReqInv(r) /\ r \in Proc
  BY Parts
<1>2. /\ pc[r] = "old" /\ pc'[r] = "commit" /\ about[r] \in Image
      /\ lock'[Gallery] = lock[Gallery]
      /\ UNCHANGED <<rows, buckets, in, about, condemned, todo, seen>>
      /\ \A q \in Proc \ {r} : pc'[q] = pc[q]
      /\ \A q \in Proc \ {r}, x \in Image \cup {Gallery} : lock[x] = q => lock'[x] = q
  BY <1>1 DEF LockOldThumbnail, Goto, TypeOK, ProcInv, Subject
<1>3. TypeOK'
  BY <1>1, <1>2 DEF LockOldThumbnail, Goto, TypeOK, Label, rows, buckets
<1>4. ProcInv(r)'
  BY <1>1, <1>2 DEF ProcInv, Roles, Subject, Held, Emptied, Changing, Creating, rows
<1>5. ReqInv(r)'
  BY <1>1, <1>2 DEF ReqInv, Registering, Claimed, Unseen, Creating, rows, buckets
<1> QED
  BY <1>1, <1>2, <1>3, <1>4, <1>5, LocalStep

\* The transaction of a create ends without a row.
LEMMA GiveUpStep ==
  ASSUME IInv, NEW r \in Req, pc[r] \in {"lock", "consume", "old", "commit"},
         Goto(r, "discard"), lock' = Unlocked(r), NEW a \in Answer,
         reply' = [reply EXCEPT ![r] = a], faults' \in 0..MaxFaults,
         UNCHANGED <<rows, buckets, expired, in, about, seen, todo, condemned>>
  PROVE  IInv'
<1> USE Names
<1>1. TypeOK /\ ProcInv(r) /\ ReqInv(r) /\ r \in Proc
  BY Parts
<1>2. lock' \in [Image \cup {Gallery} -> Proc \cup {None}]
      /\ \A q \in Proc \ {r}, x \in Image \cup {Gallery} : lock[x] = q => lock'[x] = q
  BY <1>1, UnlockedType
<1>3. pc'[r] = "discard" /\ \A q \in Proc \ {r} : pc'[q] = pc[q]
  BY <1>1 DEF Goto, TypeOK
<1>4. TypeOK'
  BY <1>1, <1>2 DEF Goto, TypeOK, Label, rows, buckets
<1>5. in[r].op = "create"
  BY <1>1 DEF ProcInv, Roles, Changing
<1>6. ProcInv(r)'
  BY <1>1, <1>3, <1>5 DEF ProcInv, Roles, Subject, Held, Emptied, Changing, Creating, rows
<1>7. ReqInv(r)'
  BY <1>1, <1>3, <1>5 DEF ReqInv, Registering, Claimed, Unseen, Creating, rows, buckets
<1> QED
  BY <1>1, <1>2, <1>3, <1>4, <1>6, <1>7, LocalStep

LEMMA ConsumeUploadStep ==
  ASSUME IInv, NEW r \in Req, ConsumeUpload(r)
  PROVE  IInv'
<1> USE Names
<1>1. TypeOK /\ ProcInv(r) /\ ReqInv(r) /\ r \in Proc /\ pc[r] = "consume"
  BY Parts DEF ConsumeUpload
<1>2. CASE ~Consumable(r)
  <2>1. faults' \in 0..MaxFaults \/ faults' = faults
    BY DEF ConsumeUpload
  <2> QED
    BY <1>1, <1>2, GiveUpStep DEF ConsumeUpload, Answer, TypeOK
<1>3. CASE Consumable(r)
  <2>1. /\ UNCHANGED <<rows, buckets, in, lock, condemned, todo, seen, expired, reply, faults>>
        /\ pc' = [pc EXCEPT ![r] = IF in[r].thumb /\ thumbnail # None THEN "old" ELSE "commit"]
        /\ about' = [about EXCEPT ![r] = IF in[r].thumb THEN thumbnail ELSE None]
    BY <1>3 DEF ConsumeUpload, Goto
  <2>2. /\ pc'[r] \in {"old", "commit"} /\ (pc'[r] = "old" => about'[r] \in Image)
        /\ \A q \in Proc \ {r} : pc'[q] = pc[q] /\ about'[q] = about[q]
    BY <1>1, <2>1 DEF TypeOK
  <2>3. TypeOK'
    BY <1>1, <2>1 DEF TypeOK, Label, rows, buckets
  <2>4. ProcInv(r)'
    BY <1>1, <2>1, <2>2 DEF ProcInv, Roles, Subject, Held, Emptied, Changing, Creating, rows
  <2>5. \A q \in Req : in[q].upload = in[r].upload => image[q] = "absent"
    <3> SUFFICES ASSUME NEW q \in Req, in[q].upload = in[r].upload, image[q] # "absent"
                 PROVE  FALSE
      OBVIOUS
    <3>1. upload[in[q].upload] \in {"consumed", "gone"}
      BY Parts DEF ReqInv, Claimed
    <3> QED
      BY <3>1, <1>3 DEF Consumable
  <2>6. ReqInv(r)'
    BY <1>1, <1>3, <2>1, <2>2, <2>5
       DEF Consumable, ReqInv, Registering, Claimed, Unseen, Creating, rows, buckets
  <2> QED
    BY <1>1, <2>1, <2>2, <2>3, <2>4, <2>6, LocalStep
<1> QED
  BY <1>2, <1>3

LEMMA ReadThumbnailStep ==
  ASSUME IInv, NEW r \in Req, ReadThumbnail(r)
  PROVE  IInv'
<1> USE Names
<1>1. CASE ~Exists(about[r])
  BY <1>1, RefuseStep DEF ReadThumbnail, Answer
<1>2. CASE Exists(about[r])
  <2>1. TypeOK /\ ProcInv(r) /\ ReqInv(r) /\ r \in Proc /\ pc[r] = "read"
    BY Parts DEF ReadThumbnail
  <2>2. /\ pc'[r] = "row" /\ seen'[r] = (thumbnail = about[r])
        /\ UNCHANGED <<rows, buckets, in, lock, about, condemned, todo>>
        /\ \A q \in Proc \ {r} : pc'[q] = pc[q] /\ seen'[q] = seen[q]
    BY <1>2, <2>1 DEF ReadThumbnail, Goto, TypeOK
  <2>3. TypeOK'
    BY <1>2, <2>1, ZenonT(40) DEF ReadThumbnail, Goto, TypeOK, Label, rows, buckets
  <2>4. in[r].op = "delete" /\ r \notin Pruner
    BY <2>1 DEF ProcInv, Roles
  <2>5. ProcInv(r)'
    BY <2>1, <2>2, <2>4
       DEF ProcInv, Roles, Subject, Held, Emptied, Changing, Creating, Removing, rows, buckets
  <2>6. ReqInv(r)'
    BY <2>1, <2>2, <2>4 DEF ReqInv, Registering, Claimed, Unseen, Creating, rows, buckets
  <2> QED
    BY <2>1, <2>2, <2>3, <2>5, <2>6, LocalStep
<1> QED
  BY <1>1, <1>2

LEMMA LockImageStep ==
  ASSUME IInv, NEW p \in Proc, LockImage(p)
  PROVE  IInv'
<1> USE Names
<1>1. CASE ~Exists(about[p])
  BY <1>1, RefuseStep DEF LockImage, Answer
<1>2. CASE Exists(about[p])
  <2>1. TypeOK /\ ProcInv(p) /\ (p \in Req => ReqInv(p)) /\ pc[p] = "row"
    BY Parts DEF LockImage
  <2>2. /\ pc'[p] = "product" /\ lock'[about[p]] = p /\ about[p] \in Image
        /\ UNCHANGED <<rows, buckets, in, about, condemned, todo, seen>>
        /\ \A q \in Proc \ {p} : pc'[q] = pc[q]
        /\ \A q \in Proc \ {p}, x \in Image \cup {Gallery} : lock[x] = q => lock'[x] = q
    BY <1>2, <2>1 DEF LockImage, Goto, TypeOK, Exists
  <2>3. TypeOK'
    BY <1>2, <2>1, <2>2 DEF LockImage, Goto, TypeOK, Label, rows, buckets
  <2>4. ProcInv(p)'
    BY <1>2, <2>1, <2>2
       DEF ProcInv, Roles, Subject, Held, Emptied, Changing, Creating, Removing, Exists,
           rows, buckets
  <2>5. p \in Req => ReqInv(p)'
    BY <2>1, <2>2 DEF ReqInv, Registering, Claimed, Unseen, Creating, rows, buckets
  <2> QED
    BY <2>1, <2>2, <2>3, <2>4, <2>5, LocalStep
<1> QED
  BY <1>1, <1>2

\* A pruner that is not at work on an image.
LEMMA PrunerStep ==
  ASSUME IInv, NEW p \in Pruner, TypeOK', UNCHANGED <<rows, buckets, in, condemned, lock, seen>>,
         \A q \in Proc \ {p} : pc'[q] = pc[q] /\ about'[q] = about[q] /\ todo'[q] = todo[q],
         pc'[p] \in {"sleep", "next"} \/ (pc'[p] = "asset" /\ about'[p] \in todo[p] \cap Image),
         \A i \in todo'[p] \cap Image : image[i] # "absent"
  PROVE  IInv'
<1>1. ProcInv(p) /\ p \in Proc /\ p \notin Req
  BY Parts, Names
<1>2. ProcInv(p)'
  BY <1>1 DEF ProcInv, Roles, Subject, Held, Emptied, Changing, Removing, rows
<1> QED
  BY <1>1, <1>2, LocalStep

LEMMA ListStep ==
  ASSUME IInv, NEW p \in Pruner, List(p)
  PROVE  IInv'
<1> USE Names
<1>1. TypeOK /\ p \in Proc
  BY Parts
<1>2. Leftovers \in SUBSET (Image \cup Upload)
      /\ \A i \in Leftovers \cap Image : image[i] # "absent"
  BY <1>1 DEF Leftovers, TypeOK
<1>3. pc'[p] = "next" /\ todo'[p] = Leftovers
      /\ \A q \in Proc \ {p} : pc'[q] = pc[q] /\ todo'[q] = todo[q]
  BY <1>1 DEF List, Goto, TypeOK
<1>4. TypeOK'
  BY <1>1, <1>2 DEF List, Goto, TypeOK, Label, rows, buckets
<1> QED
  BY <1>2, <1>3, <1>4, PrunerStep DEF List

LEMMA PruneImageStep ==
  ASSUME IInv, NEW p \in Pruner, PruneImage(p)
  PROVE  IInv'
<1> USE Names
<1>1. TypeOK /\ ProcInv(p) /\ p \in Proc
  BY Parts
<1>2. /\ pc'[p] = "asset" /\ about'[p] \in todo[p] \cap Image /\ UNCHANGED todo
      /\ \A q \in Proc \ {p} : pc'[q] = pc[q] /\ about'[q] = about[q]
  BY <1>1 DEF PruneImage, Goto, TypeOK
<1>3. TypeOK'
  BY <1>1 DEF PruneImage, Goto, TypeOK, Label, rows, buckets
<1> QED
  BY <1>1, <1>2, <1>3, PrunerStep DEF PruneImage, ProcInv, Subject

-----------------------------------------------------------------------------
(* Steps that write rows or move objects *)

LEMMA PromoteStep ==
  ASSUME IInv, NEW r \in Req, Promote(r)
  PROVE  IInv'
<1> USE Names
<1>1. TypeOK /\ Safe /\ ProcInv(r) /\ ReqInv(r) /\ r \in Proc /\ pc[r] = "promote"
  BY Parts DEF Promote
<1>2. /\ pc'[r] = "lock" /\ public' = public \cup {r} /\ in[r].op = "create"
      /\ image[r] = "absent"
      /\ UNCHANGED <<rows, private, in, lock, about, condemned, todo>>
      /\ \A q \in Proc \ {r} : pc'[q] = pc[q] /\ seen'[q] = seen[q]
  BY <1>1
     DEF Promote, Goto, TypeOK, AssetOf, ProcInv, Roles, Changing, ReqInv, Registering, Creating
<1>3. TypeOK'
  BY <1>1, <1>2 DEF Promote, Goto, TypeOK, Label, rows
<1>4. Safe'
  BY <1>1, <1>2
     DEF Safe, UploadUsedOnce, LiveImagesKeepAssets, RemovedImagesLeaveNothing, ThumbnailIsLive,
         Exists, AssetOf, rows
<1>5. Frame(r)
  BY <1>2 DEF Frame, rows, Exists
<1>6. ProcInv(r)'
  BY <1>1, <1>2 DEF ProcInv, Roles, Subject, Held, Emptied, Changing, Creating, rows
<1>7. ReqInv(r)'
  BY <1>1, <1>2 DEF ReqInv, Registering, Claimed, Unseen, Creating, rows
<1> QED
  BY <1>3, <1>4, <1>5, <1>6, <1>7, FrameStep

LEMMA PurgeInvalidStep ==
  ASSUME IInv, NEW r \in Req, PurgeInvalid(r)
  PROVE  IInv'
<1> USE Names
<1>1. TypeOK /\ ProcInv(r) /\ ReqInv(r) /\ r \in Proc /\ pc[r] = "promote"
  BY Parts DEF PurgeInvalid
<1>2. /\ pc'[r] = "done" /\ todo'[r] = {}
      /\ UNCHANGED <<rows, public, in, lock, about, seen, condemned>>
      /\ \A q \in Proc \ {r} : pc'[q] = pc[q] /\ todo'[q] = todo[q]
  BY <1>1 DEF PurgeInvalid, Ended, Goto, TypeOK
<1>3. TypeOK'
  BY <1>1 DEF PurgeInvalid, Ended, Goto, TypeOK, Label, Answer, rows
<1>4. ProcInv(r)'
  BY <1>1, <1>2 DEF ProcInv, Roles, Subject, Held, Emptied, Changing, Creating, rows
<1>5. ReqInv(r)'
  BY <1>1, <1>2 DEF ReqInv, Registering, Claimed, Unseen, Creating, rows
<1> QED
  BY <1>2, <1>3, <1>4, <1>5, QuietStep DEF rows

LEMMA CommitImageStep ==
  ASSUME IInv, NEW r \in Req, NEW lost \in BOOLEAN, CommitImage(r, lost),
         lost => faults < MaxFaults
  PROVE  IInv'
<1> USE Names
<1>1. TypeOK /\ Safe /\ ProcInv(r) /\ ReqInv(r) /\ r \in Proc /\ pc[r] = "commit"
      /\ in[r].upload \in Upload /\ in[r].op = "create"
  BY Parts, InputTypes DEF CommitImage, ProcInv, Roles, Changing
<1>2. /\ image[r] = "absent" /\ r \in public /\ lock[Gallery] = r
      /\ upload[in[r].upload] # "none"
      /\ \A q \in Req : in[q].upload = in[r].upload => image[q] = "absent"
  BY <1>1 DEF ProcInv, Held, ReqInv, Registering, Claimed, Creating
<1>3. /\ pc'[r] = (IF lost THEN "discard" ELSE "cleanup")
      /\ upload' = [upload EXCEPT ![in[r].upload] = IF @ = "pending" THEN "consumed" ELSE @]
      /\ image' = [image EXCEPT ![r] = "live"]
      /\ thumbnail' \in {r, thumbnail}
      /\ condemned' = (IF lost THEN condemned \cup {r} ELSE condemned)
      /\ UNCHANGED <<public, in, about, seen, todo>>
      /\ \A q \in Proc \ {r} : pc'[q] = pc[q]
  BY <1>1 DEF CommitImage, Goto, TypeOK, buckets
<1>4. lock' \in [Image \cup {Gallery} -> Proc \cup {None}]
      /\ \A q \in Proc \ {r}, x \in Image \cup {Gallery} : lock[x] = q => lock'[x] = q
  BY <1>1, UnlockedType DEF CommitImage
<1>5. TypeOK'
  <2>1. faults' \in 0..MaxFaults
    BY <1>1, FaultsAssumption DEF CommitImage, TypeOK
  <2>2. crop' \subseteq Image
    BY <1>1 DEF CommitImage, TypeOK
  <2>3. reply' \in [Req -> Answer \cup {"none"}]
    BY <1>1 DEF CommitImage, TypeOK, Answer
  <2>4. pc' \in [Proc -> Label]
    BY <1>1 DEF CommitImage, Goto, TypeOK, Label
  <2>5. upload' \in [Upload -> {"none", "pending", "consumed", "gone"}]
    BY <1>1, <1>3 DEF TypeOK
  <2>6. image' \in [Image -> {"absent", "live", "deleted", "gone"}]
        /\ thumbnail' \in Image \cup {None} /\ condemned' \subseteq Image
    BY <1>1, <1>3 DEF TypeOK
  <2> QED
    BY <1>1, <1>3, <1>4, <2>1, <2>2, <2>3, <2>4, <2>5, <2>6 DEF CommitImage, TypeOK, buckets
<1>6. Safe'
  BY <1>1, <1>2, <1>3
     DEF TypeOK, Safe, UploadUsedOnce, LiveImagesKeepAssets, RemovedImagesLeaveNothing,
         ThumbnailIsLive, Exists, AssetOf
<1>7. Frame(r)
  BY <1>1, <1>2, <1>3, <1>4 DEF TypeOK, Frame, Exists
<1>8. ProcInv(r)'
  BY <1>1, <1>3 DEF TypeOK, ProcInv, Roles, Subject, Held, Emptied, Changing, Creating
<1>9. ReqInv(r)'
  BY <1>1, <1>2, <1>3 DEF TypeOK, ReqInv, Registering, Claimed, Unseen, Creating
<1> QED
  BY <1>5, <1>6, <1>7, <1>8, <1>9, FrameStep

LEMMA CleanupStep ==
  ASSUME IInv, NEW r \in Req, Cleanup(r)
  PROVE  IInv'
<1> USE Names
<1>1. TypeOK /\ ProcInv(r) /\ ReqInv(r) /\ r \in Proc /\ pc[r] = "cleanup"
  BY Parts DEF Cleanup
<1>2. /\ pc'[r] = "done" /\ UNCHANGED <<rows, public, in, lock, about, seen, todo, condemned>>
      /\ \A q \in Proc \ {r} : pc'[q] = pc[q]
  BY <1>1 DEF Cleanup, Goto, TypeOK
<1>3. TypeOK'
  BY <1>1 DEF Cleanup, Goto, TypeOK, Label, rows
<1>4. ProcInv(r)'
  BY <1>1, <1>2 DEF ProcInv, Roles, Subject, Held, Emptied, Changing, Creating, rows
<1>5. ReqInv(r)'
  BY <1>1, <1>2 DEF ReqInv, Registering, Claimed, Unseen, Creating, ProcInv, Roles, Changing, rows
<1> QED
  BY <1>2, <1>3, <1>4, <1>5, QuietStep DEF rows

LEMMA DiscardStep ==
  ASSUME IInv, NEW r \in Req, Discard(r)
  PROVE  IInv'
<1> USE Names
<1>1. TypeOK /\ Safe /\ ProcInv(r) /\ ReqInv(r) /\ r \in Proc /\ pc[r] = "discard"
      /\ in[r].op = "create" /\ (image[r] = "absent" \/ r \in condemned)
  BY Parts DEF Discard, ProcInv, Roles, Changing, ReqInv, Registering
<1>2. /\ pc'[r] = "done" /\ UNCHANGED <<rows, private, in, lock, about, seen, todo, condemned>>
      /\ public' \in {public, public \ {r}}
      /\ \A q \in Proc \ {r} : pc'[q] = pc[q]
  BY <1>1 DEF Discard, Goto, TypeOK, AssetOf
<1>3. TypeOK'
  BY <1>1, <1>2 DEF Discard, Goto, TypeOK, Label, rows
<1>4. Safe'
  BY <1>1, <1>2
     DEF Safe, UploadUsedOnce, LiveImagesKeepAssets, RemovedImagesLeaveNothing, ThumbnailIsLive,
         Exists, AssetOf, rows
<1>5. Frame(r)
  BY <1>2 DEF Frame, rows, Exists
<1>6. ProcInv(r)'
  BY <1>1, <1>2 DEF ProcInv, Roles, Subject, Held, Emptied, Changing, Creating, rows
<1>7. ReqInv(r)'
  BY <1>1, <1>2 DEF ReqInv, Registering, Claimed, Unseen, Creating, rows
<1> QED
  BY <1>3, <1>4, <1>5, <1>6, <1>7, FrameStep

LEMMA DeleteAssetStep ==
  ASSUME IInv, NEW p \in Proc, DeleteAsset(p)
  PROVE  IInv'
<1> USE Names
<1>1. TypeOK /\ Safe /\ ProcInv(p) /\ (p \in Req => ReqInv(p)) /\ pc[p] = "asset"
  BY Parts DEF DeleteAsset
<1>2. about[p] \in Image /\ image[about[p]] # "absent"
  BY <1>1 DEF ProcInv, Subject, Changing
<1>3. /\ pc'[p] = "row" /\ public' = public \ {about[p]}
      /\ condemned' = condemned \cup {about[p]}
      /\ UNCHANGED <<rows, private, in, lock, about, seen, todo>>
      /\ \A q \in Proc \ {p} : pc'[q] = pc[q]
  BY <1>1 DEF DeleteAsset, Taken, Goto, TypeOK, AssetOf
<1>4. TypeOK'
  BY <1>1, <1>2, <1>3 DEF DeleteAsset, Goto, TypeOK, Label, rows
<1>5. Safe'
  BY <1>1, <1>3
     DEF Safe, UploadUsedOnce, LiveImagesKeepAssets, RemovedImagesLeaveNothing, ThumbnailIsLive,
         Exists, AssetOf, rows
<1>6. Frame(p)
  BY <1>2, <1>3 DEF Frame, rows, Exists
<1>7. ProcInv(p)'
  BY <1>1, <1>3
     DEF ProcInv, Roles, Subject, Held, Emptied, Changing, Creating, Removing, rows
<1>8. p \in Req => ReqInv(p)'
  <2> SUFFICES ASSUME p \in Req PROVE ReqInv(p)'
    OBVIOUS
  <2>1. in[p].op = "force" /\ image[p] = "absent"
    BY <1>1 DEF ProcInv, Roles, Removing, ReqInv, Registering
  <2> QED
    BY <1>1, <1>3, <2>1 DEF ReqInv, Registering, Claimed, Unseen, Creating, rows
<1> QED
  BY <1>4, <1>5, <1>6, <1>7, <1>8, FrameStep

LEMMA CommitChangeStep ==
  ASSUME IInv, NEW p \in Proc, CommitChange(p)
  PROVE  IInv'
<1> USE Names
<1> DEFINE i == about[p]
           op == IF p \in Pruner THEN "force" ELSE in[p].op
<1>1. TypeOK /\ Safe /\ ProcInv(p) /\ (p \in Req => ReqInv(p)) /\ pc[p] = "product"
  BY Parts DEF CommitChange
<1>2. i \in Image /\ Exists(i) /\ lock[i] = p
  BY <1>1 DEF ProcInv, Subject, Held, Changing
<1>3. op \in {"delete", "restore", "crop", "force"}
  <2>1. CASE p \in Pruner
    BY <2>1
  <2>2. CASE p \in Req
    BY <1>1, <2>2, InputTypes DEF ProcInv, Roles, Creating
  <2> QED
    BY <2>1, <2>2 DEF Proc
<1>4. \E state \in {"live", "deleted", "gone"} :
        /\ image' = [image EXCEPT ![i] = state]
        /\ thumbnail' \in {thumbnail, None}
        /\ (state = "gone" => op = "force")
        /\ (state # "live" => thumbnail' # i)
  <2>1. CASE op = "delete"
    <3>1. image' = [image EXCEPT ![i] = "deleted"]
          /\ thumbnail' = IF seen[p] THEN None ELSE thumbnail
      BY <2>1 DEF CommitChange, Written, DropsThumbnail
    <3>2. ~seen[p] => thumbnail # i
      BY <1>1, <2>1 DEF ReqInv, Unseen, Proc
    <3> QED
      BY <1>2, <3>1, <3>2
  <2>2. CASE op = "restore"
    <3>1. image' = [image EXCEPT ![i] = "live"] /\ thumbnail' = thumbnail
      BY <2>2 DEF CommitChange, Written
    <3> QED
      BY <3>1
  <2>3. CASE op = "crop"
    <3>1. image' = [image EXCEPT ![i] = image[i]] /\ thumbnail' = thumbnail
      BY <2>3 DEF CommitChange, Written
    <3>2. thumbnail = i => image[i] = "live"
      BY <1>1, <1>2 DEF Safe, ThumbnailIsLive
    <3> QED
      BY <1>2, <3>1, <3>2 DEF Exists
  <2>4. CASE op = "force"
    <3>1. image' = [image EXCEPT ![i] = "gone"]
          /\ thumbnail' = IF thumbnail = i THEN None ELSE thumbnail
      BY <2>4 DEF CommitChange, Written
    <3> QED
      BY <1>2, <2>4, <3>1
  <2> QED
    BY <1>3, <2>1, <2>2, <2>3, <2>4
<1>5. /\ pc'[p] \in {"next", "done"} /\ (p \in Pruner => pc'[p] = "next")
      /\ (p \in Req => pc'[p] = "done")
      /\ todo'[p] \subseteq todo[p]
      /\ UNCHANGED <<upload, public, private, in, about, seen, condemned, faults, expired>>
      /\ \A q \in Proc \ {p} : pc'[q] = pc[q] /\ todo'[q] = todo[q]
  BY <1>1 DEF CommitChange, Goto, TypeOK, Proc, buckets
<1>6. lock' \in [Image \cup {Gallery} -> Proc \cup {None}]
      /\ \A q \in Proc \ {p}, x \in Image \cup {Gallery} : lock[x] = q => lock'[x] = q
  BY <1>1, UnlockedType DEF CommitChange
<1>7. TypeOK'
  <2>1. crop' \subseteq Image
    <3>1. \E c \in BOOLEAN : crop' = IF c THEN crop \cup {i} ELSE crop \ {i}
      BY <1>3 DEF CommitChange, Written
    <3> QED
      BY <1>1, <1>2, <3>1 DEF TypeOK
  <2>2. aged' \subseteq Image
    BY <1>1 DEF CommitChange, TypeOK
  <2>3. reply' \in [Req -> Answer \cup {"none"}]
    BY <1>1, <1>3 DEF CommitChange, TypeOK, Answer, Proc
  <2>4. pc' \in [Proc -> Label] /\ todo' \in [Proc -> SUBSET (Image \cup Upload)]
    BY <1>1 DEF CommitChange, Goto, TypeOK, Label
  <2>5. image' \in [Image -> {"absent", "live", "deleted", "gone"}]
        /\ thumbnail' \in Image \cup {None}
    BY <1>1, <1>2, <1>4 DEF TypeOK
  <2> QED
    BY <1>1, <1>5, <1>6, <2>1, <2>2, <2>3, <2>4, <2>5 DEF TypeOK
<1>8. op = "force" => i \notin public
  BY <1>1 DEF ProcInv, Emptied, Removing
<1>9. Safe'
  <2>1. PICK state \in {"live", "deleted", "gone"} :
          /\ image' = [image EXCEPT ![i] = state]
          /\ thumbnail' \in {thumbnail, None}
          /\ (state = "gone" => op = "force")
          /\ (state # "live" => thumbnail' # i)
    BY <1>4
  <2>2. UploadUsedOnce'
    BY <1>1, <1>2, <1>5, <2>1 DEF Safe, UploadUsedOnce, Exists, TypeOK
  <2>3. LiveImagesKeepAssets'
    BY <1>1, <1>2, <1>5, <2>1 DEF Safe, LiveImagesKeepAssets, Exists, TypeOK, AssetOf
  <2>4. RemovedImagesLeaveNothing'
    BY <1>1, <1>2, <1>5, <1>8, <2>1 DEF Safe, RemovedImagesLeaveNothing, TypeOK, AssetOf
  <2>5. ThumbnailIsLive'
    BY <1>1, <1>2, <2>1 DEF Safe, ThumbnailIsLive, TypeOK
  <2> QED
    BY <2>2, <2>3, <2>4, <2>5 DEF Safe
<1>10. Frame(p)
  BY <1>1, <1>2, <1>4, <1>5, <1>6 DEF TypeOK, Frame, Exists
<1>11. ProcInv(p)'
  <2>1. Subject(p)'
    BY <1>1, <1>5, <1>10 DEF ProcInv, Subject, Changing, Frame, TypeOK
  <2> QED
    BY <1>1, <1>5, <2>1 DEF ProcInv, Roles, Held, Emptied
<1>12. p \in Req => ReqInv(p)'
  <2> SUFFICES ASSUME p \in Req PROVE ReqInv(p)'
    OBVIOUS
  <2>1. in[p].op # "create" /\ image[p] = "absent"
    BY <1>1 DEF ProcInv, Roles, Creating, ReqInv, Registering
  <2>2. image'[p] = "absent"
    BY <1>1, <1>2, <1>4, <2>1 DEF TypeOK, Exists
  <2> QED
    BY <1>1, <1>5, <2>1, <2>2 DEF ReqInv, Registering, Claimed, Unseen
<1> QED
  BY <1>7, <1>9, <1>10, <1>11, <1>12, FrameStep

LEMMA PruneUploadStep ==
  ASSUME IInv, NEW p \in Pruner, PruneUpload(p)
  PROVE  IInv'
<1> USE Names
<1>1. TypeOK /\ ProcInv(p) /\ p \in Proc /\ p \notin Req
  BY Parts
<1>2. PICK u \in todo[p] : private' = private \ {u} /\ about' = [about EXCEPT ![p] = u]
  BY DEF PruneUpload
<1>3. u \in Upload
  BY <1>1, <1>2 DEF PruneUpload, TypeOK
<1>4. /\ pc'[p] = "upload" /\ about'[p] \in Upload
      /\ UNCHANGED <<rows, public, in, lock, seen, todo, condemned>>
      /\ \A q \in Proc \ {p} : pc'[q] = pc[q] /\ about'[q] = about[q]
  BY <1>1, <1>2, <1>3 DEF PruneUpload, Goto, TypeOK
<1>5. TypeOK'
  BY <1>1, <1>2, <1>3 DEF PruneUpload, Goto, TypeOK, Label, rows
<1>6. ProcInv(p)'
  BY <1>1, <1>4 DEF ProcInv, Roles, Subject, Held, Emptied, Changing, rows
<1> QED
  BY <1>1, <1>4, <1>5, <1>6, QuietStep DEF rows

LEMMA DeleteUploadStep ==
  ASSUME IInv, NEW p \in Pruner, DeleteUpload(p)
  PROVE  IInv'
<1> USE Names
<1> DEFINE u == about[p]
<1>1. CASE upload[u] = "gone"
  BY <1>1, RefuseStep DEF DeleteUpload, Answer
<1>2. CASE upload[u] # "gone"
  <2>1. TypeOK /\ Safe /\ ProcInv(p) /\ p \in Proc /\ p \notin Req /\ u \in Upload
    BY Parts DEF DeleteUpload, ProcInv, Subject
  <2>2. /\ upload' = [upload EXCEPT ![u] = "gone"]
        /\ pc'[p] = "next" /\ todo'[p] \subseteq todo[p]
        /\ UNCHANGED <<image, thumbnail, aged, crop, buckets, in, lock, about, seen, condemned>>
        /\ \A q \in Proc \ {p} : pc'[q] = pc[q] /\ todo'[q] = todo[q]
    BY <1>2, <2>1 DEF DeleteUpload, Goto, TypeOK
  <2>3. TypeOK'
    BY <1>2, <2>1 DEF DeleteUpload, Goto, TypeOK, Label, buckets
  <2>4. Safe'
    BY <2>1, <2>2, SafeKept DEF buckets
  <2>5. Frame(p)
    BY <2>1, <2>2 DEF Frame, Exists, TypeOK, buckets
  <2>6. ProcInv(p)'
    BY <2>1, <2>2 DEF ProcInv, Roles, Subject, Held, Emptied, Changing
  <2> QED
    BY <2>1, <2>3, <2>4, <2>5, <2>6, FrameStep
<1> QED
  BY <1>1, <1>2

LEMMA BrokenStep ==
  ASSUME IInv, NEW p \in Proc, Broken(p), faults' \in 0..MaxFaults
  PROVE  IInv'
<1>1. CASE p \in Req /\ pc[p] \in {"lock", "consume", "old", "commit"}
  BY <1>1, GiveUpStep DEF Broken, Answer
<1>2. CASE ~(p \in Req /\ pc[p] \in {"lock", "consume", "old", "commit"})
  BY <1>2, EndStep DEF Broken, Answer
<1> QED
  BY <1>1, <1>2

-----------------------------------------------------------------------------
(* The client, the clock and crashes *)

LEMMA CreateTargetStep ==
  ASSUME IInv, NEW u \in Upload, CreateTarget(u)
  PROVE  IInv'
<1>1. TypeOK /\ Safe /\ upload[u] = "none" /\ upload' = [upload EXCEPT ![u] = "pending"]
  BY Parts DEF CreateTarget
<1>2. TypeOK'
  BY <1>1 DEF CreateTarget, TypeOK, buckets
<1>3. Safe'
  BY <1>1, SafeKept DEF CreateTarget, buckets
<1>4. Frame(None)
  BY <1>1, Names DEF CreateTarget, Frame, Exists, TypeOK, buckets
<1> QED
  BY <1>2, <1>3, <1>4, Names, FrameStep

LEMMA StutterStep ==
  ASSUME IInv, UNCHANGED vars
  PROVE  IInv'
<1>1. TypeOK'
  BY DEF IInv, TypeOK, vars, rows, buckets
<1> QED
  BY <1>1, Names, QuietStep DEF vars, rows, buckets

LEMMA CrashStep ==
  ASSUME IInv, Crash
  PROVE  IInv'
<1>1. TypeOK /\ Safe
  BY Parts
<1>2. /\ UNCHANGED <<rows, buckets, expired, in, about, seen, reply, condemned>>
      /\ \A p \in Proc : todo'[p] = {}
      /\ \A p \in Pruner : pc'[p] = "sleep"
      /\ \A r \in Req : pc'[r] \in {"idle", "done"} /\ (pc'[r] = "idle" => pc[r] = "idle")
  <2>1. \A p \in Proc : pc'[p] = IF p \in Pruner THEN "sleep"
                                 ELSE IF pc[p] = "idle" THEN "idle" ELSE "done"
    BY DEF Crash
  <2> QED
    BY <2>1, Names DEF Crash
<1>3. TypeOK'
  <2>1. pc' \in [Proc -> Label]
    BY DEF Crash, Label
  <2>2. lock' \in [Image \cup {Gallery} -> Proc \cup {None}]
    BY <1>1 DEF Crash, TypeOK
  <2>3. faults' \in 0..MaxFaults
    BY <1>1, FaultsAssumption DEF Crash, TypeOK
  <2> QED
    BY <1>1, <1>2, <2>1, <2>2, <2>3 DEF Crash, TypeOK, rows, buckets
<1>4. Safe'
  BY <1>1, <1>2, SafeKept DEF rows, buckets
<1>5. ASSUME NEW p \in Proc PROVE ProcInv(p)'
  BY <1>2, Names DEF Proc, ProcInv, Roles, Subject, Held, Emptied, Changing
<1>6. ASSUME NEW r \in Req PROVE ReqInv(r)'
  <2>1. ReqInv(r)
    BY Parts
  <2> QED
    BY <1>2, <2>1 DEF ReqInv, Registering, Claimed, Unseen, Creating, rows
<1> QED
  BY <1>3, <1>4, <1>5, <1>6 DEF IInv, Safe, ProcInv, ReqInv

-----------------------------------------------------------------------------
(* The theorems *)

LEMMA InitInv == Init => IInv
<1> SUFFICES ASSUME Init PROVE IInv
  OBVIOUS
<1> USE Names
<1>1. TypeOK
  BY CoverAssumption, FaultsAssumption DEF Init, TypeOK, Label, AssetOf, Image, Proc
<1>2. Safe
  BY NamesAssumption, CoverAssumption
     DEF Init, Safe, UploadUsedOnce, LiveImagesKeepAssets, RemovedImagesLeaveNothing,
         ThumbnailIsLive, Exists, AssetOf, Image
<1>3. ASSUME NEW p \in Proc PROVE ProcInv(p)
  BY DEF Init, Proc, ProcInv, Roles, Subject, Held, Emptied, Changing
<1>4. ASSUME NEW r \in Req PROVE ReqInv(r)
  BY NamesAssumption
     DEF Init, ReqInv, Registering, Claimed, Unseen, Creating, Proc, Image
<1> QED
  BY <1>1, <1>2, <1>3, <1>4 DEF IInv, Safe, ProcInv, ReqInv

LEMMA RequestStep ==
  ASSUME IInv, NEW r \in Req, FindUpload(r) \/ FindImage(r) \/ Work(r) \/ PurgeInvalid(r)
  PROVE  IInv'
<1>1. r \in Proc
  BY Names
<1>2. CASE NothingToPromote(r)
  BY <1>1, <1>2, RefuseStep DEF NothingToPromote, Answer
<1>3. CASE CommitImage(r, FALSE)
  BY <1>3, CommitImageStep
<1> QED
  BY <1>1, <1>2, <1>3, FindUploadStep, FindImageStep, PromoteStep, LockProductStep,
     ConsumeUploadStep, LockOldThumbnailStep, CleanupStep, DiscardStep, ReadThumbnailStep,
     DeleteAssetStep, LockImageStep, CommitChangeStep, PurgeInvalidStep DEF Work

LEMMA PruneStep ==
  ASSUME IInv, NEW p \in Pruner, Prune(p)
  PROVE  IInv'
<1>1. p \in Proc
  BY Names
<1>2. CASE Sleep(p)
  BY <1>1, <1>2, RefuseStep DEF Sleep
<1> QED
  BY <1>1, <1>2, ListStep, PruneImageStep, PruneUploadStep, DeleteUploadStep, DeleteAssetStep,
     LockImageStep, CommitChangeStep DEF Prune

LEMMA NextInv == IInv /\ [Next]_vars => IInv'
<1> SUFFICES ASSUME IInv, [Next]_vars PROVE IInv'
  OBVIOUS
<1>1. ASSUME NEW u \in Upload, CreateTarget(u) \/ Put(u) \/ Expire(u) PROVE IInv'
  <2>1. CASE Put(u) \/ Expire(u)
    <3>1. TypeOK'
      BY <2>1 DEF IInv, Put, Expire, TypeOK, rows, buckets
    <3> QED
      BY <2>1, <3>1, Names, QuietStep DEF Put, Expire, rows, buckets
  <2> QED
    BY <1>1, <2>1, CreateTargetStep
<1>2. ASSUME NEW i \in Image, Age(i) PROVE IInv'
  <2>1. TypeOK'
    BY <1>2 DEF IInv, Age, TypeOK, buckets
  <2> QED
    BY <1>2, <2>1, Names, QuietStep DEF Age, buckets
<1>3. ASSUME NEW r \in Req, faults < MaxFaults, CommitImage(r, TRUE) PROVE IInv'
  BY <1>3, CommitImageStep
<1>4. ASSUME NEW p \in Proc, DeadlockVictim(p) \/ Fail(p) PROVE IInv'
  <2>1. Broken(p) /\ faults' \in 0..MaxFaults
    BY <1>4, FaultsAssumption DEF DeadlockVictim, Fail, IInv, TypeOK
  <2> QED
    BY <2>1, BrokenStep
<1>5. CASE UNCHANGED vars
  BY <1>5, StutterStep
<1> QED
  BY <1>1, <1>2, <1>3, <1>4, <1>5, RequestStep, PruneStep, CrashStep DEF Next

\* IInv holds in every reachable state, whatever the numbers of requests, pruners,
\* images and uploads, the inputs and the number of failures.
THEOREM Invariant == Spec => []IInv
BY InitInv, NextInv, PTL DEF Spec

\* An upload is registered as one image at most, however many requests name it at once.
THEOREM UploadsYieldOneImage == Spec => []UploadUsedOnce
<1>1. IInv => UploadUsedOnce
  BY DEF IInv
<1> QED
  BY <1>1, Invariant, PTL

\* An image on display keeps its object, unless its removal has begun.
THEOREM AssetsKept == Spec => []LiveImagesKeepAssets
<1>1. IInv => LiveImagesKeepAssets
  BY DEF IInv
<1> QED
  BY <1>1, Invariant, PTL

\* A removed image leaves no object behind, wherever a failure cuts the removal.
THEOREM NothingLeftBehind == Spec => []RemovedImagesLeaveNothing
<1>1. IInv => RemovedImagesLeaveNothing
  BY DEF IInv
<1> QED
  BY <1>1, Invariant, PTL

\* The thumbnail of a product is one of its images on display.
THEOREM ThumbnailOnDisplay == Spec => []ThumbnailIsLive
<1>1. IInv => ThumbnailIsLive
  BY DEF IInv
<1> QED
  BY <1>1, Invariant, PTL
================================================================================
