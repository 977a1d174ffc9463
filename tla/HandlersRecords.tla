-------------------------- MODULE HandlersRecords --------------------------
(***************************************************************************)
(* Rows and files of the handlers, for any ids, users, requests and        *)
(* faults, as long as ids of deleted images are not drawn again: a row has *)
(* its files, files are removed after their row, and a deletion is         *)
(* acknowledged once.                                                      *)
(*                                                                         *)
(* An image that had an owner and has no row any more never gets one       *)
(* again. Whoever is about to remove files relies on that, because it      *)
(* looked at the database some steps ago.                                  *)
(***************************************************************************)
EXTENDS HandlersProofs

-----------------------------------------------------------------------------
(* What a step does to the database, as far as others can tell.            *)

(* Images may move between users.                                          *)
Reassigning == Ops \cap {"adminReassignImage", "adminReassignAll"} # {}

(* Nobody can do harm to i by removing its files.                          *)
Gone(i) == ~DB!Exists(db, i) \/ (Reassigning /\ i \in cut)

Retired(i) == i \in Ids /\ owned[i] # {} /\ Gone(i)

Moved(d, i) == DB!Exists(db, i) /\ DB!Exists(d, i)
               /\ d.images[i].owner # db.images[i].owner

(* Rows do not come back, and rows on a list only move if they are noted.  *)
Steady ==
    /\ cut \subseteq cut'
    /\ Grows
    /\ \A i \in Ids : DB!Exists(db', i) => DB!Exists(db, i) \/ owned[i] = {}
    /\ \A i \in Ids : Moved(db', i) /\ (\E q \in Requests : i \in req[q].todo)
                      => Reassigning /\ i \in cut'

LEMMA EffectRows ==
    ASSUME IInv, NEW p \in Requests
    PROVE  /\ \A i \in Ids : DB!Exists(Effect(p), i) => DB!Exists(db, i)
           /\ \A i \in Ids : Moved(Effect(p), i) => req[p].at = "reassign"
<1>. DEFINE r == req[p]
<1>. RequestSound(r) /\ r \in Request /\ db \in DB!Databases
  BY DEF IInv, RequestsInv, DatabaseInv, Sound
<1>. USE DEF DB!Databases, DB!Exists, DB!OwnedBy, DB!SetRow, Moved
<1>1. CASE r.at = "upsert"
  BY <1>1 DEF Effect, DB!UpsertUser
<1>2. CASE r.at = "undo"
  BY <1>2 DEF Effect, RequestSound, DB!DeleteImage
<1>3. CASE r.at = "delete"
  BY <1>3 DEF Effect, RequestSound, DB!DeleteImage, DB!AdminDeleteImage
<1>4. CASE r.at = "update"
  <2>1. r.id \in Ids /\ Effect(p) = DB!UpdateImage(db, r.id, r.user, r.to)
    BY <1>4 DEF Effect, RequestSound
  <2>2. ASSUME NEW i \in Ids, DB!Exists(Effect(p), i)
        PROVE  DB!Exists(db, i) /\ Effect(p).images[i].owner = db.images[i].owner
    BY <2>1, <2>2 DEF DB!UpdateImage
  <2>. QED BY <2>2
<1>5. CASE r.at = "dropuser"
  BY <1>5 DEF Effect, DB!DeleteUser
<1>6. CASE r.at = "reassign"
  <2>1. Effect(p) = IF r.op = "adminReassignImage" THEN DB!ReassignImage(db, r.id, r.to)
                    ELSE DB!ReassignAllImages(db, r.user, r.to)
    BY <1>6 DEF Effect
  <2>2. ASSUME NEW S \in SUBSET Ids, \A i \in S : DB!Exists(db, i), NEW u,
               NEW i \in Ids, DB!Exists(DB!MoveTo(db, S, u), i)
        PROVE  DB!Exists(db, i)
    BY <2>2 DEF DB!MoveTo
  <2>3. CASE r.op = "adminReassignImage"
    <3>1. r.id \in Ids
      BY <2>3 DEF RequestSound
    <3>. QED BY <1>6, <2>1, <2>2, <2>3, <3>1 DEF DB!ReassignImage
  <2>4. CASE r.op # "adminReassignImage"
    <3>1. /\ DB!ListImageIDsByOwner(db, r.user) \in SUBSET Ids
          /\ \A i \in DB!ListImageIDsByOwner(db, r.user) : DB!Exists(db, i)
      BY DEF DB!ListImageIDsByOwner
    <3>. QED BY <1>6, <2>1, <2>2, <2>4, <3>1 DEF DB!ReassignAllImages
  <2>. QED BY <2>3, <2>4
<1>7. CASE r.at \notin {"upsert", "undo", "delete", "update", "dropuser", "reassign"}
  BY <1>7 DEF Effect
<1>. QED BY <1>1, <1>2, <1>3, <1>4, <1>5, <1>6, <1>7

LEMMA UnchangedSteady ==
    ASSUME IInv, UNCHANGED <<db, owned>>, cut \subseteq cut'
    PROVE  Steady
BY DEF Steady, Grows, Moved

LEMMA SendSteady ==
    ASSUME IInv, NEW p \in Requests, NEW at, at # "reassign", Send(p, at),
           cut \subseteq cut'
    PROVE  Steady
<1>1. Grows
  BY SendSound DEF IInv
<1>2. db' = Effect(p) /\ req[p].at = at
  BY DEF Send, SetDB
<1>. QED BY <1>1, <1>2, EffectRows DEF Steady

(* Only an id that nobody has owned gets a row.                            *)
LEMMA InsertSteady ==
    ASSUME IInv, ~ReuseIds, NEW i \in Ids, NEW u \in Users, Drawable(i),
           SetDB(DB!InsertImage(db, i, u)), cut \subseteq cut'
    PROVE  /\ Steady
           /\ \A j \in Ids \ {i} : db'.images[j] = db.images[j]
           /\ db' # db => owned[i] = {}
<1>. DEFINE d == DB!InsertImage(db, i, u)
<1>1. db' = d /\ Grows
  BY InsertImageSound, SetDBSound DEF IInv, DatabaseInv, SetDB
<1>2. CASE d = db
  BY <1>1, <1>2 DEF Steady, Moved
<1>3. CASE d # db
  <2>1. ~DB!Exists(db, i) /\ d = DB!SetRow(db, i, [owner |-> u, title |-> None])
    BY <1>3 DEF DB!InsertImage, DB!InsertResult
  <2>2. owned[i] = {}
    BY <2>1 DEF Drawable
  <2>3. \A j \in Ids \ {i} : d.images[j] = db.images[j]
    BY <2>1 DEF DB!SetRow, IInv, DatabaseInv, Sound, DB!Databases
  <2>. QED BY <1>1, <2>1, <2>2, <2>3 DEF Steady, Moved, DB!Exists
<1>. QED BY <1>2, <1>3

LEMMA StepSteady ==
    ASSUME IInv, ~ReuseIds, [Next]_vars
    PROVE  Steady
<1>1. CASE UNCHANGED vars
  BY <1>1, UnchangedSteady DEF vars, history
<1>2. ASSUME NEW p \in Requests, Arrive(p) PROVE Steady
  <2>1. UNCHANGED <<db, owned, cut>>
    BY <1>2 DEF Arrive, ArriveUser, ArriveImage, ArriveAdminImage, ArriveAdminUser,
                Accept, history
  <2>. QED BY <2>1, UnchangedSteady
<1>3. ASSUME NEW p \in Requests, Serve(p) PROVE Steady
  <2>. RequestSound(req[p]) /\ req[p] \in Request /\ cut \in SUBSET Ids
    BY DEF IInv, RequestsInv, HistoryInv
  <2>1. CASE Upsert(p) \/ AnnotateGet(p) \/ DeleteGet(p) \/ DeleteRow(p) \/ Update(p)
             \/ ListImages(p) \/ DropUser(p) \/ GetTarget(p)
    BY <2>1, SendSteady DEF Upsert, AnnotateGet, DeleteGet, DeleteRow, Update,
            ListImages, DropUser, GetTarget
  <2>2. CASE UploadSaved(p) \/ AnnotateSaved(p) \/ Deleted(p) \/ Removed(p)
             \/ UserDeleted(p) \/ Store(p) \/ \E i \in Ids : RemoveNext(p, i)
    BY <2>2, UnchangedSteady DEF UploadSaved, AnnotateSaved, Deleted, Removed,
            UserDeleted, RemoveNext, Store, history
  <2>3. CASE Undo(p)
    <3>1. cut \subseteq cut'
      BY <2>3 DEF Undo
    <3>. QED BY <2>3, <3>1, SendSteady DEF Undo
  <2>4. ASSUME NEW i \in Ids, Inserted(p, i) \/ Collided(p, i) \/ InsertRefused(p, i)
        PROVE  Steady
    <3>1. CASE Inserted(p, i)
      <4>1. req[p].user \in Users
        BY <3>1 DEF Inserted, RequestSound
      <4>. QED BY <3>1, <4>1, InsertSteady DEF Inserted
    <3>2. CASE Collided(p, i) \/ InsertRefused(p, i)
      BY <3>2, UnchangedSteady DEF Collided, InsertRefused, history
    <3>. QED BY <2>4, <3>1, <3>2
  <2>5. CASE Reassign(p)
    <3>1. db' = Effect(p) /\ cut' = cut \cup Overtaken(db')
      BY <2>5 DEF Reassign, Send, SetDB
    <3>2. Grows
      BY <2>5, SendSound DEF IInv, Reassign
    <3>3. req[p].op \in Ops /\ Reassigning
      BY <2>5 DEF Reassign, Send, Reassigning, RequestSound, Request
    <3>4. ASSUME NEW i \in Ids, Moved(db', i), \E q \in Requests : i \in req[q].todo
          PROVE  i \in cut'
      BY <3>1, <3>4 DEF Overtaken, Moved
    <3>. QED BY <3>1, <3>2, <3>3, <3>4, EffectRows DEF Steady
  <2>. QED BY <1>3, <2>1, <2>2, <2>3, <2>4, <2>5 DEF Serve
<1>4. ASSUME NEW p \in Requests, Fault(p) PROVE Steady
  <2>. RequestSound(req[p]) /\ req[p] \in Request
    BY DEF IInv, RequestsInv
  <2>1. CASE DiskError(p)
    BY <2>1, UnchangedSteady DEF DiskError, history
  <2>2. CASE DBError(p)
    <3>1. PICK d \in {db, Effect(p)} : SetDB(d) /\ cut \cup Overtaken(d) \subseteq cut'
      BY <2>2 DEF DBError
    <3>2. db' = d /\ Grows
      BY <3>1, EffectSound, SetDBSound DEF IInv, DatabaseInv, SetDB
    <3>3. CASE d = db
      BY <3>1, <3>2, <3>3 DEF Steady, Moved
    <3>4. CASE d = Effect(p)
      <4>1. ASSUME NEW i \in Ids, Moved(d, i), \E q \in Requests : i \in req[q].todo
            PROVE  Reassigning /\ i \in cut'
        <5>1. req[p].at = "reassign"
          BY <3>4, <4>1, EffectRows
        <5>2. Reassigning
          BY <5>1 DEF Reassigning, RequestSound, Request
        <5>. QED BY <3>1, <4>1, <5>2 DEF Overtaken, Moved
      <4>. QED BY <3>1, <3>2, <3>4, <4>1, EffectRows DEF Steady
    <3>. QED BY <3>3, <3>4
  <2>3. ASSUME NEW i \in Ids, InsertLost(p, i) PROVE Steady
    <3>1. PICK d \in {db, DB!InsertImage(db, i, req[p].user)} : SetDB(d)
      BY <2>3 DEF InsertLost
    <3>2. cut \subseteq cut' /\ req[p].user \in Users /\ Drawable(i)
      BY <2>3 DEF InsertLost, RequestSound
    <3>3. CASE d = db
      <4>1. db' = db /\ Grows
        BY <3>1, <3>3, SetDBSound DEF IInv, DatabaseInv, SetDB
      <4>. QED BY <3>2, <4>1 DEF Steady, Moved
    <3>4. CASE d = DB!InsertImage(db, i, req[p].user)
      BY <3>1, <3>2, <3>4, InsertSteady
    <3>. QED BY <3>3, <3>4
  <2>. QED BY <1>4, <2>1, <2>2, <2>3 DEF Fault
<1>5. CASE Crash \/ Restart
  BY <1>5, UnchangedSteady DEF Crash, Restart, history
<1>. QED BY <1>1, <1>2, <1>3, <1>4, <1>5 DEF Next
-----------------------------------------------------------------------------
(* The goroutines that remove and write files.                             *)

(* What p removes, and what it has listed for removal, has no row; a list  *)
(* is made before the rows go, and is right but for rows that have moved.  *)
Removes(p) ==
    /\ call[p].at \in Files!Deleting => Retired(call[p].id)
    /\ req[p].at = "files" => \A i \in req[p].todo : Retired(i)
    /\ req[p].at = "dropuser" => \A i \in req[p].todo :
          owned[i] # {} /\ (DB!OwnedBy(db, i, req[p].user) \/ Gone(i))

(* An upload in the store has installed what it is past of.                *)
Uploads(p) ==
    req[p].op = "upload" /\ req[p].at = "file" =>
        /\ call[p].id = req[p].id
        /\ owned[req[p].id] # {}
        /\ call[p].at \in {"thumb", "ok"} => Gone(req[p].id) \/ img[req[p].id] # None
        /\ call[p].at = "ok" => Gone(req[p].id) \/ thumb[req[p].id] # None

RecordsInv ==
    /\ \A p \in Requests : Removes(p) /\ Uploads(p)
    /\ RowHasFiles

(* A step removes no file of an image that is not retired.                 *)
Careful ==
    \A i \in Ids :
        \/ img[i] # None /\ img'[i] = None
        \/ thumb[i] # None /\ thumb'[i] = None
        => Retired(i)

LEMMA RetiredStays ==
    ASSUME Steady, NEW i \in Ids, owned[i] # {}, Gone(i)
    PROVE  Retired(i)'
BY DEF Steady, Grows, Retired, Gone

(* None is not what a file holds.                                          *)
LEMMA WrittenIsSome ==
    ASSUME IInv, NEW p \in Requests, call[p].at \in Files!Saving
    PROVE  call[p].id \in Ids /\ call[p].body # None
BY NoneAssumption DEF IInv, FilesInv, WritersOwned, DatabaseInv

LEMMA StoreSteps ==
    ASSUME IInv, NEW p \in Requests, Removes(p), Files!Step(p)
    PROVE  /\ Careful
           /\ \A q \in Requests \ {p} : call'[q] = call[q]
           /\ call'[p].id = call[p].id
           /\ call'[p].at \in Files!Deleting => call[p].at \in Files!Deleting
           /\ call'[p].at = "thumb" => img'[call[p].id] # None
           /\ call'[p].at = "ok" =>
                 \/ Retired(call[p].id)
                 \/ /\ call[p].at = "thumb" /\ UNCHANGED img
                    /\ thumb'[call[p].id] # None
<1>. USE DEF Files!CallState, Files!Saving, Files!Deleting, Files!Returned
<1>. Files!TypeOK /\ call[p] \in Files!CallState
  BY DEF IInv, FilesInv, Files!TypeOK
<1>1. CASE Files!Check(p) \/ Files!Miss(p)
  BY <1>1 DEF Files!Check, Files!Miss, Files!Goto, Careful, Files!TypeOK
<1>2. CASE Files!InstallImage(p)
  <2>1. call[p].id \in Ids /\ call[p].body # None
    BY <1>2, WrittenIsSome DEF Files!InstallImage
  <2>. QED BY <1>2, <2>1 DEF Files!InstallImage, Files!Goto, Careful, Files!TypeOK
<1>3. CASE Files!InstallThumb(p)
  <2>1. call[p].id \in Ids /\ call[p].body # None
    BY <1>3, WrittenIsSome DEF Files!InstallThumb
  <2>. QED BY <1>3, <2>1 DEF Files!InstallThumb, Files!Goto, Careful, Files!TypeOK
<1>4. CASE Files!RemoveImage(p)
  <2>1. Retired(call[p].id) /\ call[p].id \in Ids
    BY <1>4 DEF Files!RemoveImage, Removes, Retired
  <2>. QED BY <1>4, <2>1 DEF Files!RemoveImage, Files!Goto, Careful, Files!TypeOK
<1>5. CASE Files!RemoveThumb(p)
  <2>1. Retired(call[p].id) /\ call[p].id \in Ids
    BY <1>5 DEF Files!RemoveThumb, Removes, Retired
  <2>. QED BY <1>5, <2>1 DEF Files!RemoveThumb, Files!Goto, Careful, Files!TypeOK
<1>6. CASE Files!Fail(p)
  BY <1>6 DEF Files!Fail, Files!Goto, Careful, Files!TypeOK
<1>. QED BY <1>1, <1>2, <1>3, <1>4, <1>5, <1>6 DEF Files!Step, Files!Work

(* The steps in which the store works, and all others.                     *)
Storing(p) == Store(p) \/ DiskError(p)

LEMMA FilesOfSteps ==
    ASSUME [Next]_vars
    PROVE  UNCHANGED <<img, thumb>> \/ \E p \in Requests : Storing(p)
<1>1. CASE UNCHANGED vars
  BY <1>1 DEF vars, files
<1>2. ASSUME NEW p \in Requests, Arrive(p)
      PROVE  UNCHANGED <<img, thumb>>
  BY <1>2 DEF Arrive, ArriveUser, ArriveImage, ArriveAdminImage, ArriveAdminUser,
              Accept, files
<1>3. ASSUME NEW p \in Requests, Serve(p), ~Store(p)
      PROVE  UNCHANGED <<img, thumb>>
  <2>. USE DEF files, Files!SaveNew, Files!Save, Files!Delete, Files!Begin, Files!Return
  <2>1. CASE Upsert(p) \/ UploadSaved(p) \/ Undo(p)
    BY <2>1 DEF Upsert, UploadSaved, Undo
  <2>2. CASE \E i \in Ids : Inserted(p, i) \/ Collided(p, i) \/ InsertRefused(p, i)
    BY <2>2 DEF Inserted, Collided, InsertRefused
  <2>3. CASE AnnotateGet(p) \/ AnnotateSaved(p) \/ DeleteGet(p) \/ DeleteRow(p)
             \/ Deleted(p) \/ Update(p)
    BY <2>3 DEF AnnotateGet, AnnotateSaved, DeleteGet, DeleteRow, Deleted, Update
  <2>4. CASE ListImages(p) \/ DropUser(p) \/ Removed(p) \/ UserDeleted(p)
             \/ (\E i \in Ids : RemoveNext(p, i)) \/ GetTarget(p) \/ Reassign(p)
    BY <2>4 DEF ListImages, DropUser, Removed, UserDeleted, RemoveNext, GetTarget, Reassign
  <2>. QED BY <1>3, <2>1, <2>2, <2>3, <2>4 DEF Serve
<1>4. ASSUME NEW p \in Requests, Fault(p), ~DiskError(p)
      PROVE  UNCHANGED <<img, thumb>>
  BY <1>4 DEF Fault, DBError, InsertLost, files
<1>5. CASE Crash \/ Restart
  BY <1>5 DEF Crash, Restart, Files!Crash, Files!Restart
<1>. QED BY <1>1, <1>2, <1>3, <1>4, <1>5 DEF Next, Storing

LEMMA StepCareful ==
    ASSUME IInv, RecordsInv, [Next]_vars
    PROVE  Careful
<1>1. CASE UNCHANGED <<img, thumb>>
  BY <1>1 DEF Careful
<1>2. ASSUME NEW p \in Requests, Storing(p) PROVE Careful
  BY <1>2, StoreSteps DEF Storing, Store, DiskError, Files!Step, RecordsInv
<1>. QED BY <1>1, <1>2, FilesOfSteps

(* Goroutines that do nothing in a step.                                   *)
LEMMA OthersKeep ==
    ASSUME IInv, Steady, Careful, NEW q \in Requests, Removes(q), Uploads(q),
           req'[q] = req[q], call'[q] = call[q]
    PROVE  Removes(q)' /\ Uploads(q)'
<1>. req[q] \in Request /\ RequestSound(req[q])
  BY DEF IInv, RequestsInv
<1>1. call[q].at \in Files!Deleting => Retired(call[q].id)'
  BY RetiredStays DEF Removes, Retired
<1>2. req[q].at = "files" => \A i \in req[q].todo : Retired(i)'
  BY RetiredStays DEF Removes, Retired
<1>3. ASSUME req[q].at = "dropuser", NEW i \in req[q].todo
      PROVE  owned'[i] # {} /\ (DB!OwnedBy(db', i, req[q].user) \/ Gone(i)')
  <2>1. i \in Ids /\ owned[i] # {} /\ owned'[i] # {}
    BY <1>3 DEF Request, Removes, Steady, Grows
  <2>2. CASE Gone(i)
    BY <2>1, <2>2, RetiredStays DEF Retired
  <2>3. CASE DB!OwnedBy(db, i, req[q].user) /\ ~Gone(i)'
    <3>1. DB!Exists(db', i) /\ ~(Reassigning /\ i \in cut')
      BY <2>3 DEF Gone
    <3>2. ~Moved(db', i)
      BY <2>1, <3>1 DEF Steady
    <3>. QED BY <2>1, <2>3, <3>1, <3>2 DEF Moved, DB!OwnedBy
  <2>. QED BY <1>3, <2>1, <2>2, <2>3 DEF Removes
<1>4. Removes(q)'
  BY <1>1, <1>2, <1>3 DEF Removes
<1>5. ASSUME req[q].op = "upload", req[q].at = "file"
      PROVE  Uploads(q)'
  <2>. DEFINE i == req[q].id
  <2>1. i \in Ids /\ owned[i] # {}
    BY <1>5 DEF RequestSound, Uploads
  <2>2. Gone(i) => Gone(i)' /\ owned'[i] # {}
    BY <2>1, RetiredStays DEF Retired
  <2>3. owned'[i] # {}
    BY <2>1 DEF Steady, Grows
  <2>4. img[i] # None => img'[i] # None \/ Gone(i)
    BY <2>1 DEF Careful, Retired
  <2>5. thumb[i] # None => thumb'[i] # None \/ Gone(i)
    BY <2>1 DEF Careful, Retired
  <2>. QED BY <1>5, <2>2, <2>3, <2>4, <2>5 DEF Uploads
<1>. QED BY <1>4, <1>5 DEF Uploads

(* A goroutine that neither begins to remove files nor is in the store to  *)
(* upload.                                                                 *)
LEMMA BystanderKeeps ==
    ASSUME IInv, Steady, NEW p \in Requests, Removes(p),
           req'[p].at \notin {"files", "dropuser"},
           req'[p].op = "upload" => req'[p].at # "file",
           call'[p].at \in Files!Deleting => call'[p] = call[p]
    PROVE  Removes(p)' /\ Uploads(p)'
<1>1. call'[p].at \in Files!Deleting => Retired(call[p].id)'
  BY RetiredStays DEF Removes, Retired
<1>. QED BY <1>1 DEF Removes, Uploads

(* What Reply, Goto and the calls leave alone and what they set.           *)
LEMMA Shapes ==
    ASSUME IInv, NEW p \in Requests
    PROVE  /\ Reply(p) => /\ req'[p] = IdleReq
                          /\ \A q \in Requests \ {p} : req'[q] = req[q]
           /\ \A at : Goto(p, at) => /\ req'[p] = [req[p] EXCEPT !.at = at]
                                     /\ req'[p].at = at /\ req'[p].op = req[p].op
                                     /\ req'[p].id = req[p].id /\ req'[p].todo = req[p].todo
                                     /\ \A q \in Requests \ {p} : req'[q] = req[q]
           /\ \A at, i, b : Files!Begin(p, at, i, b) =>
                 /\ call'[p].at = at /\ call'[p].id = i
                 /\ \A q \in Requests \ {p} : call'[q] = call[q]
           /\ Files!Return(p) => /\ call'[p] = Files!Idle
                                 /\ \A q \in Requests \ {p} : call'[q] = call[q]
           /\ UNCHANGED files => call' = call
<1>. req \in [Requests -> Request] /\ call \in [Requests -> Files!CallState]
  BY DEF IInv, RequestsInv, FilesInv, Files!TypeOK
<1>1. Reply(p) => req'[p] = IdleReq /\ \A q \in Requests \ {p} : req'[q] = req[q]
  BY DEF Reply
<1>2. ASSUME NEW at, Goto(p, at)
      PROVE  /\ req'[p] = [req[p] EXCEPT !.at = at]
             /\ req'[p].at = at /\ req'[p].op = req[p].op
             /\ req'[p].id = req[p].id /\ req'[p].todo = req[p].todo
             /\ \A q \in Requests \ {p} : req'[q] = req[q]
  <2>1. req' = [req EXCEPT ![p] = [req[p] EXCEPT !.at = at]]
    BY <1>2 DEF Goto
  <2>2. req'[p] = [req[p] EXCEPT !.at = at] /\ \A q \in Requests \ {p} : req'[q] = req[q]
    BY <2>1
  <2>. QED BY <2>2 DEF Request
<1>3. ASSUME NEW at, NEW i, NEW b, Files!Begin(p, at, i, b)
      PROVE  /\ call'[p].at = at /\ call'[p].id = i
             /\ \A q \in Requests \ {p} : call'[q] = call[q]
  BY <1>3 DEF Files!Begin
<1>4. Files!Return(p) => call'[p] = Files!Idle /\ \A q \in Requests \ {p} : call'[q] = call[q]
  BY DEF Files!Return
<1>. QED BY <1>1, <1>2, <1>3, <1>4 DEF files

LEMMA IdleShape ==
    /\ IdleReq.at = "idle" /\ IdleReq.op = "none"
    /\ Files!Idle.at = "idle"
BY DEF IdleReq, NewReq, Files!Idle

(* All but p stand still.                                                  *)
Alone(p) == \A q \in Requests \ {p} : req'[q] = req[q] /\ call'[q] = call[q]

LEMMA ArriveKeeps ==
    ASSUME IInv, RecordsInv, Steady, NEW p \in Requests, Arrive(p)
    PROVE  Removes(p)' /\ Uploads(p)' /\ Alone(p)
<1>1. ASSUME NEW op, NEW at, NEW u, NEW i, NEW v, Accept(p, NewReq(op, at, u, i, v)),
             at \notin {"files", "dropuser", "file"}
      PROVE  Removes(p)' /\ Uploads(p)' /\ Alone(p)
  <2>1. /\ req'[p].at = at /\ UNCHANGED call
        /\ \A q \in Requests \ {p} : req'[q] = req[q]
    BY <1>1 DEF Accept, NewReq, IInv, RequestsInv, files
  <2>. QED BY <1>1, <2>1, BystanderKeeps DEF Alone, RecordsInv
<1>2. ASSUME NEW u \in Users, ArriveUser(p, u) \/ ArriveAdminUser(p, u)
      PROVE  Removes(p)' /\ Uploads(p)' /\ Alone(p)
  BY <1>1, <1>2 DEF ArriveUser, ArriveAdminUser
<1>3. ASSUME NEW i \in Ids, ArriveAdminImage(p, i)
      PROVE  Removes(p)' /\ Uploads(p)' /\ Alone(p)
  BY <1>1, <1>3 DEF ArriveAdminImage
<1>4. ASSUME NEW i \in Ids, NEW u \in Users, ArriveImage(p, u, i)
      PROVE  Removes(p)' /\ Uploads(p)' /\ Alone(p)
  BY <1>1, <1>4 DEF ArriveImage
<1>. QED BY <1>2, <1>3, <1>4 DEF Arrive

LEMMA UploadKeeps ==
    ASSUME IInv, IInv', RecordsInv, Steady, NEW p \in Requests,
           \/ Upsert(p) \/ UploadSaved(p) \/ Undo(p)
           \/ \E i \in Ids : Inserted(p, i) \/ Collided(p, i) \/ InsertRefused(p, i)
    PROVE  Removes(p)' /\ Uploads(p)' /\ Alone(p)
<1>. Removes(p) /\ req[p] \in Request /\ req \in [Requests -> Request] /\ RequestSound(req[p])
  BY DEF RecordsInv, IInv, RequestsInv
<1>. USE Shapes, IdleShape DEF Alone, Files!Deleting
<1>1. CASE Upsert(p)
  <2>1. req'[p].at \in {"idle", "insert"} /\ Alone(p) /\ call' = call
    BY <1>1 DEF Upsert
  <2>. QED BY <2>1, BystanderKeeps
<1>2. CASE UploadSaved(p)
  <2>1. req'[p].at \in {"idle", "undo"} /\ Alone(p) /\ call'[p].at = "idle"
    BY <1>2 DEF UploadSaved
  <2>. QED BY <2>1, BystanderKeeps
<1>3. CASE Undo(p)
  BY <1>3, BystanderKeeps DEF Undo
<1>4. ASSUME NEW i \in Ids, Collided(p, i) \/ InsertRefused(p, i)
      PROVE  Removes(p)' /\ Uploads(p)' /\ Alone(p)
  <2>1. /\ req'[p] = IdleReq \/ req'[p].at = "insert"
        /\ \A q \in Requests \ {p} : req'[q] = req[q]
    BY <1>4 DEF Collided, InsertRefused, Reply, Request
  <2>2. UNCHANGED call
    BY <1>4 DEF Collided, InsertRefused, files
  <2>. QED BY <2>1, <2>2, BystanderKeeps
<1>5. ASSUME NEW i \in Ids, Inserted(p, i)
      PROVE  Removes(p)' /\ Uploads(p)' /\ Alone(p)
  <2>1. /\ req'[p].at = "file" /\ req'[p].id = i
        /\ \A q \in Requests \ {p} : req'[q] = req[q]
    BY <1>5 DEF Inserted, Request
  <2>2. /\ call'[p].at = "check" /\ call'[p].id = i
        /\ \A q \in Requests \ {p} : call'[q] = call[q]
    BY <1>5 DEF Inserted, Files!SaveNew
  <2>3. owned'[i] # {}
    <3>1. DB!Exists(db', i)
      <4>1. req[p].user \in Users
        BY <1>5 DEF Inserted, RequestSound
      <4>2. [owner |-> req[p].user, title |-> None] # None
        BY <4>1, NoneAssumption DEF DB!Row
      <4>3. db' = DB!SetRow(db, i, [owner |-> req[p].user, title |-> None])
        BY <1>5 DEF Inserted, SetDB, DB!InsertImage
      <4>. QED BY <4>2, <4>3 DEF DB!SetRow, DB!Exists, IInv, DatabaseInv, Sound, DB!Databases
    <3>. QED BY <3>1 DEF IInv, DatabaseInv
  <2>. QED BY <2>1, <2>2, <2>3 DEF Removes, Uploads
<1>. QED BY <1>1, <1>2, <1>3, <1>4, <1>5

(* The image whose row a deletion found.                                   *)
LEMMA DeletedRow ==
    ASSUME IInv, IInv', NEW p \in Requests, Send(p, "delete"), db' # db
    PROVE  /\ req[p].id \in Ids /\ owned[req[p].id] # {} /\ owned'[req[p].id] # {}
           /\ DB!Exists(db, req[p].id) /\ ~DB!Exists(db', req[p].id)
<1>. DEFINE i == req[p].id
<1>. db \in DB!Databases /\ RequestSound(req[p]) /\ req[p].at = "delete" /\ db' = Effect(p)
  BY DEF IInv, DatabaseInv, Sound, RequestsInv, Send, SetDB
<1>1. i \in Ids
  BY DEF RequestSound
<1>2. db' = DB!DeleteImage(db, i, req[p].user) \/ db' = DB!AdminDeleteImage(db, i)
  BY DEF Effect
<1>3. DB!Exists(db, i)
  <2>. SUFFICES ASSUME db.images[i] = None PROVE db' = db
    BY DEF DB!Exists
  <2>1. [db.images EXCEPT ![i] = None] = db.images
    BY <1>1 DEF DB!Databases
  <2>2. [db EXCEPT !.images = db.images] = db
    BY DEF DB!Databases
  <2>3. DB!SetRow(db, i, None) = db
    BY <2>1, <2>2 DEF DB!SetRow
  <2>. QED BY <1>2, <2>3 DEF DB!DeleteImage, DB!AdminDeleteImage
<1>4. ~DB!Exists(db', i)
  BY <1>1, <1>2 DEF DB!DeleteImage, DB!AdminDeleteImage, DB!SetRow, DB!Exists, DB!Databases
<1>5. owned[i] # {}
  BY <1>1, <1>3 DEF IInv, DatabaseInv
<1>6. owned'[i] # {}
  BY <1>1, <1>5, SendSound DEF IInv, Grows
<1>. QED BY <1>1, <1>3, <1>4, <1>5, <1>6

LEMMA ImageKeeps ==
    ASSUME IInv, IInv', RecordsInv, Steady, NEW p \in Requests,
           \/ AnnotateGet(p) \/ AnnotateSaved(p)
           \/ DeleteGet(p) \/ DeleteRow(p) \/ Deleted(p) \/ Update(p)
    PROVE  Removes(p)' /\ Uploads(p)' /\ Alone(p)
<1>. Removes(p) /\ req[p] \in Request /\ RequestSound(req[p])
  BY DEF RecordsInv, IInv, RequestsInv
<1>. USE Shapes, IdleShape DEF Alone, Files!Deleting
<1>1. CASE AnnotateGet(p)
  <2>1. CASE DB!OwnedBy(db, req[p].id, req[p].user)
    <3>1. /\ req'[p].at = "file" /\ req'[p].op = "annotate"
          /\ \A q \in Requests \ {p} : req'[q] = req[q]
      BY <1>1, <2>1 DEF AnnotateGet
    <3>2. call'[p].at = "prepare" /\ \A q \in Requests \ {p} : call'[q] = call[q]
      BY <1>1, <2>1 DEF AnnotateGet, Files!Save
    <3>. QED BY <3>1, <3>2, BystanderKeeps
  <2>2. CASE ~DB!OwnedBy(db, req[p].id, req[p].user)
    <3>1. req'[p].at = "idle" /\ Alone(p) /\ call' = call
      BY <1>1, <2>2 DEF AnnotateGet
    <3>. QED BY <3>1, BystanderKeeps
  <2>. QED BY <2>1, <2>2
<1>2. CASE AnnotateSaved(p) \/ Deleted(p)
  <2>1. req'[p].at = "idle" /\ Alone(p) /\ call'[p].at = "idle"
    BY <1>2 DEF AnnotateSaved, Deleted
  <2>. QED BY <2>1, BystanderKeeps
<1>3. CASE DeleteGet(p) \/ Update(p)
  <2>1. req'[p].at \in {"idle", "delete"} /\ Alone(p) /\ call' = call
    BY <1>3 DEF DeleteGet, Update
  <2>. QED BY <2>1, BystanderKeeps
<1>4. CASE DeleteRow(p)
  <2>1. CASE db' = db
    <3>1. req'[p].at = "idle" /\ Alone(p) /\ call' = call
      BY <1>4, <2>1 DEF DeleteRow
    <3>. QED BY <3>1, BystanderKeeps
  <2>2. CASE db' # db
    <3>1. /\ req'[p].at = "file" /\ req'[p].op # "upload"
          /\ \A q \in Requests \ {p} : req'[q] = req[q]
      BY <1>4, <2>2 DEF DeleteRow, Send, RequestSound
    <3>2. call'[p].id = req[p].id /\ \A q \in Requests \ {p} : call'[q] = call[q]
      BY <1>4, <2>2 DEF DeleteRow, Files!Delete
    <3>3. Retired(req[p].id)'
      <4>1. /\ req[p].id \in Ids /\ owned'[req[p].id] # {}
            /\ ~DB!Exists(db', req[p].id)
        BY <1>4, <2>2, DeletedRow DEF DeleteRow
      <4>. DEFINE i == req[p].id
      <4>2. req'[p].id = i
        BY <1>4, <2>2 DEF DeleteRow
      <4>. HIDE DEF i
      <4>. QED BY <4>1, <4>2 DEF Retired, Gone, i
    <3>4. req'[p].id = req[p].id
      BY <1>4, <2>2 DEF DeleteRow
    <3>. QED BY <3>1, <3>2, <3>3, <3>4 DEF Removes, Uploads
  <2>. QED BY <2>1, <2>2
<1>. QED BY <1>1, <1>2, <1>3, <1>4

LEMMA AdminKeeps ==
    ASSUME IInv, IInv', RecordsInv, Steady, NEW p \in Requests,
           \/ ListImages(p) \/ DropUser(p) \/ Removed(p) \/ UserDeleted(p)
           \/ \E i \in Ids : RemoveNext(p, i)
           \/ GetTarget(p) \/ Reassign(p)
    PROVE  Removes(p)' /\ Uploads(p)' /\ Alone(p)
<1>. /\ Removes(p) /\ req[p] \in Request /\ RequestSound(req[p])
     /\ req \in [Requests -> Request] /\ db \in DB!Databases
  BY DEF RecordsInv, IInv, RequestsInv, DatabaseInv, Sound
<1>. USE Shapes, IdleShape DEF Alone
<1>0. call[p].at \in Files!Deleting => Retired(call[p].id) /\ (call'[p] = call[p] => Retired(call[p].id)')
  BY RetiredStays DEF Removes, Retired
<1>1. CASE ListImages(p)
  <2>1. /\ req'[p].at = "dropuser" /\ req'[p].user = req[p].user
        /\ req'[p].todo = {i \in Ids : DB!OwnedBy(db, i, req[p].user)}
        /\ Alone(p) /\ call' = call
    BY <1>1 DEF ListImages, DB!ListImageIDsByOwner, Request
  <2>2. db' = db
    BY <1>1 DEF ListImages, Send, SetDB, Effect
  <2>3. \A i \in Ids : DB!OwnedBy(db, i, req[p].user) => owned'[i] # {}
    BY <2>2 DEF DB!OwnedBy, IInv, DatabaseInv
  <2>. QED BY <1>0, <2>1, <2>2, <2>3 DEF Removes, Uploads
<1>2. CASE DropUser(p)
  <2>1. CASE req[p].user \in db.users
    <3>1. req'[p].at = "files" /\ req'[p].todo = req[p].todo /\ Alone(p) /\ call' = call
      BY <1>2, <2>1 DEF DropUser
    <3>2. ASSUME NEW i \in req[p].todo PROVE Retired(i)'
      <4>1. i \in Ids /\ owned[i] # {} /\ (DB!OwnedBy(db, i, req[p].user) \/ Gone(i))
        BY <1>2 DEF DropUser, Send, Removes, Request
      <4>2. CASE DB!OwnedBy(db, i, req[p].user)
        <5>1. ~DB!Exists(db', i)
          BY <1>2, <4>1, <4>2 DEF DropUser, Send, SetDB, Effect, DB!DeleteUser, DB!Exists
        <5>. QED BY <4>1, <5>1 DEF Retired, Gone, Steady, Grows
      <4>. QED BY <4>1, <4>2, RetiredStays
    <3>3. req'[p].op # "upload"
      BY <1>2, <2>1 DEF DropUser, Send, RequestSound
    <3>. QED BY <1>0, <3>1, <3>2, <3>3 DEF Removes, Uploads
  <2>2. CASE req[p].user \notin db.users
    <3>1. req'[p].at = "idle" /\ Alone(p) /\ call' = call
      BY <1>2, <2>2 DEF DropUser
    <3>. QED BY <3>1, BystanderKeeps
  <2>. QED BY <2>1, <2>2
<1>3. ASSUME NEW i \in Ids, RemoveNext(p, i)
      PROVE  Removes(p)' /\ Uploads(p)' /\ Alone(p)
  <2>1. /\ req'[p].at = "files" /\ req'[p].todo \subseteq req[p].todo
        /\ \A q \in Requests \ {p} : req'[q] = req[q]
    BY <1>3 DEF RemoveNext, Request
  <2>2. call'[p].id = i /\ \A q \in Requests \ {p} : call'[q] = call[q]
    BY <1>3 DEF RemoveNext, Files!Delete
  <2>3. ASSUME NEW j \in req[p].todo PROVE Retired(j)'
    BY <1>3, RetiredStays DEF RemoveNext, Removes, Retired
  <2>4. Retired(i)'
    BY <1>3, <2>3 DEF RemoveNext
  <2>. QED BY <2>1, <2>2, <2>3, <2>4 DEF Removes, Uploads
<1>4. CASE Removed(p)
  <2>1. req' = req /\ Alone(p) /\ call'[p].at = "idle" /\ req[p].at = "files"
    BY <1>4 DEF Removed
  <2>2. ASSUME NEW j \in req[p].todo PROVE Retired(j)'
    BY <2>1, RetiredStays DEF Removes, Retired
  <2>. QED BY <2>1, <2>2 DEF Removes, Uploads, Files!Deleting
<1>5. CASE UserDeleted(p) \/ GetTarget(p) \/ Reassign(p)
  <2>1. req'[p].at \in {"idle", "reassign"} /\ Alone(p) /\ call' = call
    BY <1>5 DEF UserDeleted, GetTarget, Reassign
  <2>. QED BY <2>1, BystanderKeeps
<1>. QED BY <1>1, <1>2, <1>3, <1>4, <1>5

LEMMA FaultKeeps ==
    ASSUME IInv, IInv', RecordsInv, Steady, NEW p \in Requests, Store(p) \/ Fault(p)
    PROVE  Removes(p)' /\ Uploads(p)' /\ Alone(p)
<1>. Removes(p) /\ Uploads(p) /\ req[p] \in Request /\ RequestSound(req[p])
  BY DEF RecordsInv, IInv, RequestsInv
<1>1. CASE Storing(p)
  <2>1. Files!Step(p) /\ UNCHANGED <<db, req, owned, acked, cut>>
    BY <1>1 DEF Storing, Store, DiskError, Files!Step, history
  <2>2. Removes(p)'
    <3>1. call'[p].at \in Files!Deleting => Retired(call[p].id)'
      BY <2>1, StoreSteps DEF Removes, Retired, Gone
    <3>. QED BY <2>1, <3>1 DEF Removes, Retired, Gone
  <2>3. ASSUME req[p].op = "upload", req[p].at = "file"
        PROVE  Uploads(p)'
    <3>. DEFINE i == req[p].id
    <3>1. i \in Ids /\ call[p].id = i /\ owned[i] # {}
      BY <2>3 DEF Uploads, RequestSound
    <3>2. call'[p].at = "thumb" => img'[i] # None
      BY <2>1, <3>1, StoreSteps
    <3>3. call'[p].at = "ok" => Gone(i) \/ (img'[i] # None /\ thumb'[i] # None)
      BY <2>1, <2>3, <3>1, StoreSteps DEF Uploads, Retired
    <3>4. Gone(i)' <=> Gone(i)
      BY <2>1 DEF Gone
    <3>5. call'[p].id = i
      BY <2>1, <3>1, StoreSteps
    <3>. QED BY <2>1, <3>1, <3>2, <3>3, <3>4, <3>5 DEF Uploads
  <2>4. Alone(p)
    BY <2>1, StoreSteps DEF Alone
  <2>. QED BY <2>1, <2>2, <2>3, <2>4 DEF Uploads
<1>2. CASE DBError(p) \/ \E i \in Ids : InsertLost(p, i)
  <2>1. req'[p].at = "idle" /\ Alone(p) /\ call' = call
    BY <1>2, Shapes, IdleShape DEF DBError, InsertLost, Alone
  <2>. QED BY <2>1, BystanderKeeps
<1>. QED BY <1>1, <1>2 DEF Fault, Storing

-----------------------------------------------------------------------------
(* Rows without files.                                                     *)

(* The end of an upload: its files are there, or the row is gone or noted. *)
LEMMA UploadEnds ==
    ASSUME IInv, IInv', RecordsInv, Steady, NEW p \in Requests, NEW i \in Ids,
           Uploading(p, i), Arrive(p) \/ Serve(p) \/ Fault(p), DB!Exists(db', i)
    PROVE  \/ Uploading(p, i)' \/ i \in cut'
           \/ img'[i] # None /\ thumb'[i] # None
<1>. /\ req[p] \in Request /\ RequestSound(req[p]) /\ Uploads(p)
     /\ db \in DB!Databases
     /\ req[p].op = "upload" /\ req[p].at \in {"file", "undo"} /\ req[p].id = i
  BY DEF RecordsInv, IInv, RequestsInv, DatabaseInv, Sound, Uploading
<1>1. ~Arrive(p)
  BY IdleShape DEF Arrive, ArriveUser, ArriveImage, ArriveAdminImage, ArriveAdminUser, Accept
<1>2. CASE UploadSaved(p)
  <2>1. CASE call[p].at = "ok"
    <3>1. UNCHANGED <<img, thumb, db, cut>>
      BY <1>2 DEF UploadSaved, Files!Return, history
    <3>2. req[p].at = "file"
      BY <1>2 DEF UploadSaved
    <3>. QED BY <2>1, <3>1, <3>2 DEF Uploads, Gone
  <2>2. CASE call[p].at # "ok"
    BY <1>2, <2>2, Shapes DEF UploadSaved, Uploading
  <2>. QED BY <2>1, <2>2
<1>3. CASE Undo(p)
  <2>1. db' = DB!DeleteImage(db, i, req[p].user)
    BY <1>3 DEF Undo, Send, SetDB, Effect
  <2>2. CASE DB!OwnedBy(db, i, req[p].user)
    BY <2>1, <2>2 DEF DB!DeleteImage, DB!SetRow, DB!Exists, DB!Databases
  <2>3. CASE ~DB!OwnedBy(db, i, req[p].user)
    BY <1>3, <2>1, <2>3 DEF DB!DeleteImage, Undo
  <2>. QED BY <2>2, <2>3
<1>4. CASE Storing(p)
  BY <1>4 DEF Storing, Store, DiskError, Uploading
<1>5. CASE DBError(p)
  <2>1. PICK d \in {db, Effect(p)} :
           /\ SetDB(d)
           /\ cut' = cut \cup Overtaken(d)
                         \cup {j \in Ids : req[p].at = "undo" /\ j = req[p].id /\ DB!Exists(d, j)}
    BY <1>5 DEF DBError
  <2>2. req[p].at = "undo" /\ db' = d
    BY <1>5, <2>1 DEF DBError, SetDB
  <2>. QED BY <2>1, <2>2
<1>6. CASE \/ Upsert(p) \/ \E j \in Ids : \/ Inserted(p, j) \/ Collided(p, j)
                                          \/ InsertRefused(p, j) \/ InsertLost(p, j)
  BY <1>6 DEF Upsert, Send, Inserted, Collided, InsertRefused, InsertLost
<1>7. CASE \/ AnnotateGet(p) \/ AnnotateSaved(p) \/ DeleteGet(p) \/ DeleteRow(p)
           \/ Deleted(p) \/ Update(p)
  BY <1>7 DEF AnnotateGet, AnnotateSaved, DeleteGet, DeleteRow, Deleted, Update, Send
<1>8. CASE \/ ListImages(p) \/ DropUser(p) \/ Removed(p) \/ UserDeleted(p)
           \/ (\E j \in Ids : RemoveNext(p, j)) \/ GetTarget(p) \/ Reassign(p)
  BY <1>8 DEF ListImages, DropUser, Removed, UserDeleted, RemoveNext, GetTarget, Reassign, Send
<1>. QED BY <1>1, <1>2, <1>3, <1>4, <1>5, <1>6, <1>7, <1>8 DEF Serve, Fault, Storing

(* A row appears with its upload, or is noted.                             *)
LEMMA RowAppears ==
    ASSUME IInv, IInv', ~ReuseIds, [Next]_vars, NEW i \in Ids,
           ~DB!Exists(db, i), DB!Exists(db', i)
    PROVE  i \in cut' \/ \E p \in Requests : Uploading(p, i)'
<1>1. ~UNCHANGED vars /\ ~Crash /\ ~Restart /\ db' # db
  BY DEF vars, Crash, Restart
<1>2. ASSUME NEW p \in Requests, Arrive(p) PROVE FALSE
  BY <1>1, <1>2 DEF Arrive, ArriveUser, ArriveImage, ArriveAdminImage, ArriveAdminUser, Accept
<1>3. ASSUME NEW p \in Requests, NEW at, Send(p, at) PROVE FALSE
  BY <1>3, EffectRows DEF Send, SetDB
<1>4. ASSUME NEW p \in Requests, NEW j \in Ids, Inserted(p, j)
      PROVE  Uploading(p, i)'
  <2>. req[p] \in Request /\ RequestSound(req[p]) /\ req \in [Requests -> Request]
    BY DEF IInv, RequestsInv
  <2>1. req[p].op = "upload" /\ req[p].user \in Users
    BY <1>4 DEF Inserted, RequestSound
  <2>2. req'[p].op = "upload" /\ req'[p].at = "file" /\ req'[p].id = j
    BY <1>4, <2>1 DEF Inserted, Request
  <2>3. i = j
    BY <1>4, <2>1, InsertSteady DEF Inserted, DB!Exists
  <2>. QED BY <2>2, <2>3 DEF Uploading
<1>5. ASSUME NEW p \in Requests, NEW j \in Ids, InsertLost(p, j)
      PROVE  i \in cut'
  <2>1. PICK d \in {db, DB!InsertImage(db, j, req[p].user)} :
           SetDB(d) /\ cut' = IF d # db THEN cut \cup {j} ELSE cut
    BY <1>5 DEF InsertLost
  <2>2. d # db /\ d = DB!InsertImage(db, j, req[p].user)
    BY <1>1, <2>1 DEF SetDB
  <2>3. Drawable(j) /\ req[p].user \in Users /\ cut \subseteq cut'
    BY <1>5, <2>1 DEF InsertLost, IInv, RequestsInv, RequestSound
  <2>4. i = j
    BY <2>1, <2>2, <2>3, InsertSteady DEF DB!Exists
  <2>. QED BY <2>1, <2>2, <2>4
<1>6. ASSUME NEW p \in Requests, DBError(p) PROVE FALSE
  BY <1>1, <1>6, EffectRows DEF DBError, SetDB
<1>7. ASSUME NEW p \in Requests, Serve(p), \A j \in Ids : ~Inserted(p, j) PROVE FALSE
  BY <1>1, <1>3, <1>7 DEF Serve, Upsert, UploadSaved, Undo, Collided, InsertRefused, AnnotateGet,
     AnnotateSaved, DeleteGet, DeleteRow, Deleted, Update, ListImages, DropUser, Removed,
     UserDeleted, RemoveNext, GetTarget, Reassign, Store
<1>8. ASSUME NEW p \in Requests, DiskError(p) PROVE FALSE
  BY <1>1, <1>8 DEF DiskError
<1>. QED BY <1>1, <1>2, <1>4, <1>5, <1>6, <1>7, <1>8 DEF Next, Fault

LEMMA RowsKeep ==
    ASSUME IInv, IInv', RecordsInv, ~ReuseIds, Steady, Careful, [Next]_vars,
           \A p \in Requests : Arrive(p) \/ Serve(p) \/ Fault(p) => Alone(p)
    PROVE  RowHasFiles'
<1>. SUFFICES ASSUME NEW i \in Ids, DB!Exists(db', i), img'[i] = None \/ thumb'[i] = None
              PROVE  i \in cut' \/ \E p \in Requests : Uploading(p, i)'
  BY DEF RowHasFiles
<1>1. CASE ~DB!Exists(db, i)
  BY <1>1, RowAppears
<1>2. CASE DB!Exists(db, i) /\ img[i] # None /\ thumb[i] # None
  BY <1>2 DEF Careful, Retired, Gone, Steady
<1>3. CASE i \in cut
  BY <1>3 DEF Steady
<1>4. ASSUME NEW q \in Requests, Uploading(q, i)
      PROVE  i \in cut' \/ \E p \in Requests : Uploading(p, i)'
  <2>1. ASSUME NEW p \in Requests, Arrive(p) \/ Serve(p) \/ Fault(p)
        PROVE  i \in cut' \/ Uploading(q, i)'
    <3>1. CASE p = q
      BY <1>4, <2>1, <3>1, UploadEnds
    <3>2. CASE p # q
      <4>1. req'[q] = req[q]
        BY <2>1, <3>2 DEF Alone
      <4>. QED BY <1>4, <4>1 DEF Uploading
    <3>. QED BY <3>1, <3>2
  <2>2. CASE UNCHANGED vars \/ Restart
    BY <1>4, <2>2 DEF vars, Restart, Uploading
  <2>3. CASE Crash
    BY <1>4, <2>3 DEF Crash
  <2>. QED BY <2>1, <2>2, <2>3 DEF Next
<1>. QED BY <1>1, <1>2, <1>3, <1>4 DEF RecordsInv, RowHasFiles

LEMMA RecordsInitially == Init => RecordsInv
<1>. SUFFICES ASSUME Init PROVE RecordsInv
  OBVIOUS
<1>1. \A i \in Ids : ~DB!Exists(db, i)
  BY DEF Init, DB!EmptyDB, DB!Exists
<1>2. \A p \in Requests : req[p] = IdleReq /\ call[p] = Files!Idle
  BY DEF Init, Files!Init
<1>. QED BY <1>1, <1>2, IdleShape DEF RecordsInv, RowHasFiles, Removes, Uploads, Files!Deleting

LEMMA RecordsKept ==
    ASSUME ~ReuseIds, IInv, IInv', RecordsInv, [Next]_vars
    PROVE  RecordsInv'
<1>1. Steady /\ Careful
  BY StepSteady, StepCareful
<1>2. ASSUME NEW p \in Requests, Arrive(p) \/ Serve(p) \/ Fault(p)
      PROVE  Removes(p)' /\ Uploads(p)' /\ Alone(p)
  BY <1>1, <1>2, ArriveKeeps, UploadKeeps, ImageKeeps, AdminKeeps, FaultKeeps DEF Serve
<1>3. \A q \in Requests : Removes(q)' /\ Uploads(q)'
  <2>. SUFFICES ASSUME NEW q \in Requests PROVE Removes(q)' /\ Uploads(q)'
    OBVIOUS
  <2>. Removes(q) /\ Uploads(q)
    BY DEF RecordsInv
  <2>1. ASSUME NEW p \in Requests, Arrive(p) \/ Serve(p) \/ Fault(p)
        PROVE  Removes(q)' /\ Uploads(q)'
    <3>1. CASE p = q
      BY <1>2, <2>1, <3>1
    <3>2. CASE p # q
      <4>1. req'[q] = req[q] /\ call'[q] = call[q]
        BY <1>2, <2>1, <3>2 DEF Alone
      <4>. QED BY <1>1, <4>1, OthersKeep
    <3>. QED BY <3>1, <3>2
  <2>2. CASE UNCHANGED vars \/ Restart
    BY <1>1, <2>2, OthersKeep DEF vars, files, Restart, Files!Restart
  <2>3. CASE Crash
    <3>1. req'[q] = IdleReq /\ call'[q] = Files!Idle
      BY <2>3 DEF Crash, Files!Crash
    <3>. QED BY <3>1, IdleShape DEF Removes, Uploads, Files!Deleting
  <2>. QED BY <2>1, <2>2, <2>3 DEF Next
<1>4. RowHasFiles'
  BY <1>1, <1>2, RowsKeep
<1>. QED BY <1>3, <1>4 DEF RecordsInv

-----------------------------------------------------------------------------
(* Acknowledged deletions.                                                 *)

(* p will answer that it deleted i.                                        *)
Deleter(p, i) ==
    req[p].op \in {"delete", "adminDeleteImage"} /\ req[p].at = "file" /\ req[p].id = i

(* The row can be found once: whoever finds it is the only one, and the    *)
(* row was there until then.                                               *)
DeletionInv ==
    \A i \in Ids :
        /\ acked[i] <= 1
        /\ DB!Exists(db, i) \/ owned[i] = {} =>
              acked[i] = 0 /\ \A p \in Requests : ~Deleter(p, i)
        /\ \A p \in Requests : Deleter(p, i) => acked[i] = 0
        /\ \A p, q \in Requests : Deleter(p, i) /\ Deleter(q, i) => p = q

LEMMA DeletionInitially == Init => DeletionInv
BY DEF Init, DeletionInv, Deleter, IdleReq, NewReq

(* A step in which nobody finds a row or answers.                          *)
LEMMA NoNewDeleter ==
    ASSUME IInv, Steady, DeletionInv, UNCHANGED acked,
           \A p \in Requests, i \in Ids : Deleter(p, i)' => Deleter(p, i)
    PROVE  DeletionInv'
<1>. SUFFICES ASSUME NEW i \in Ids
              PROVE  /\ acked'[i] <= 1
                     /\ DB!Exists(db', i) \/ owned'[i] = {} =>
                           acked'[i] = 0 /\ \A p \in Requests : ~Deleter(p, i)'
                     /\ \A p \in Requests : Deleter(p, i)' => acked'[i] = 0
                     /\ \A p, q \in Requests : Deleter(p, i)' /\ Deleter(q, i)' => p = q
  BY DEF DeletionInv
<1>1. DB!Exists(db', i) \/ owned'[i] = {} => DB!Exists(db, i) \/ owned[i] = {}
  BY DEF Steady, Grows
<1>. QED BY <1>1 DEF DeletionInv

(* The steps of p that do not make it a deleter.                           *)
LEMMA NotDeleting ==
    ASSUME IInv, IInv', Steady, DeletionInv, UNCHANGED acked, NEW p \in Requests, Alone(p),
           req'[p].at # "file" \/ req'[p].op \in {"upload", "annotate"} \/ req'[p] = req[p]
    PROVE  DeletionInv'
<1>1. \A q \in Requests, i \in Ids : Deleter(q, i)' => Deleter(q, i)
  BY DEF Deleter, Alone
<1>. QED BY <1>1, NoNewDeleter

LEMMA DeletionSteps ==
    ASSUME IInv, IInv', Steady, DeletionInv, NEW p \in Requests, Alone(p),
           Arrive(p) \/ Serve(p) \/ Fault(p)
    PROVE  DeletionInv'
<1>. /\ req[p] \in Request /\ RequestSound(req[p]) /\ req \in [Requests -> Request]
     /\ acked \in [Ids -> Nat]
  BY DEF IInv, RequestsInv, HistoryInv
<1>1. CASE Arrive(p)
  <2>1. UNCHANGED acked /\ req'[p].at # "file"
    BY <1>1 DEF Arrive, ArriveUser, ArriveImage, ArriveAdminImage, ArriveAdminUser, Accept,
                NewReq, history
  <2>. QED BY <2>1, NotDeleting
<1>2. CASE \/ Upsert(p) \/ UploadSaved(p) \/ Undo(p) \/ AnnotateSaved(p) \/ DeleteGet(p)
           \/ Update(p) \/ DropUser(p) \/ UserDeleted(p) \/ GetTarget(p) \/ Reassign(p)
           \/ DBError(p) \/ \E i \in Ids : InsertRefused(p, i) \/ InsertLost(p, i)
  <2>1. UNCHANGED acked
    BY <1>2 DEF Upsert, UploadSaved, Undo, AnnotateSaved, DeleteGet, Update,
       DropUser, UserDeleted, GetTarget, Reassign, DBError, InsertRefused, InsertLost, history
  <2>2. Reply(p) \/ \E at \in {"insert", "undo", "delete", "files", "reassign"} : Goto(p, at)
    BY <1>2 DEF Upsert, UploadSaved, Undo, AnnotateSaved, DeleteGet, Update,
       DropUser, UserDeleted, GetTarget, Reassign, DBError, InsertRefused, InsertLost
  <2>3. req'[p].at # "file"
    BY <2>2, Shapes, IdleShape
  <2>. QED BY <2>1, <2>3, NotDeleting
<1>3. CASE ListImages(p) \/ \E i \in Ids : Collided(p, i) \/ RemoveNext(p, i)
  <2>1. UNCHANGED acked /\ req'[p].at # "file"
    BY <1>3, IdleShape DEF ListImages, Collided, Reply, RemoveNext, Request, history
  <2>. QED BY <2>1, NotDeleting
<1>4. CASE Removed(p) \/ Storing(p)
  BY <1>4, NotDeleting DEF Removed, Storing, Store, DiskError, history
<1>5. CASE AnnotateGet(p) \/ \E i \in Ids : Inserted(p, i)
  <2>1. UNCHANGED acked /\ (req'[p].at = "idle" \/ req'[p].op \in {"upload", "annotate"})
    <3>1. CASE AnnotateGet(p)
      BY <3>1, Shapes, IdleShape DEF AnnotateGet
    <3>2. ASSUME NEW i \in Ids, Inserted(p, i)
          PROVE  UNCHANGED acked /\ req'[p].op = "upload"
      BY <3>2 DEF Inserted, RequestSound, Request
    <3>. QED BY <1>5, <3>1, <3>2
  <2>. QED BY <2>1, NotDeleting
<1>6. CASE DeleteRow(p)
  <2>1. CASE db' = db
    <3>1. UNCHANGED acked /\ req'[p].at = "idle"
      BY <1>6, <2>1, Shapes, IdleShape DEF DeleteRow
    <3>. QED BY <3>1, NotDeleting
  <2>2. CASE db' # db
    <3>. DEFINE k == req[p].id
    <3>1. UNCHANGED acked /\ req'[p].id = k
      BY <1>6, <2>2, Shapes DEF DeleteRow
    <3>2. k \in Ids /\ owned'[k] # {} /\ DB!Exists(db, k) /\ ~DB!Exists(db', k)
      BY <1>6, <2>2, DeletedRow DEF DeleteRow
    <3>3. acked[k] = 0 /\ \A q \in Requests : ~Deleter(q, k)
      BY <3>2 DEF DeletionInv
    <3>. HIDE DEF k
    <3>4. \A q \in Requests, i \in Ids : Deleter(q, i)' => Deleter(q, i) \/ (q = p /\ i = k)
      BY <3>1 DEF Deleter, Alone
    <3>5. ASSUME NEW i \in Ids
          PROVE  /\ acked'[i] <= 1
                 /\ DB!Exists(db', i) \/ owned'[i] = {} =>
                       acked'[i] = 0 /\ \A q \in Requests : ~Deleter(q, i)'
                 /\ \A q \in Requests : Deleter(q, i)' => acked'[i] = 0
                 /\ \A q, r \in Requests : Deleter(q, i)' /\ Deleter(r, i)' => q = r
      <4>1. CASE i = k
        BY <3>1, <3>2, <3>3, <3>4, <4>1
      <4>2. CASE i # k
        <5>1. DB!Exists(db', i) \/ owned'[i] = {} => DB!Exists(db, i) \/ owned[i] = {}
          BY DEF Steady, Grows
        <5>. QED BY <3>1, <3>4, <4>2, <5>1 DEF DeletionInv
      <4>. QED BY <4>1, <4>2
    <3>. QED BY <3>5 DEF DeletionInv
  <2>. QED BY <2>1, <2>2
<1>7. CASE Deleted(p)
  <2>. DEFINE k == req[p].id
  <2>1. k \in Ids /\ Deleter(p, k) /\ acked' = [acked EXCEPT ![k] = @ + 1]
    BY <1>7 DEF Deleted, RequestSound, Deleter
  <2>2. UNCHANGED <<db, owned>> /\ req'[p].at = "idle"
    BY <1>7, Shapes, IdleShape DEF Deleted
  <2>3. acked[k] = 0 /\ DB!Exists(db, k) = FALSE /\ owned[k] # {}
        /\ \A q \in Requests : Deleter(q, k) => q = p
    BY <2>1 DEF DeletionInv
  <2>. HIDE DEF k
  <2>4. \A q \in Requests, i \in Ids : Deleter(q, i)' => Deleter(q, i) /\ q # p
    BY <2>2 DEF Deleter, Alone
  <2>5. ASSUME NEW i \in Ids
        PROVE  /\ acked'[i] <= 1
               /\ DB!Exists(db', i) \/ owned'[i] = {} =>
                     acked'[i] = 0 /\ \A q \in Requests : ~Deleter(q, i)'
               /\ \A q \in Requests : Deleter(q, i)' => acked'[i] = 0
               /\ \A q, r \in Requests : Deleter(q, i)' /\ Deleter(r, i)' => q = r
    <3>1. CASE i = k
      BY <2>1, <2>2, <2>3, <2>4, <3>1
    <3>2. CASE i # k
      BY <2>1, <2>2, <2>4, <3>2 DEF DeletionInv
    <3>. QED BY <3>1, <3>2
  <2>. QED BY <2>5 DEF DeletionInv
<1>. QED BY <1>1, <1>2, <1>3, <1>4, <1>5, <1>6, <1>7 DEF Serve, Fault, Storing

LEMMA DeletionKept ==
    ASSUME ~ReuseIds, IInv, IInv', RecordsInv, DeletionInv, [Next]_vars
    PROVE  DeletionInv'
<1>1. Steady
  BY StepSteady
<1>2. ASSUME NEW p \in Requests, Arrive(p) \/ Serve(p) \/ Fault(p)
      PROVE  DeletionInv'
  <2>1. Alone(p)
    BY <1>1, <1>2, ArriveKeeps, UploadKeeps, ImageKeeps, AdminKeeps, FaultKeeps DEF Serve
  <2>. QED BY <1>1, <1>2, <2>1, DeletionSteps
<1>3. CASE UNCHANGED vars \/ Restart
  <2>1. req' = req /\ acked' = acked
    BY <1>3 DEF vars, Restart, history
  <2>. QED BY <1>1, <2>1, NoNewDeleter DEF Deleter
<1>4. CASE Crash
  <2>1. acked' = acked /\ \A p \in Requests : req'[p].at = "idle"
    BY <1>4, IdleShape DEF Crash
  <2>. QED BY <1>1, <2>1, NoNewDeleter DEF Deleter
<1>. QED BY <1>2, <1>3, <1>4 DEF Next

-----------------------------------------------------------------------------
(* The results.                                                            *)

(* Together they are inductive.                                            *)
LEMMA RecordsInvariance == ASSUME ~ReuseIds PROVE Spec => [](IInv /\ RecordsInv /\ DeletionInv)
<1>1. Init => IInv /\ RecordsInv /\ DeletionInv
  BY Initially, RecordsInitially, DeletionInitially
<1>2. (IInv /\ RecordsInv /\ DeletionInv) /\ [Next]_vars
      => (IInv /\ RecordsInv /\ DeletionInv)'
  BY Inductive, RecordsKept, DeletionKept
<1>. QED BY <1>1, <1>2, PTL DEF Spec

(* If ids are not drawn again, an image that has a row has both files, or  *)
(* is being uploaded, or is one of those whose upload or owner was lost at *)
(* a known point: no interleaving of uploads, annotations, deletions and   *)
(* reassignments, no failed statement, write or removal and no crash       *)
(* separates rows from files otherwise.                                    *)
THEOREM RowsHaveFiles == ASSUME ~ReuseIds PROVE Spec => []RowHasFiles
<1>1. RecordsInv => RowHasFiles
  BY DEF RecordsInv
<1>. QED BY <1>1, RecordsInvariance, PTL

(* If ids are not drawn again, then of all requests that delete an image   *)
(* at most one is told that it did.                                        *)
THEOREM DeletionsAreSingle == ASSUME ~ReuseIds PROVE Spec => []DeletedOnce
<1>1. DeletionInv => DeletedOnce
  BY DEF DeletionInv, DeletedOnce
<1>. QED BY <1>1, RecordsInvariance, PTL

(* If ids are not drawn again and images stay with their owners, no file   *)
(* is removed while its row is there, although AdminDeleteUser works from  *)
(* a list that is older than its deletion of the user. (With               *)
(* reassignments it does not hold: run handlers_stalelist.)                *)
THEOREM RemovalsAreUnrecorded ==
    ASSUME ~ReuseIds, ~Reassigning PROVE Spec => RemovesOnlyUnrecorded
<1>. DEFINE A == \A i \in Ids :
                   \/ img[i] # None /\ img'[i] = None
                   \/ thumb[i] # None /\ thumb'[i] = None
                   => ~DB!Exists(db, i)
<1>1. IInv /\ RecordsInv /\ [Next]_vars => [A]_vars
  BY StepCareful DEF Careful, Retired, Gone
<1>2. RemovesOnlyUnrecorded <=> [][A]_vars
  BY DEF RemovesOnlyUnrecorded
<1>. QED BY <1>1, <1>2, RecordsInvariance, PTL DEF Spec
=============================================================================
