--------------------------- MODULE HandlersProofs ---------------------------
(***************************************************************************)
(* The handlers, for any ids, users, requests and faults and both          *)
(* database engines: the state is well typed, every image belongs to a     *)
(* user who exists, and what is in a file or a title was written by        *)
(* someone who has owned the image.                                        *)
(*                                                                         *)
(* The argument has three parts that hardly touch: the database, where     *)
(* every statement keeps owners and titles right; the files, which only    *)
(* receive what goroutines in the store carry; and the requests, whose     *)
(* kind tells which of their fields are set.                               *)
(***************************************************************************)
EXTENDS Handlers, TLAPS

-----------------------------------------------------------------------------
(* The inductive invariant.                                                *)

(* What a statement must leave behind, given who has owned what.           *)
Sound(d) ==
    /\ d \in DB!Databases
    /\ \A i \in Ids : DB!Exists(d, i) =>
          /\ d.images[i].owner \in d.users
          /\ d.images[i].title \in owned[i] \cup {None}

DatabaseInv ==
    /\ Sound(db)
    /\ owned \in [Ids -> SUBSET Users]
    /\ \A i \in Ids : DB!Exists(db, i) => db.images[i].owner \in owned[i]

(* A goroutine about to write does so for someone who has owned the image. *)
WritersOwned ==
    \A p \in Requests : call[p].at \in Files!Saving =>
        call[p].id \in Ids /\ call[p].body \in owned[call[p].id]

FilesInv ==
    /\ Files!TypeOK
    /\ WritersOwned
    /\ \A i \in Ids : {img[i], thumb[i]} \subseteq owned[i] \cup {None}

(* The kinds of request that send a statement, and the fields they set.    *)
RequestSound(r) ==
    /\ r.at = "upsert"                 => r.op \in {"upload", "home"}
    /\ r.at \in {"insert", "undo"}     => r.op = "upload"
    /\ r.at = "get"                    => r.op \in {"annotate", "delete"}
    /\ r.at = "delete"                 => r.op \in {"delete", "adminDeleteImage"}
    /\ r.at = "update"                 => r.op = "update"
    /\ r.at \in {"list", "dropuser"}   => r.op = "adminDeleteUser"
    /\ r.at \in {"target", "reassign"} => r.op \in {"adminReassignImage",
                                                    "adminReassignAll"}
    /\ r.op = "upload" /\ r.at \in {"file", "undo"} => r.id \in Ids
    /\ r.op \in {"upload", "home", "annotate", "delete", "update", "adminDeleteUser"}
          => r.user \in Users
    /\ r.op \in {"annotate", "delete", "update", "adminDeleteImage", "adminReassignImage"}
          => r.id \in Ids
    /\ r.op \in {"adminReassignImage", "adminReassignAll"} => r.to \in Users
    /\ r.op = "update" => r.to \in {r.user, None}

RequestsInv ==
    /\ req \in [Requests -> Request]
    /\ \A p \in Requests : RequestSound(req[p])

HistoryInv ==
    /\ acked \in [Ids -> Nat]
    /\ cut \in SUBSET Ids

IInv == DatabaseInv /\ FilesInv /\ RequestsInv /\ HistoryInv

LEMMA Consequences == IInv => TypeOK /\ OwnerExists /\ WrittenByOwner
BY DEF IInv, DatabaseInv, Sound, FilesInv, RequestsInv, HistoryInv, TypeOK,
       OwnerExists, WrittenByOwner

LEMMA Initially == Init => IInv
<1>. SUFFICES ASSUME Init PROVE IInv
  OBVIOUS
<1>1. DatabaseInv
  BY DEF Init, DatabaseInv, Sound, DB!EmptyDB, DB!Databases, DB!Exists
<1>2. FilesInv
  BY DEF Init, FilesInv, WritersOwned, Files!Init, Files!TypeOK, Files!CallState,
         Files!Idle, Files!Saving
<1>3. IdleReq \in Request /\ RequestSound(IdleReq)
  BY DEF IdleReq, NewReq, Request, Places, maxIDRetries, RequestSound
<1>4. RequestsInv
  BY <1>3 DEF Init, RequestsInv
<1>5. HistoryInv
  BY DEF Init, HistoryInv
<1>. QED BY <1>1, <1>2, <1>4, <1>5 DEF IInv

-----------------------------------------------------------------------------
(* The statements.                                                         *)

USE DEF DB!Databases, DB!Row

LEMMA UpsertUserSound ==
    ASSUME NEW d, Sound(d), NEW u \in Users
    PROVE  Sound(DB!UpsertUser(d, u))
BY DEF Sound, DB!UpsertUser, DB!Exists

LEMMA DeleteUserSound ==
    ASSUME NEW d, Sound(d), NEW u \in Users
    PROVE  Sound(DB!DeleteUser(d, u))
BY DEF Sound, DB!DeleteUser, DB!OwnedBy, DB!Exists

LEMMA InsertImageSound ==
    ASSUME NEW d, Sound(d), NEW i \in Ids, NEW u \in Users
    PROVE  Sound(DB!InsertImage(d, i, u))
BY DEF Sound, DB!InsertImage, DB!InsertResult, DB!SetRow, DB!Exists

(* The title is the owner's, who has owned the image.                      *)
LEMMA UpdateImageSound ==
    ASSUME NEW d, Sound(d), NEW i \in Ids, NEW u \in Users, NEW t \in {u, None},
           DB!OwnedBy(d, i, u) => u \in owned[i]
    PROVE  Sound(DB!UpdateImage(d, i, u, t))
BY DEF Sound, DB!UpdateImage, DB!SetRow, DB!OwnedBy, DB!Exists

LEMMA DeleteImageSound ==
    ASSUME NEW d, Sound(d), NEW i \in Ids, NEW u
    PROVE  Sound(DB!DeleteImage(d, i, u)) /\ Sound(DB!AdminDeleteImage(d, i))
BY DEF Sound, DB!DeleteImage, DB!AdminDeleteImage, DB!SetRow, DB!Exists

(* A row only moves to a user who exists.                                  *)
LEMMA MoveToSound ==
    ASSUME NEW d, Sound(d), NEW S \in SUBSET Ids, NEW u \in Users,
           \A i \in S : DB!Exists(d, i)
    PROVE  Sound(DB!MoveTo(d, S, u))
BY DEF Sound, DB!MoveTo, DB!Exists

LEMMA ReassignSound ==
    ASSUME NEW d, Sound(d), NEW u \in Users
    PROVE  /\ \A i \in Ids : Sound(DB!ReassignImage(d, i, u))
           /\ \A v : Sound(DB!ReassignAllImages(d, v, u))
<1>1. \A i \in Ids : Sound(DB!ReassignImage(d, i, u))
  BY MoveToSound DEF DB!ReassignImage
<1>2. ASSUME NEW v PROVE Sound(DB!ReassignAllImages(d, v, u))
  <2>1. /\ DB!ListImageIDsByOwner(d, v) \in SUBSET Ids
        /\ \A i \in DB!ListImageIDsByOwner(d, v) : DB!Exists(d, i)
    BY DEF DB!ListImageIDsByOwner, DB!OwnedBy
  <2>. QED BY <2>1, MoveToSound DEF DB!ReassignAllImages
<1>. QED BY <1>1, <1>2

LEMMA EffectSound ==
    ASSUME DatabaseInv, RequestsInv, NEW p \in Requests
    PROVE  Sound(Effect(p))
<1>. DEFINE r == req[p]
<1>. RequestSound(r) /\ r \in Request
  BY DEF RequestsInv
<1>. Sound(db)
  BY DEF DatabaseInv
<1>1. CASE r.at = "upsert"
  BY <1>1, UpsertUserSound DEF Effect, RequestSound
<1>2. CASE r.at = "undo"
  BY <1>2, DeleteImageSound DEF Effect, RequestSound
<1>3. CASE r.at = "delete"
  BY <1>3, DeleteImageSound DEF Effect, RequestSound
<1>4. CASE r.at = "update"
  <2>1. r.id \in Ids /\ r.user \in Users /\ r.to \in {r.user, None}
    BY <1>4 DEF RequestSound
  <2>2. DB!OwnedBy(db, r.id, r.user) => r.user \in owned[r.id]
    BY <2>1 DEF DatabaseInv, DB!OwnedBy
  <2>. QED BY <1>4, <2>1, <2>2, UpdateImageSound DEF Effect
<1>5. CASE r.at = "dropuser"
  BY <1>5, DeleteUserSound DEF Effect, RequestSound
<1>6. CASE r.at = "reassign"
  BY <1>6, ReassignSound DEF Effect, RequestSound
<1>7. CASE r.at \notin {"upsert", "undo", "delete", "update", "dropuser", "reassign"}
  BY <1>7 DEF Effect
<1>. QED BY <1>1, <1>2, <1>3, <1>4, <1>5, <1>6, <1>7

(* Ownership in the past only grows, and covers the present.               *)
Grows == \A i \in Ids : owned[i] \subseteq owned'[i]

LEMMA SetDBSound ==
    ASSUME DatabaseInv, NEW d, Sound(d), SetDB(d)
    PROVE  DatabaseInv' /\ Grows
<1>1. db' = d /\ owned' \in [Ids -> SUBSET Users] /\ Grows
  BY DEF DatabaseInv, SetDB, Grows
<1>2. Sound(db)'
  BY <1>1 DEF Sound, Grows, DB!Exists
<1>3. \A i \in Ids : DB!Exists(d, i) => d.images[i].owner \in owned'[i]
  <2>. TAKE i \in Ids
  <2>. HAVE DB!Exists(d, i)
  <2>1. d.images[i].owner \in Users
    BY DEF Sound, DB!Exists
  <2>2. DB!OwnedBy(d, i, d.images[i].owner)
    BY DEF DB!OwnedBy
  <2>. QED BY <2>1, <2>2 DEF SetDB
<1>. QED BY <1>1, <1>2, <1>3 DEF DatabaseInv, DB!Exists

LEMMA DatabaseKept ==
    ASSUME DatabaseInv, UNCHANGED <<db, owned>>
    PROVE  DatabaseInv' /\ Grows
BY DEF DatabaseInv, Sound, Grows, DB!Exists

LEMMA SendSound ==
    ASSUME DatabaseInv, RequestsInv, NEW p \in Requests, NEW at, Send(p, at)
    PROVE  DatabaseInv' /\ Grows
BY EffectSound, SetDBSound DEF Send
-----------------------------------------------------------------------------
(* The files.                                                              *)

LEMMA FilesKept ==
    ASSUME FilesInv, UNCHANGED files, Grows
    PROVE  FilesInv'
BY DEF FilesInv, WritersOwned, Files!TypeOK, Files!Saving, files, Grows

USE DEF Files!CallState, Files!Saving, Files!Deleting, Files!Returned, Files!Idle

(* Calls and returns; what a call carries comes from an owner.             *)
LEMMA SaveCallSound ==
    ASSUME FilesInv, Grows, NEW p \in Requests, NEW i \in Ids, NEW u \in Users,
           u \in owned'[i],
           Files!SaveNew(p, i, u) \/ Files!Save(p, i, u)
    PROVE  FilesInv'
<1>1. UNCHANGED <<img, thumb, up>>
  BY DEF Files!SaveNew, Files!Save, Files!Begin
<1>2. \E c \in Files!CallState :
         /\ call' = [call EXCEPT ![p] = c]
         /\ c.at \in Files!Saving => c.id \in Ids /\ c.body \in owned'[c.id]
  BY DEF Files!SaveNew, Files!Save, Files!Begin
<1>. QED BY <1>1, <1>2 DEF FilesInv, WritersOwned, Files!TypeOK, Grows

LEMMA DeleteCallSound ==
    ASSUME FilesInv, Grows, NEW p \in Requests, NEW i \in Ids, Files!Delete(p, i)
    PROVE  FilesInv'
<1>1. UNCHANGED <<img, thumb, up>>
  BY DEF Files!Delete, Files!Begin
<1>. DEFINE c == [at |-> "rmimage", id |-> i, body |-> None]
<1>2. c \in Files!CallState /\ c.at \notin Files!Saving
  OBVIOUS
<1>3. call' = [call EXCEPT ![p] = c]
  BY DEF Files!Delete, Files!Begin
<1>. HIDE DEF c
<1>. QED BY <1>1, <1>2, <1>3 DEF FilesInv, WritersOwned, Files!TypeOK, Grows

LEMMA ReturnSound ==
    ASSUME FilesInv, Grows, NEW p \in Requests, Files!Return(p)
    PROVE  FilesInv'
<1>1. UNCHANGED <<img, thumb, up>>
  BY DEF Files!Return
<1>2. Files!Idle \in Files!CallState /\ Files!Idle.at \notin Files!Saving
  OBVIOUS
<1>3. call' = [call EXCEPT ![p] = Files!Idle]
  BY DEF Files!Return
<1>. HIDE DEF Files!Idle
<1>. QED BY <1>1, <1>2, <1>3 DEF FilesInv, WritersOwned, Files!TypeOK, Grows

(* The store at work: what is installed is what the call carries.          *)
LEMMA WorkSound ==
    ASSUME FilesInv, UNCHANGED owned, NEW p \in Requests, Files!Step(p)
    PROVE  FilesInv'
<1>. call[p] \in Files!CallState
  BY DEF FilesInv, Files!TypeOK
<1>1. Files!TypeOK'
  BY DEF FilesInv, Files!TypeOK, Files!Step, Files!Work, Files!Miss, Files!Fail,
         Files!Goto, Files!Check, Files!InstallImage, Files!InstallThumb,
         Files!RemoveImage, Files!RemoveThumb
<1>2. WritersOwned'
  BY DEF FilesInv, WritersOwned, Files!TypeOK, Files!Step, Files!Work, Files!Miss,
         Files!Fail, Files!Goto, Files!Check, Files!InstallImage, Files!InstallThumb,
         Files!RemoveImage, Files!RemoveThumb
<1>3. \A i \in Ids : {img'[i], thumb'[i]} \subseteq owned[i] \cup {None}
  BY DEF FilesInv, WritersOwned, Files!TypeOK, Files!Step, Files!Work, Files!Miss,
         Files!Fail, Files!Goto, Files!Check, Files!InstallImage, Files!InstallThumb,
         Files!RemoveImage, Files!RemoveThumb
<1>. QED BY <1>1, <1>2, <1>3 DEF FilesInv

LEMMA CrashSound ==
    ASSUME FilesInv, UNCHANGED owned, Files!Crash \/ Files!Restart
    PROVE  FilesInv'
<1>1. CASE Files!Crash
  <2>1. call' = [p \in Requests |-> Files!Idle] /\ UNCHANGED <<img, thumb>>
    BY <1>1 DEF Files!Crash
  <2>2. Files!Idle \in Files!CallState /\ Files!Idle.at \notin Files!Saving
    OBVIOUS
  <2>3. up' = FALSE
    BY <1>1 DEF Files!Crash
  <2>. HIDE DEF Files!Idle, Files!CallState, Files!Saving
  <2>4. Files!TypeOK'
    BY <2>1, <2>2, <2>3 DEF FilesInv, Files!TypeOK
  <2>5. WritersOwned'
    BY <2>1, <2>2 DEF WritersOwned
  <2>. QED BY <2>1, <2>4, <2>5 DEF FilesInv
<1>2. CASE Files!Restart
  BY <1>2 DEF FilesInv, WritersOwned, Files!TypeOK, Files!Restart
<1>. QED BY <1>1, <1>2

-----------------------------------------------------------------------------
(* The requests.                                                           *)

LEMMA RequestStep ==
    ASSUME RequestsInv, NEW p \in Requests, NEW r \in Request, RequestSound(r),
           req' = [req EXCEPT ![p] = r]
    PROVE  RequestsInv'
BY DEF RequestsInv

LEMMA ReplySound ==
    ASSUME RequestsInv, NEW p \in Requests, Reply(p)
    PROVE  RequestsInv'
<1>1. IdleReq \in Request /\ RequestSound(IdleReq)
  BY DEF IdleReq, NewReq, Request, Places, maxIDRetries, RequestSound
<1>. QED BY <1>1, RequestStep DEF Reply

LEMMA GotoSound ==
    ASSUME RequestsInv, NEW p \in Requests, NEW at \in Places,
           RequestSound([req[p] EXCEPT !.at = at]), Goto(p, at)
    PROVE  RequestsInv'
<1>. DEFINE r == [req[p] EXCEPT !.at = at]
<1>1. r \in Request
  BY DEF RequestsInv, Request
<1>2. req' = [req EXCEPT ![p] = r]
  BY DEF Goto
<1>. HIDE DEF r
<1>. QED BY <1>1, <1>2, RequestStep DEF r

-----------------------------------------------------------------------------
(* Every step keeps the invariant.                                         *)

LEMMA ArriveSound ==
    ASSUME IInv, NEW p \in Requests, Arrive(p)
    PROVE  IInv'
<1>1. ASSUME NEW r, r \in Request, RequestSound(r), Accept(p, r)
      PROVE  IInv'
  <2>1. UNCHANGED <<db, owned, files, acked, cut>> /\ req' = [req EXCEPT ![p] = r]
    BY <1>1 DEF Accept, history
  <2>2. DatabaseInv' /\ FilesInv'
    BY <2>1, DatabaseKept, FilesKept DEF IInv
  <2>3. RequestsInv'
    BY <1>1, <2>1, RequestStep DEF IInv
  <2>. QED BY <2>1, <2>2, <2>3 DEF IInv, HistoryInv
<1>2. ASSUME NEW op, NEW at, NEW u, NEW i, NEW v, Accept(p, NewReq(op, at, u, i, v)),
             at \in Places \ {"undo", "file"},
             u \in Users \cup {None}, i \in Ids \cup {None}, v \in Users \cup {None},
             RequestSound(NewReq(op, at, u, i, v))
      PROVE  IInv'
  <2>1. op \in Ops
    BY <1>2 DEF Accept, NewReq
  <2>2. NewReq(op, at, u, i, v) \in Request
    BY <1>2, <2>1 DEF NewReq, Request, maxIDRetries
  <2>. QED BY <1>1, <1>2, <2>2
<1>. USE DEF Places, NewReq, RequestSound
<1>3. ASSUME NEW u \in Users, ArriveUser(p, u)
      PROVE  IInv'
  BY <1>2, <1>3 DEF ArriveUser
<1>4. ASSUME NEW u \in Users, NEW i \in Ids, ArriveImage(p, u, i)
      PROVE  IInv'
  BY <1>2, <1>4 DEF ArriveImage
<1>5. ASSUME NEW i \in Ids, ArriveAdminImage(p, i)
      PROVE  IInv'
  BY <1>2, <1>5 DEF ArriveAdminImage
<1>6. ASSUME NEW u \in Users, ArriveAdminUser(p, u)
      PROVE  IInv'
  BY <1>2, <1>6 DEF ArriveAdminUser
<1>. QED BY <1>3, <1>4, <1>5, <1>6 DEF Arrive

(* A step of p is right if it is right for the database, the files and the *)
(* requests, each on its own.                                              *)
LEMMA Parts ==
    ASSUME IInv, DatabaseInv', FilesInv', RequestsInv', HistoryInv'
    PROVE  IInv'
BY DEF IInv

LEMMA UploadSteps ==
    ASSUME IInv, NEW p \in Requests,
           \/ Upsert(p) \/ UploadSaved(p) \/ Undo(p)
           \/ \E i \in Ids : Inserted(p, i) \/ Collided(p, i) \/ InsertRefused(p, i)
    PROVE  IInv'
<1>. req[p] \in Request /\ RequestSound(req[p])
  BY DEF IInv, RequestsInv
<1>. DatabaseInv /\ FilesInv /\ RequestsInv /\ HistoryInv
  BY DEF IInv
<1>1. ASSUME Upsert(p) PROVE IInv'
  <2>1. DatabaseInv' /\ FilesInv'
    BY <1>1, SendSound, FilesKept DEF Upsert
  <2>2. req[p].op # "home" => RequestSound([req[p] EXCEPT !.at = "insert"])
    BY <1>1 DEF Upsert, Send, RequestSound, Request
  <2>3. RequestsInv'
    BY <1>1, <2>2, ReplySound, GotoSound DEF Upsert, Places
  <2>. QED BY <1>1, <2>1, <2>3, Parts DEF Upsert, HistoryInv
<1>2. ASSUME NEW i \in Ids, Inserted(p, i) PROVE IInv'
  <2>1. req[p].user \in Users /\ req[p].op = "upload"
    BY <1>2 DEF Inserted, RequestSound
  <2>2. DatabaseInv' /\ Grows
    BY <1>2, <2>1, InsertImageSound, SetDBSound DEF Inserted, DatabaseInv
  <2>3. DB!OwnedBy(DB!InsertImage(db, i, req[p].user), i, req[p].user)
    <3>. DEFINE row == [owner |-> req[p].user, title |-> None]
    <3>1. row \in DB!Row /\ row # None /\ row.owner = req[p].user
      BY <2>1, NoneAssumption
    <3>2. DB!InsertImage(db, i, req[p].user).images[i] = row
      BY <1>2 DEF Inserted, DB!InsertImage, DB!SetRow, DatabaseInv, Sound
    <3>. HIDE DEF row
    <3>. QED BY <3>1, <3>2 DEF DB!OwnedBy, DB!Exists
  <2>4. req[p].user \in owned'[i]
    BY <1>2, <2>1, <2>3 DEF Inserted, SetDB
  <2>5. FilesInv'
    BY <1>2, <2>1, <2>2, <2>4, SaveCallSound DEF Inserted
  <2>. DEFINE r == [req[p] EXCEPT !.at = "file", !.id = i]
  <2>6. r \in Request /\ RequestSound(r)
    BY <2>1 DEF RequestSound, Request, Places
  <2>7. req' = [req EXCEPT ![p] = r]
    BY <1>2 DEF Inserted
  <2>8. RequestsInv'
    <3>. HIDE DEF r
    <3>. QED BY <2>6, <2>7, RequestStep
  <2>. QED BY <1>2, <2>2, <2>5, <2>8, Parts DEF Inserted, HistoryInv
<1>3. ASSUME NEW i \in Ids, Collided(p, i) PROVE IInv'
  <2>1. DatabaseInv' /\ FilesInv' /\ HistoryInv'
    BY <1>3, DatabaseKept, FilesKept DEF Collided, history, HistoryInv
  <2>. DEFINE r == [req[p] EXCEPT !.tries = @ + 1, !.id = i]
  <2>2. CASE req[p].tries + 1 < maxIDRetries
    <3>. req[p].tries + 1 \in 0..(maxIDRetries - 1)
      BY <2>2 DEF Request, maxIDRetries
    <3>1. r \in Request
      BY DEF Request
    <3>2. RequestSound(r)
      BY <1>3 DEF Collided, RequestSound, Request
    <3>3. req' = [req EXCEPT ![p] = r]
      BY <1>3, <2>2 DEF Collided
    <3>4. RequestsInv'
      <4>. HIDE DEF r
      <4>. QED BY <3>1, <3>2, <3>3, RequestStep
    <3>. QED BY <2>1, <3>4, Parts
  <2>3. CASE ~(req[p].tries + 1 < maxIDRetries)
    BY <1>3, <2>1, <2>3, ReplySound, Parts DEF Collided
  <2>. QED BY <2>2, <2>3
<1>4. ASSUME NEW i \in Ids, InsertRefused(p, i) PROVE IInv'
  <2>1. DatabaseInv' /\ FilesInv' /\ HistoryInv'
    BY <1>4, DatabaseKept, FilesKept DEF InsertRefused, history, HistoryInv
  <2>. QED BY <1>4, <2>1, ReplySound, Parts DEF InsertRefused
<1>5. ASSUME UploadSaved(p) PROVE IInv'
  <2>1. DatabaseInv' /\ Grows /\ HistoryInv'
    BY <1>5, DatabaseKept DEF UploadSaved, history, HistoryInv
  <2>2. FilesInv'
    BY <1>5, <2>1, ReturnSound DEF UploadSaved
  <2>3. RequestSound([req[p] EXCEPT !.at = "undo"])
    BY <1>5 DEF UploadSaved, RequestSound, Request
  <2>4. RequestsInv'
    BY <1>5, <2>3, ReplySound, GotoSound DEF UploadSaved, Places
  <2>. QED BY <2>1, <2>2, <2>4, Parts
<1>6. ASSUME Undo(p) PROVE IInv'
  <2>1. DatabaseInv' /\ FilesInv'
    BY <1>6, SendSound, FilesKept DEF Undo
  <2>2. req[p].id \in Ids
    BY <1>6 DEF Undo, Send, RequestSound
  <2>3. HistoryInv'
    BY <1>6, <2>2 DEF Undo, HistoryInv
  <2>. QED BY <1>6, <2>1, <2>3, ReplySound, Parts DEF Undo
<1>. QED BY <1>1, <1>2, <1>3, <1>4, <1>5, <1>6

LEMMA ImageSteps ==
    ASSUME IInv, NEW p \in Requests,
           \/ AnnotateGet(p) \/ AnnotateSaved(p)
           \/ DeleteGet(p) \/ DeleteRow(p) \/ Deleted(p) \/ Update(p)
    PROVE  IInv'
<1>. req[p] \in Request /\ RequestSound(req[p])
  BY DEF IInv, RequestsInv
<1>. DatabaseInv /\ FilesInv /\ RequestsInv /\ HistoryInv
  BY DEF IInv
<1>1. ASSUME AnnotateGet(p) PROVE IInv'
  <2>1. DatabaseInv' /\ Grows /\ HistoryInv'
    BY <1>1, SendSound DEF AnnotateGet, HistoryInv
  <2>2. CASE DB!OwnedBy(db, req[p].id, req[p].user)
    <3>1. req[p].id \in Ids /\ req[p].user \in Users
      BY <1>1 DEF AnnotateGet, Send, RequestSound
    <3>2. req[p].user \in owned'[req[p].id]
      BY <2>1, <2>2, <3>1 DEF Grows, DatabaseInv, DB!OwnedBy
    <3>3. RequestSound([req[p] EXCEPT !.at = "file"])
      BY <1>1, <3>1 DEF AnnotateGet, RequestSound, Request
    <3>4. RequestsInv'
      BY <1>1, <2>2, <3>3, GotoSound DEF AnnotateGet, Places
    <3>5. FilesInv'
      BY <1>1, <2>1, <2>2, <3>1, <3>2, SaveCallSound DEF AnnotateGet
    <3>. QED BY <2>1, <3>4, <3>5, Parts
  <2>3. CASE ~DB!OwnedBy(db, req[p].id, req[p].user)
    BY <1>1, <2>1, <2>3, FilesKept, ReplySound, Parts DEF AnnotateGet
  <2>. QED BY <2>2, <2>3
<1>2. ASSUME AnnotateSaved(p) PROVE IInv'
  <2>1. DatabaseInv' /\ Grows /\ HistoryInv'
    BY <1>2, DatabaseKept DEF AnnotateSaved, history, HistoryInv
  <2>. QED BY <1>2, <2>1, ReturnSound, ReplySound, Parts DEF AnnotateSaved
<1>3. ASSUME DeleteRow(p) PROVE IInv'
  <2>1. DatabaseInv' /\ Grows /\ HistoryInv'
    BY <1>3, SendSound DEF DeleteRow, HistoryInv
  <2>2. CASE db' # db
    <3>1. req[p].id \in Ids /\ req[p].op \in {"delete", "adminDeleteImage"}
      BY <1>3 DEF DeleteRow, Send, RequestSound
    <3>2. RequestSound([req[p] EXCEPT !.at = "file"])
      BY <3>1 DEF RequestSound, Request
    <3>3. RequestsInv'
      BY <1>3, <2>2, <3>2, GotoSound DEF DeleteRow, Places
    <3>4. FilesInv'
      BY <1>3, <2>1, <2>2, <3>1, DeleteCallSound DEF DeleteRow
    <3>. QED BY <2>1, <3>3, <3>4, Parts
  <2>3. CASE db' = db
    BY <1>3, <2>1, <2>3, FilesKept, ReplySound, Parts DEF DeleteRow
  <2>. QED BY <2>2, <2>3
<1>4. ASSUME Deleted(p) PROVE IInv'
  <2>1. DatabaseInv' /\ Grows
    BY <1>4, DatabaseKept DEF Deleted
  <2>2. req[p].id \in Ids
    BY <1>4 DEF Deleted, RequestSound
  <2>3. HistoryInv'
    BY <1>4, <2>2 DEF Deleted, HistoryInv
  <2>. QED BY <1>4, <2>1, <2>3, ReturnSound, ReplySound, Parts DEF Deleted
<1>5. ASSUME Update(p) PROVE IInv'
  <2>1. DatabaseInv' /\ FilesInv' /\ HistoryInv'
    BY <1>5, SendSound, FilesKept DEF Update, HistoryInv
  <2>. QED BY <1>5, <2>1, ReplySound, Parts DEF Update
<1>6. ASSUME DeleteGet(p) PROVE IInv'
  <2>1. DatabaseInv' /\ FilesInv' /\ HistoryInv'
    BY <1>6, SendSound, FilesKept DEF DeleteGet, HistoryInv
  <2>2. RequestSound([req[p] EXCEPT !.at = "delete"])
    BY <1>6 DEF DeleteGet, Send, RequestSound, Request
  <2>3. RequestsInv'
    BY <1>6, <2>2, ReplySound, GotoSound DEF DeleteGet, Places
  <2>. QED BY <2>1, <2>3, Parts
<1>. QED BY <1>1, <1>2, <1>3, <1>4, <1>5, <1>6

LEMMA AdminSteps ==
    ASSUME IInv, NEW p \in Requests,
           \/ ListImages(p) \/ DropUser(p) \/ Removed(p) \/ UserDeleted(p)
           \/ \E i \in Ids : RemoveNext(p, i)
           \/ GetTarget(p) \/ Reassign(p)
    PROVE  IInv'
<1>. req[p] \in Request /\ RequestSound(req[p])
  BY DEF IInv, RequestsInv
<1>. DatabaseInv /\ FilesInv /\ RequestsInv /\ HistoryInv
  BY DEF IInv
<1>1. ASSUME ListImages(p) PROVE IInv'
  <2>1. DatabaseInv' /\ FilesInv' /\ HistoryInv'
    BY <1>1, SendSound, FilesKept DEF ListImages, HistoryInv
  <2>. DEFINE todo == DB!ListImageIDsByOwner(db, req[p].user)
              r    == [req[p] EXCEPT !.at = "dropuser", !.todo = todo]
  <2>2. todo \in SUBSET Ids
    BY DEF DB!ListImageIDsByOwner
  <2>3. req' = [req EXCEPT ![p] = r]
    BY <1>1 DEF ListImages
  <2>4. r \in Request /\ RequestSound(r)
    <3>. HIDE DEF todo
    <3>. QED BY <1>1, <2>2 DEF ListImages, Send, RequestSound, Request, Places
  <2>5. RequestsInv'
    <3>. HIDE DEF r
    <3>. QED BY <2>3, <2>4, RequestStep
  <2>. QED BY <2>1, <2>5, Parts
<1>2. ASSUME DropUser(p) PROVE IInv'
  <2>1. DatabaseInv' /\ FilesInv' /\ HistoryInv'
    BY <1>2, SendSound, FilesKept DEF DropUser, HistoryInv
  <2>2. RequestSound([req[p] EXCEPT !.at = "files"])
    BY <1>2 DEF DropUser, Send, RequestSound, Request
  <2>3. RequestsInv'
    BY <1>2, <2>2, ReplySound, GotoSound DEF DropUser, Places
  <2>. QED BY <2>1, <2>3, Parts
<1>3. ASSUME NEW i \in Ids, RemoveNext(p, i) PROVE IInv'
  <2>1. DatabaseInv' /\ Grows /\ HistoryInv'
    BY <1>3, DatabaseKept DEF RemoveNext, history, HistoryInv
  <2>2. FilesInv'
    BY <1>3, <2>1, DeleteCallSound DEF RemoveNext
  <2>. DEFINE r == [req[p] EXCEPT !.todo = @ \ {i}]
  <2>3. r \in Request /\ RequestSound(r)
    BY <1>3 DEF RequestSound, Request
  <2>4. req' = [req EXCEPT ![p] = r]
    BY <1>3 DEF RemoveNext
  <2>5. RequestsInv'
    <3>. HIDE DEF r
    <3>. QED BY <2>3, <2>4, RequestStep
  <2>. QED BY <2>1, <2>2, <2>5, Parts
<1>4. ASSUME Removed(p) PROVE IInv'
  <2>1. DatabaseInv' /\ Grows /\ HistoryInv' /\ RequestsInv'
    BY <1>4, DatabaseKept DEF Removed, history, HistoryInv, RequestsInv
  <2>. QED BY <1>4, <2>1, ReturnSound, Parts DEF Removed
<1>5. ASSUME UserDeleted(p) PROVE IInv'
  <2>1. DatabaseInv' /\ FilesInv' /\ HistoryInv'
    BY <1>5, DatabaseKept, FilesKept DEF UserDeleted, history, HistoryInv
  <2>. QED BY <1>5, <2>1, ReplySound, Parts DEF UserDeleted
<1>6. ASSUME GetTarget(p) PROVE IInv'
  <2>1. DatabaseInv' /\ FilesInv' /\ HistoryInv'
    BY <1>6, SendSound, FilesKept DEF GetTarget, HistoryInv
  <2>2. RequestSound([req[p] EXCEPT !.at = "reassign"])
    BY <1>6 DEF GetTarget, Send, RequestSound, Request
  <2>3. RequestsInv'
    BY <1>6, <2>2, ReplySound, GotoSound DEF GetTarget, Places
  <2>. QED BY <2>1, <2>3, Parts
<1>7. ASSUME Reassign(p) PROVE IInv'
  <2>1. DatabaseInv' /\ FilesInv' /\ HistoryInv'
    BY <1>7, SendSound, FilesKept DEF Reassign, HistoryInv, Overtaken
  <2>. QED BY <1>7, <2>1, ReplySound, Parts DEF Reassign
<1>. QED BY <1>1, <1>2, <1>3, <1>4, <1>5, <1>6, <1>7

LEMMA FaultSteps ==
    ASSUME IInv, NEW p \in Requests, Store(p) \/ Fault(p)
    PROVE  IInv'
<1>. req[p] \in Request /\ RequestSound(req[p])
  BY DEF IInv, RequestsInv
<1>. DatabaseInv /\ FilesInv /\ RequestsInv /\ HistoryInv
  BY DEF IInv
<1>1. ASSUME Store(p) \/ DiskError(p) PROVE IInv'
  <2>1. Files!Step(p) /\ UNCHANGED <<db, req, owned, acked, cut>>
    BY <1>1 DEF Store, DiskError, Files!Step, history
  <2>2. DatabaseInv' /\ FilesInv'
    BY <2>1, DatabaseKept, WorkSound
  <2>. QED BY <2>1, <2>2, Parts DEF HistoryInv, RequestsInv
<1>2. ASSUME DBError(p) PROVE IInv'
  <2>1. PICK d \in {db, Effect(p)} :
           /\ SetDB(d)
           /\ cut' = cut \cup Overtaken(d)
                         \cup {i \in Ids : req[p].at = "undo" /\ i = req[p].id /\ DB!Exists(d, i)}
    BY <1>2 DEF DBError
  <2>2. DatabaseInv' /\ Grows
    BY <2>1, EffectSound, SetDBSound DEF DatabaseInv
  <2>3. HistoryInv'
    BY <1>2, <2>1 DEF DBError, HistoryInv, Overtaken
  <2>. QED BY <1>2, <2>2, <2>3, FilesKept, ReplySound, Parts DEF DBError
<1>3. ASSUME NEW i \in Ids, InsertLost(p, i) PROVE IInv'
  <2>1. PICK d \in {db, DB!InsertImage(db, i, req[p].user)} :
           SetDB(d) /\ cut' = IF d # db THEN cut \cup {i} ELSE cut
    BY <1>3 DEF InsertLost
  <2>2. req[p].user \in Users
    BY <1>3 DEF InsertLost, RequestSound
  <2>3. DatabaseInv' /\ Grows
    BY <2>1, <2>2, InsertImageSound, SetDBSound DEF DatabaseInv
  <2>4. HistoryInv'
    BY <1>3, <2>1 DEF InsertLost, HistoryInv
  <2>. QED BY <1>3, <2>3, <2>4, FilesKept, ReplySound, Parts DEF InsertLost
<1>. QED BY <1>1, <1>2, <1>3 DEF Fault

LEMMA ProcessSteps ==
    ASSUME IInv, Crash \/ Restart
    PROVE  IInv'
<1>. DatabaseInv /\ FilesInv /\ RequestsInv /\ HistoryInv
  BY DEF IInv
<1>1. DatabaseInv' /\ FilesInv'
  BY DatabaseKept, CrashSound DEF Crash, Restart, history
<1>2. IdleReq \in Request /\ RequestSound(IdleReq)
  BY DEF IdleReq, NewReq, Request, Places, maxIDRetries, RequestSound
<1>3. RequestsInv'
  BY <1>2 DEF Crash, Restart, RequestsInv
<1>4. HistoryInv'
  BY DEF Crash, Restart, history, HistoryInv
<1>. QED BY <1>1, <1>3, <1>4, Parts

LEMMA Inductive == IInv /\ [Next]_vars => IInv'
<1>. SUFFICES ASSUME IInv, [Next]_vars PROVE IInv'
  OBVIOUS
<1>1. CASE UNCHANGED vars
  <2>1. UNCHANGED <<db, files, req, owned, acked, cut>>
    BY <1>1 DEF vars, history
  <2>2. DatabaseInv' /\ FilesInv'
    BY <2>1, DatabaseKept, FilesKept DEF IInv
  <2>. QED BY <2>1, <2>2 DEF IInv, RequestsInv, HistoryInv
<1>2. ASSUME NEW p \in Requests, Arrive(p) \/ Serve(p) \/ Fault(p) PROVE IInv'
  BY <1>2, ArriveSound, UploadSteps, ImageSteps, AdminSteps, FaultSteps DEF Serve
<1>3. CASE Crash \/ Restart
  BY <1>3, ProcessSteps
<1>. QED BY <1>1, <1>2, <1>3 DEF Next

-----------------------------------------------------------------------------
(* The results.                                                            *)

(* The inductive invariant holds in every reachable state.                 *)
THEOREM Invariance == Spec => []IInv
BY Initially, Inductive, PTL DEF Spec

(* The state is well typed: no handler is at a place, or counts to a       *)
(* number, that its code does not have.                                    *)
THEOREM TypeCorrectness == Spec => []TypeOK
BY Invariance, Consequences, PTL

(* Whatever administrators delete and reassign between the statements of   *)
(* other requests, every image belongs to a user who exists.               *)
THEOREM OwnersExist == Spec => []OwnerExists
BY Invariance, Consequences, PTL

(* What is in the files and the title of an image was written by someone   *)
(* who owned it at the time or before, although Annotate writes long after *)
(* its check of the owner.                                                 *)
THEOREM WritersAreOwners == Spec => []WrittenByOwner
BY Invariance, Consequences, PTL
=============================================================================
