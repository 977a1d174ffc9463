------------------------------ MODULE Handlers ------------------------------
(***************************************************************************)
(* The request handlers that change state (internal/handlers: upload.go,   *)
(* annotate.go, delete.go, update.go, admin.go, home.go) over the database *)
(* and the file store. net/http runs each request in a goroutine; between  *)
(* two statements or file operations of one, all the others can run. The   *)
(* handlers take no lock and use no transaction.                           *)
(*                                                                         *)
(* A request is at the statement it is about to send ("upsert", "insert",  *)
(* ...), or at "file" or "files" while it is in package storage. Requests  *)
(* that the router or the checks on their input turn away change nothing   *)
(* and are left out.                                                       *)
(***************************************************************************)
EXTENDS Naturals, FiniteSets

CONSTANTS
    Ids,       \* image ids
    Users,     \* users; a file holds the user whose request wrote it
    Requests,  \* goroutines serving requests, one request at a time each
    Ops,       \* the kinds of request that arrive
    Backend,   \* "sqlite" or "postgres"
    ReuseIds,  \* generateID may draw an id again after its image is deleted
    Faults,    \* what may go wrong: "db", "disk", "crash"
    None

maxIDRetries == 3

AllOps == {"upload", "annotate", "delete", "update", "home", "adminDeleteImage",
           "adminDeleteUser", "adminReassignImage", "adminReassignAll"}

ASSUME OpsAssumption == Ops \subseteq AllOps

VARIABLES
    db,                    \* the database, see module Database
    img, thumb, call, up,  \* the files and the process, see module FileStore
    req,                   \* req[p]: the request p serves and where it stands
    owned,                 \* history: owned[i], who has ever owned image i
    acked,                 \* history: deletions of image i answered with 200
    cut                    \* history: images whose upload lost its database,
                           \* its process or its owner between the row and the
                           \* files, and images given to another user after
                           \* AdminDeleteUser has listed them

DB    == INSTANCE Database
Files == INSTANCE FileStore WITH Bodies <- Users, Calls <- Requests

ASSUME NoneAssumption == None \notin Users \cup Ids \cup DB!Row

files   == <<img, thumb, call, up>>
history == <<owned, acked, cut>>
vars    == <<db, files, req, history>>

NewReq(op, at, user, id, to) ==
    [op |-> op, at |-> at, user |-> user, id |-> id, to |-> to, todo |-> {}, tries |-> 0]

IdleReq == NewReq("none", "idle", None, None, None)

Places == {"idle", "upsert", "insert", "undo", "get", "delete", "update", "list",
           "dropuser", "target", "reassign", "file", "files"}

Request == [op    : Ops \cup {"none"},
            at    : Places,
            user  : Users \cup {None},
            id    : Ids \cup {None},
            to    : Users \cup {None},
            todo  : SUBSET Ids,
            tries : 0..(maxIDRetries - 1)]

TypeOK ==
    /\ db \in DB!Databases
    /\ Files!TypeOK
    /\ req \in [Requests -> Request]
    /\ owned \in [Ids -> SUBSET Users]
    /\ acked \in [Ids -> Nat]
    /\ cut   \in SUBSET Ids

Init ==
    /\ db = DB!EmptyDB
    /\ Files!Init
    /\ req = [p \in Requests |-> IdleReq]
    /\ owned = [i \in Ids |-> {}]
    /\ acked = [i \in Ids |-> 0]
    /\ cut = {}

-----------------------------------------------------------------------------
(* The pieces steps are made of.                                           *)

Goto(p, at) == req' = [req EXCEPT ![p].at = at]
Reply(p)    == req' = [req EXCEPT ![p] = IdleReq]

(* The database becomes d.                                                 *)
SetDB(d) ==
    /\ db' = d
    /\ owned' = [i \in Ids |-> owned[i] \cup {u \in Users : DB!OwnedBy(d, i, u)}]

(* What the statement p is at does; reads change nothing.                  *)
Effect(p) ==
    LET r == req[p] IN
    CASE r.at = "upsert"   -> DB!UpsertUser(db, r.user)
      [] r.at = "undo"     -> DB!DeleteImage(db, r.id, r.user)
      [] r.at = "delete"   -> IF r.op = "delete"
                                THEN DB!DeleteImage(db, r.id, r.user)
                                ELSE DB!AdminDeleteImage(db, r.id)
      [] r.at = "update"   -> DB!UpdateImage(db, r.id, r.user, r.to)
      [] r.at = "dropuser" -> DB!DeleteUser(db, r.user)
      [] r.at = "reassign" -> IF r.op = "adminReassignImage"
                                THEN DB!ReassignImage(db, r.id, r.to)
                                ELSE DB!ReassignAllImages(db, r.user, r.to)
      [] OTHER             -> db

(* p sends its statement.                                                  *)
Send(p, at) == req[p].at = at /\ SetDB(Effect(p))

(* The ids that generateID can draw: unused ones, ones in use (the case    *)
(* the retries are for) and, with ReuseIds, those of deleted images.       *)
Drawable(i) == ReuseIds \/ owned[i] = {} \/ DB!Exists(db, i)

(* A bound of the model: no more uploads than there are unused ids.        *)
IdLeft ==
    \/ ReuseIds
    \/ Cardinality({p \in Requests : /\ req[p].op = "upload"
                                     /\ req[p].at \in {"upsert", "insert"}})
       < Cardinality({i \in Ids : owned[i] = {}})

-----------------------------------------------------------------------------
(* Requests arrive.                                                        *)

Accept(p, r) == /\ up
                /\ req[p] = IdleReq
                /\ r.op \in Ops
                /\ r.op = "upload" => IdLeft
                /\ req' = [req EXCEPT ![p] = r]
                /\ UNCHANGED <<db, files, history>>

(* By user u: POST /upload, GET /.                                         *)
ArriveUser(p, u) ==
    \E op \in {"upload", "home"} : Accept(p, NewReq(op, "upsert", u, None, None))

(* By user u, on image i: POST /{id}/annotate, DELETE and PATCH /{id}.     *)
ArriveImage(p, u, i) ==
    \/ \E op \in {"annotate", "delete"} : Accept(p, NewReq(op, "get", u, i, None))
    \/ \E title \in {u, None} : Accept(p, NewReq("update", "update", u, i, title))

(* By an administrator, on image i: DELETE and POST .../reassign.          *)
ArriveAdminImage(p, i) ==
    \/ Accept(p, NewReq("adminDeleteImage", "delete", None, i, None))
    \/ \E v \in Users : Accept(p, NewReq("adminReassignImage", "target", None, i, v))

(* By an administrator, on user u: DELETE and POST .../reassign-all.       *)
ArriveAdminUser(p, u) ==
    \/ Accept(p, NewReq("adminDeleteUser", "list", u, None, None))
    \/ \E v \in Users : Accept(p, NewReq("adminReassignAll", "target", u, None, v))

-----------------------------------------------------------------------------
(* Upload, and Home's part of it.                                          *)

Upsert(p) ==
    /\ Send(p, "upsert")
    /\ IF req[p].op = "home" THEN Reply(p) ELSE Goto(p, "insert")
    /\ UNCHANGED <<files, acked, cut>>

Inserted(p, i) ==
    /\ req[p].at = "insert"
    /\ Drawable(i)
    /\ DB!InsertResult(db, i, req[p].user) = "ok"
    /\ SetDB(DB!InsertImage(db, i, req[p].user))
    /\ req' = [req EXCEPT ![p].at = "file", ![p].id = i]
    /\ Files!SaveNew(p, i, req[p].user)
    /\ UNCHANGED <<acked, cut>>

(* Mutants: the comparison with the bound is off by one; there is none.    *)
CollidedOnceMore(p, i) ==
    /\ req[p].at = "insert"
    /\ Drawable(i)
    /\ DB!InsertResult(db, i, req[p].user) = "duplicate"
    /\ IF req[p].tries + 1 <= maxIDRetries
         THEN req' = [req EXCEPT ![p].tries = @ + 1, ![p].id = i]
         ELSE Reply(p)
    /\ UNCHANGED <<db, files, history>>

CollidedForever(p, i) ==
    /\ req[p].at = "insert"
    /\ Drawable(i)
    /\ DB!InsertResult(db, i, req[p].user) = "duplicate"
    /\ req' = [req EXCEPT ![p].tries = (@ + 1) % maxIDRetries, ![p].id = i]
    /\ UNCHANGED <<db, files, history>>

(* A collision, or what isDuplicateKeyErr takes for one.                   *)
Collided(p, i) ==
    /\ req[p].at = "insert"
    /\ Drawable(i)
    /\ DB!InsertResult(db, i, req[p].user) = "duplicate"
    /\ IF req[p].tries + 1 < maxIDRetries
         THEN req' = [req EXCEPT ![p].tries = @ + 1, ![p].id = i]
         ELSE Reply(p)
    /\ UNCHANGED <<db, files, history>>

InsertRefused(p, i) ==
    /\ req[p].at = "insert"
    /\ Drawable(i)
    /\ DB!InsertResult(db, i, req[p].user) = "error"
    /\ Reply(p)
    /\ UNCHANGED <<db, files, history>>

(* Mutant: the row stays when the files could not be written.              *)
UploadKeepsRow(p) ==
    /\ req[p].op = "upload" /\ req[p].at = "file"
    /\ Files!Return(p)
    /\ Reply(p)
    /\ UNCHANGED <<db, history>>

(* SaveNew has returned; if it failed the row is to be deleted.            *)
UploadSaved(p) ==
    /\ req[p].op = "upload" /\ req[p].at = "file"
    /\ Files!Return(p)
    /\ IF call[p].at = "ok" THEN Reply(p) ELSE Goto(p, "undo")
    /\ UNCHANGED <<db, history>>

(* Nothing is deleted if the row is somebody else's by now.                *)
Undo(p) ==
    /\ Send(p, "undo")
    /\ cut' = IF DB!Exists(db, req[p].id) /\ ~DB!OwnedBy(db, req[p].id, req[p].user)
                THEN cut \cup {req[p].id} ELSE cut
    /\ Reply(p)
    /\ UNCHANGED <<files, acked>>

-----------------------------------------------------------------------------
(* Annotate, Delete, Update.                                               *)

(* Mutant: the image exists, whoever owns it.                              *)
AnnotateAnyOwner(p) ==
    /\ req[p].op = "annotate"
    /\ Send(p, "get")
    /\ IF DB!Exists(db, req[p].id)
         THEN Goto(p, "file") /\ Files!Save(p, req[p].id, req[p].user)
         ELSE Reply(p) /\ UNCHANGED files
    /\ UNCHANGED <<acked, cut>>

(* Both get the image and check its owner; what follows relies on that     *)
(* check without repeating it (Annotate) or repeats it (Delete).           *)
AnnotateGet(p) ==
    /\ req[p].op = "annotate"
    /\ Send(p, "get")
    /\ IF DB!OwnedBy(db, req[p].id, req[p].user)
         THEN Goto(p, "file") /\ Files!Save(p, req[p].id, req[p].user)
         ELSE Reply(p) /\ UNCHANGED files
    /\ UNCHANGED <<acked, cut>>

DeleteGet(p) ==
    /\ req[p].op = "delete"
    /\ Send(p, "get")
    /\ IF DB!OwnedBy(db, req[p].id, req[p].user) THEN Goto(p, "delete") ELSE Reply(p)
    /\ UNCHANGED <<files, acked, cut>>

AnnotateSaved(p) ==
    /\ req[p].op = "annotate" /\ req[p].at = "file"
    /\ Files!Return(p)
    /\ Reply(p)
    /\ UNCHANGED <<db, history>>

(* Mutant: the number of affected rows is not looked at.                   *)
DeleteRowUnchecked(p) ==
    /\ Send(p, "delete")
    /\ Goto(p, "file")
    /\ Files!Delete(p, req[p].id)
    /\ UNCHANGED <<acked, cut>>

(* Mutant: the files go first and the row is left for later.               *)
DeleteFilesFirst(p) ==
    /\ req[p].at = "delete"
    /\ IF Effect(p) # db
         THEN Goto(p, "file") /\ Files!Delete(p, req[p].id)
         ELSE Reply(p) /\ UNCHANGED files
    /\ UNCHANGED <<db, history>>

(* DELETE FROM images, of the owner or of an administrator; 404 if no row  *)
(* was affected.                                                           *)
DeleteRow(p) ==
    /\ Send(p, "delete")
    /\ IF db' # db
         THEN Goto(p, "file") /\ Files!Delete(p, req[p].id)
         ELSE Reply(p) /\ UNCHANGED files
    /\ UNCHANGED <<acked, cut>>

(* 200, whether or not the files could be removed.                         *)
Deleted(p) ==
    /\ req[p].op \in {"delete", "adminDeleteImage"} /\ req[p].at = "file"
    /\ Files!Return(p)
    /\ Reply(p)
    /\ acked' = [acked EXCEPT ![req[p].id] = @ + 1]
    /\ UNCHANGED <<db, owned, cut>>

Update(p) ==
    /\ Send(p, "update")
    /\ Reply(p)
    /\ UNCHANGED <<files, acked, cut>>

-----------------------------------------------------------------------------
(* AdminDeleteUser, AdminReassignImage, AdminReassignAll.                  *)

ListImages(p) ==
    /\ Send(p, "list")
    /\ req' = [req EXCEPT ![p].at = "dropuser",
                          ![p].todo = DB!ListImageIDsByOwner(db, req[p].user)]
    /\ UNCHANGED <<files, acked, cut>>

(* Mutant: the files are removed first and the user afterwards.            *)
DropUserLate(p) ==
    /\ req[p].at = "dropuser"
    /\ IF req[p].user \in db.users THEN Goto(p, "files") ELSE Reply(p)
    /\ UNCHANGED <<db, files, history>>

DropUser(p) ==
    /\ Send(p, "dropuser")
    /\ IF req[p].user \in db.users THEN Goto(p, "files") ELSE Reply(p)
    /\ UNCHANGED <<files, acked, cut>>

RemoveNext(p, i) ==
    /\ req[p].at = "files"
    /\ i \in req[p].todo
    /\ Files!Delete(p, i)
    /\ req' = [req EXCEPT ![p].todo = @ \ {i}]
    /\ UNCHANGED <<db, history>>

Removed(p) ==
    /\ req[p].at = "files"
    /\ Files!Return(p)
    /\ UNCHANGED <<db, req, history>>

UserDeleted(p) ==
    /\ req[p].at = "files" /\ req[p].todo = {} /\ call[p] = Files!Idle
    /\ Reply(p)
    /\ UNCHANGED <<db, files, history>>

(* The images that AdminDeleteUser has on its list and that d gives to     *)
(* another user.                                                           *)
Overtaken(d) ==
    {i \in Ids : /\ DB!Exists(db, i) /\ DB!Exists(d, i)
                 /\ d.images[i].owner # db.images[i].owner
                 /\ \E p \in Requests : i \in req[p].todo}

GetTarget(p) ==
    /\ Send(p, "target")
    /\ IF req[p].to \in db.users THEN Goto(p, "reassign") ELSE Reply(p)
    /\ UNCHANGED <<files, acked, cut>>

Reassign(p) ==
    /\ Send(p, "reassign")
    /\ cut' = cut \cup Overtaken(Effect(p))
    /\ Reply(p)
    /\ UNCHANGED <<files, acked>>

-----------------------------------------------------------------------------
(* Package storage at work, and what can go wrong.                         *)

Store(p) ==
    /\ Files!Work(p)
    /\ UNCHANGED <<db, req, history>>

DiskError(p) ==
    /\ "disk" \in Faults
    /\ Files!Miss(p) \/ Files!Fail(p)
    /\ UNCHANGED <<db, req, history>>

(* A statement reports an error, because the server is busy or gone or     *)
(* because the client is and r.Context() with it; the database may have    *)
(* run it all the same. Every handler then gives up, with no retry.        *)
DBError(p) ==
    /\ "db" \in Faults
    /\ req[p].at \notin {"idle", "insert", "file", "files"}
    /\ \E d \in {db, Effect(p)} :
          /\ SetDB(d)
          /\ cut' = cut \cup Overtaken(d)
                        \cup {i \in Ids : req[p].at = "undo" /\ i = req[p].id /\ DB!Exists(d, i)}
    /\ Reply(p)
    /\ UNCHANGED <<files, acked>>

(* Mutant: any error of the statement is taken for a collision.            *)
InsertLostRetries(p, i) ==
    /\ "db" \in Faults
    /\ req[p].at = "insert"
    /\ Drawable(i)
    /\ SetDB(DB!InsertImage(db, i, req[p].user))
    /\ IF req[p].tries + 1 < maxIDRetries
         THEN req' = [req EXCEPT ![p].tries = @ + 1, ![p].id = i]
         ELSE Reply(p)
    /\ UNCHANGED <<files, acked, cut>>

InsertLost(p, i) ==
    /\ "db" \in Faults
    /\ req[p].at = "insert"
    /\ Drawable(i)
    /\ \E d \in {db, DB!InsertImage(db, i, req[p].user)} :
          /\ SetDB(d)
          /\ cut' = IF d # db THEN cut \cup {i} ELSE cut
    /\ Reply(p)
    /\ UNCHANGED <<files, acked>>

Uploading(p, i) ==
    req[p].op = "upload" /\ req[p].at \in {"file", "undo"} /\ req[p].id = i

Crash ==
    /\ "crash" \in Faults
    /\ Files!Crash
    /\ req' = [p \in Requests |-> IdleReq]
    /\ cut' = cut \cup {i \in Ids : DB!Exists(db, i) /\ \E p \in Requests : Uploading(p, i)}
    /\ UNCHANGED <<db, owned, acked>>

Restart ==
    /\ Files!Restart
    /\ UNCHANGED <<db, req, history>>

-----------------------------------------------------------------------------

Arrive(p) ==
    \/ \E u \in Users : ArriveUser(p, u) \/ ArriveAdminUser(p, u)
    \/ \E i \in Ids : ArriveAdminImage(p, i) \/ \E u \in Users : ArriveImage(p, u, i)

Serve(p) ==
    \/ Upsert(p) \/ UploadSaved(p) \/ Undo(p)
    \/ \E i \in Ids : Inserted(p, i) \/ Collided(p, i) \/ InsertRefused(p, i)
    \/ AnnotateGet(p) \/ AnnotateSaved(p)
    \/ DeleteGet(p) \/ DeleteRow(p) \/ Deleted(p) \/ Update(p)
    \/ ListImages(p) \/ DropUser(p) \/ Removed(p) \/ UserDeleted(p)
    \/ \E i \in Ids : RemoveNext(p, i)
    \/ GetTarget(p) \/ Reassign(p)
    \/ Store(p)

Fault(p) == DiskError(p) \/ DBError(p) \/ \E i \in Ids : InsertLost(p, i)

Next ==
    \/ \E p \in Requests : Arrive(p) \/ Serve(p) \/ Fault(p)
    \/ Crash \/ Restart

Spec == Init /\ [][Next]_vars

(* Statements and file operations come back and goroutines get to run.     *)
Fairness == \A p \in Requests : WF_vars(Serve(p))

LiveSpec == Spec /\ Fairness

-----------------------------------------------------------------------------
(* Every image belongs to a user who exists, although a user can be        *)
(* deleted between two statements of a request that is about to give them  *)
(* an image: no interleaving gets around the foreign key.                  *)
(* (Upload and the reassignments against AdminDeleteUser.)                 *)
OwnerExists ==
    \A i \in Ids : DB!Exists(db, i) => db.images[i].owner \in db.users

(* An image that has a row has both its files, unless its upload is still  *)
(* under way, or lost the database or the process half-way, or found its   *)
(* image reassigned when it had to take its row back, or the image left a  *)
(* user whose images were listed for deletion: in all other cases a failed *)
(* write takes its row back, and deletions take the row before the files.  *)
(* (Upload's order of row and files and its undo; Delete's comment         *)
(* "Delete from DB first".)                                                *)
RowHasFiles ==
    \A i \in Ids :
        DB!Exists(db, i) /\ (img[i] = None \/ thumb[i] = None) =>
            i \in cut \/ \E p \in Requests : Uploading(p, i)

(* The picture and the title of an image were written by someone who owned *)
(* it, whoever owns it now. (The owner checks of Annotate and Update, and  *)
(* the time between Annotate's check and its write.)                       *)
WrittenByOwner ==
    \A i \in Ids :
        /\ {img[i], thumb[i]} \subseteq owned[i] \cup {None}
        /\ DB!Exists(db, i) => db.images[i].title \in owned[i] \cup {None}

(* However many requests delete an image at the same time, only one is     *)
(* told that it did. (The deleted flag of DeleteImage, AdminDeleteImage.)  *)
DeletedOnce == \A i \in Ids : acked[i] <= 1

(* A file is only removed when the database has no row for it any more.    *)
(* (Delete, AdminDeleteImage, and AdminDeleteUser's list of ids that it    *)
(* made before the user's images were deleted.)                            *)
RemovesOnlyUnrecorded ==
    [][\A i \in Ids :
          \/ img[i] # None /\ img'[i] = None
          \/ thumb[i] # None /\ thumb'[i] = None
          => ~DB!Exists(db, i)]_vars

(* Every request is answered, unless the process ends first: the retries   *)
(* of Upload and the loop of AdminDeleteUser come to an end.               *)
RequestsAnswered ==
    \A p \in Requests : req[p].at # "idle" ~> req[p].at = "idle"
=============================================================================
