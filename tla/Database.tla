------------------------------ MODULE Database ------------------------------
(***************************************************************************)
(* The two tables of internal/db (db.go and migrations) and the statements *)
(* the handlers run on them. A statement is atomic: db.go sends each one   *)
(* on its own, outside any transaction, and both engines run a single      *)
(* statement, cascade and constraint checks included, as a whole.          *)
(*                                                                         *)
(* A database is a record of the users and, for each image id, its row or  *)
(* None. An operator named after a statement gives the database after it;  *)
(* what the method reports is told by the condition next to it.            *)
(***************************************************************************)
CONSTANTS
    Ids,      \* image ids
    Users,    \* e-mail addresses; a title is represented by who set it
    Backend,  \* database.backend: "sqlite" or "postgres"
    None      \* no row, no title

Row == [owner : Users, title : Users \cup {None}]

Databases == [users : SUBSET Users, images : [Ids -> Row \cup {None}]]

EmptyDB == [users |-> {}, images |-> [i \in Ids |-> None]]

Exists(d, i)   == d.images[i] # None
OwnedBy(d, i, u) == Exists(d, i) /\ d.images[i].owner = u

SetRow(d, i, row) == [d EXCEPT !.images[i] = row]

-----------------------------------------------------------------------------
(* users                                                                   *)

UpsertUser(d, u) == [d EXCEPT !.users = @ \cup {u}]

(* DELETE FROM users; images go with their owner (ON DELETE CASCADE).      *)
DeleteUser(d, u) ==
    [users  |-> d.users \ {u},
     images |-> [i \in Ids |-> IF OwnedBy(d, i, u) THEN None ELSE d.images[i]]]

ListImageIDsByOwner(d, u) == {i \in Ids : OwnedBy(d, i, u)}

-----------------------------------------------------------------------------
(* images                                                                  *)

(* Mutant: a schema without the foreign key.                               *)
InsertUnreferenced(d, i, u) == IF Exists(d, i) THEN "duplicate" ELSE "ok"

(* The primary key is taken, or the owner does not exist. SQLite reports   *)
(* both as ErrConstraint, which isDuplicateKeyErr takes for the first.     *)
InsertResult(d, i, u) ==
    CASE Exists(d, i)                                  -> "duplicate"
      [] ~Exists(d, i) /\ u \in d.users                -> "ok"
      [] ~Exists(d, i) /\ u \notin d.users             ->
            IF Backend = "sqlite" THEN "duplicate" ELSE "error"

InsertImage(d, i, u) ==
    IF InsertResult(d, i, u) = "ok"
      THEN SetRow(d, i, [owner |-> u, title |-> None])
      ELSE d

(* UPDATE and DELETE of the caller's own image.                            *)
UpdateImage(d, i, u, title) ==
    IF OwnedBy(d, i, u) THEN SetRow(d, i, [owner |-> u, title |-> title]) ELSE d

DeleteImage(d, i, u) == IF OwnedBy(d, i, u) THEN SetRow(d, i, None) ELSE d

(* DELETE and UPDATE by an administrator. A row that moves to a user who   *)
(* does not exist violates the foreign key, and none moves.                *)
AdminDeleteImage(d, i) == SetRow(d, i, None)

MoveTo(d, S, u) ==
    IF u \in d.users
      THEN [d EXCEPT !.images = [i \in Ids |->
               IF i \in S THEN [d.images[i] EXCEPT !.owner = u] ELSE d.images[i]]]
      ELSE d

ReassignImage(d, i, u) == IF Exists(d, i) THEN MoveTo(d, {i}, u) ELSE d

ReassignAllImages(d, from, to) == MoveTo(d, ListImageIDsByOwner(d, from), to)
=============================================================================
