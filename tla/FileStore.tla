------------------------------ MODULE FileStore ------------------------------
(***************************************************************************)
(* What package storage (internal/storage/storage.go) promises to the      *)
(* handlers that call it: every image id has two files, the image and its  *)
(* thumbnail, each of which is only ever replaced or removed as a whole.   *)
(* A call moves through the few points where another caller, or a crash,   *)
(* can see its effect; temporary files, the decode semaphore and syncing   *)
(* are hidden.  Module Storage refines this one; module Handlers is built  *)
(* on it.                                                                  *)
(***************************************************************************)
CONSTANTS
    Ids,     \* image ids
    Bodies,  \* contents: a file holds a body, a thumbnail the body it shows
    Calls,   \* the goroutines that call the store
    None     \* no file, no argument

VARIABLES
    img,     \* img[i]: the body in <base>/<i>.png, or None
    thumb,   \* thumb[i]: the body <base>/thumbs/<i>.png was made from, or None
    call,    \* call[p]: the call goroutine p has made and where it stands
    up       \* the process is serving

vars == <<img, thumb, call, up>>

(* "check": SaveNew is to look for a file; "prepare": nothing visible done *)
(* yet; "thumb": the image is in place, its thumbnail is not.              *)
Saving   == {"check", "prepare", "thumb"}
Deleting == {"rmimage", "rmthumb"}
Returned == {"ok", "collision", "failed"}

Idle == [at |-> "idle", id |-> None, body |-> None]

CallState == [at   : {"idle"} \cup Saving \cup Deleting \cup Returned,
              id   : Ids \cup {None},
              body : Bodies \cup {None}]

TypeOK ==
    /\ img   \in [Ids -> Bodies \cup {None}]
    /\ thumb \in [Ids -> Bodies \cup {None}]
    /\ call  \in [Calls -> CallState]
    /\ up    \in BOOLEAN

Init ==
    /\ img   = [i \in Ids |-> None]
    /\ thumb = [i \in Ids |-> None]
    /\ call  = [p \in Calls |-> Idle]
    /\ up    = FALSE

Running(p) == call[p].at \in Saving \cup Deleting

-----------------------------------------------------------------------------
(* Calls and returns; the callers' side of the interface.                  *)

Begin(p, at, i, b) ==
    /\ up
    /\ call[p] = Idle
    /\ call' = [call EXCEPT ![p] = [at |-> at, id |-> i, body |-> b]]
    /\ UNCHANGED <<img, thumb, up>>

SaveNew(p, i, b) == Begin(p, "check", i, b)
Save(p, i, b)    == Begin(p, "prepare", i, b)
Delete(p, i)     == Begin(p, "rmimage", i, None)

Return(p) ==
    /\ call[p].at \in Returned
    /\ call' = [call EXCEPT ![p] = Idle]
    /\ UNCHANGED <<img, thumb, up>>

-----------------------------------------------------------------------------
(* The store's side.                                                       *)

Goto(p, at) == call' = [call EXCEPT ![p].at = at]

Check(p) ==
    /\ call[p].at = "check"
    /\ Goto(p, IF img[call[p].id] = None THEN "prepare" ELSE "collision")
    /\ UNCHANGED <<img, thumb, up>>

(* The look for a file fails, and counts as none.                          *)
Miss(p) ==
    /\ call[p].at = "check"
    /\ Goto(p, "prepare")
    /\ UNCHANGED <<img, thumb, up>>

InstallImage(p) ==
    /\ call[p].at = "prepare"
    /\ img' = [img EXCEPT ![call[p].id] = call[p].body]
    /\ Goto(p, "thumb")
    /\ UNCHANGED <<thumb, up>>

InstallThumb(p) ==
    /\ call[p].at = "thumb"
    /\ thumb' = [thumb EXCEPT ![call[p].id] = call[p].body]
    /\ Goto(p, "ok")
    /\ UNCHANGED <<img, up>>

RemoveImage(p) ==
    /\ call[p].at = "rmimage"
    /\ img' = [img EXCEPT ![call[p].id] = None]
    /\ Goto(p, "rmthumb")
    /\ UNCHANGED <<thumb, up>>

RemoveThumb(p) ==
    /\ call[p].at = "rmthumb"
    /\ thumb' = [thumb EXCEPT ![call[p].id] = None]
    /\ Goto(p, "ok")
    /\ UNCHANGED <<img, up>>

(* A body that does not decode, a full disk, a refused removal.            *)
Fail(p) ==
    /\ call[p].at \in (Saving \cup Deleting) \ {"check"}
    /\ Goto(p, "failed")
    /\ UNCHANGED <<img, thumb, up>>

Work(p) == \/ Check(p)
           \/ InstallImage(p) \/ InstallThumb(p)
           \/ RemoveImage(p)  \/ RemoveThumb(p)

Step(p) == Work(p) \/ Miss(p) \/ Fail(p)

(* A crash ends every call where it stands and leaves the files alone.     *)
Crash ==
    /\ up
    /\ up' = FALSE
    /\ call' = [p \in Calls |-> Idle]
    /\ UNCHANGED <<img, thumb>>

Restart ==
    /\ ~up
    /\ up' = TRUE
    /\ UNCHANGED <<img, thumb, call>>

Next ==
    \/ \E p \in Calls :
          \/ \E i \in Ids, b \in Bodies : SaveNew(p, i, b) \/ Save(p, i, b)
          \/ \E i \in Ids : Delete(p, i)
          \/ Return(p)
          \/ Step(p)
    \/ Crash
    \/ Restart

Spec == Init /\ [][Next]_vars
=============================================================================
