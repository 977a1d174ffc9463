------------------------------- MODULE Storage -------------------------------
(***************************************************************************)
(* Package storage (internal/storage/storage.go), one step per system call *)
(* that another goroutine, or a crash, can tell from its neighbours:       *)
(*                                                                         *)
(*   SaveNew: Lstat ----------+                                            *)
(*   Save:    read, validate -+-> wait for decodeSem -> decode and scale   *)
(*     -> thumbnail to a temporary file -> image to a temporary file       *)
(*     -> rename the image -> rename the thumbnail                         *)
(*   Delete:  remove the image -> remove the thumbnail                     *)
(*   New:     remove the temporary files of the previous process           *)
(***************************************************************************)
EXTENDS Naturals, FiniteSets

CONSTANTS
    Ids,         \* image ids
    Bodies,      \* what a client can send
    Invalid,     \* bodies that ValidatePNG rejects
    Corrupt,     \* bodies that ValidatePNG accepts and png.Decode rejects
    Calls,       \* the goroutines that call the store
    MaxDecodes,  \* capacity of decodeSem: GOMAXPROCS, at least 1 and at most 4
    Faults,      \* what may go wrong: "io" error, process "kill", "power" loss
    None

ASSUME BodiesAssumption == Invalid \subseteq Bodies /\ Corrupt \subseteq Bodies
ASSUME CallsAssumption  == IsFiniteSet(Calls)
ASSUME DecodeAssumption == MaxDecodes \in 1..4

VARIABLES
    file,   \* file[k][i]: what is at imagePath(i) or thumbPath(i), or None
    tmp,    \* tmp[p][k]: the temporary file of that kind p made, or None
    call,   \* call[p]: the call p is in and the system call it is about to make
    slots,  \* number of elements in the channel decodeSem
    up,     \* "down", "starting" (in New) or "serving"
    stray,  \* the kinds of temporary files left on disk that New has to remove
    kept    \* those left there by a file system that would not list or remove
            \* them; the next start tries again

temps == <<tmp, stray, kept>>
vars  == <<file, temps, call, slots, up>>

Kinds == {"image", "thumb"}

(* A file is empty or torn ("partial"), complete in the page cache only,   *)
(* or on disk. A thumbnail holds the body it was made from.                *)
Content == [body : Bodies, state : {"partial", "cached", "synced"}]

ASSUME NoneAssumption == None \notin Ids \cup Bodies \cup Content

Writing  == {"create", "fill", "sync", "install"}
Deleting == {"rmimage", "rmthumb"}
Active   == {"lstat", "read", "acquire", "decode"} \cup Writing \cup Deleting
Returned == {"ok", "collision", "failed"}

(* kind: which of the two files a Writing step is about.                   *)
CallState == [at   : {"idle"} \cup Active \cup Returned,
              kind : Kinds,
              id   : Ids \cup {None},
              body : Bodies \cup {None}]

Idle  == [at |-> "idle", kind |-> "thumb", id |-> None, body |-> None]
NoTmp == [k \in Kinds |-> None]

TypeOK ==
    /\ file  \in [Kinds -> [Ids -> Content \cup {None}]]
    /\ tmp   \in [Calls -> [Kinds -> Content \cup {None}]]
    /\ call  \in [Calls -> CallState]
    /\ slots \in Nat
    /\ up    \in {"down", "starting", "serving"}
    /\ stray \subseteq Kinds /\ kept \subseteq Kinds

Init ==
    /\ file  = [k \in Kinds |-> [i \in Ids |-> None]]
    /\ tmp   = [p \in Calls |-> NoTmp]
    /\ call  = [p \in Calls |-> Idle]
    /\ slots = 0
    /\ up    = "down"
    /\ stray = {} /\ kept = {}

Running(p) == call[p].at \in Active

Goto(p, at)       == call' = [call EXCEPT ![p].at = at]
GotoFor(p, at, k) == call' = [call EXCEPT ![p].at = at, ![p].kind = k]

-----------------------------------------------------------------------------
(* Calls and returns.                                                      *)

Begin(p, at, i, b) ==
    /\ up = "serving"
    /\ call[p] = Idle
    /\ call' = [call EXCEPT ![p] = [Idle EXCEPT !.at = at, !.id = i, !.body = b]]
    /\ UNCHANGED <<file, temps, slots, up>>

(* The caller has run ValidatePNG on what it gives to SaveNew.             *)
SaveNew(p, i, b) == b \notin Invalid /\ Begin(p, "lstat", i, b)
Save(p, i, b)    == Begin(p, "read", i, b)
Delete(p, i)     == Begin(p, "rmimage", i, None)

Return(p) ==
    /\ call[p].at \in Returned
    /\ call' = [call EXCEPT ![p] = Idle]
    /\ UNCHANGED <<file, temps, slots, up>>

-----------------------------------------------------------------------------
(* SaveNew and Save, up to the thumbnail in memory.                        *)

(* Any error of Lstat, not only that there is no file, lets SaveNew go on. *)
Lstat(p) ==
    /\ call[p].at = "lstat"
    /\ \/ file["image"][call[p].id] # None /\ Goto(p, "collision")
       \/ (file["image"][call[p].id] = None \/ "io" \in Faults) /\ Goto(p, "acquire")
    /\ UNCHANGED <<file, temps, slots, up>>

Read(p) ==
    /\ call[p].at = "read"
    /\ Goto(p, IF call[p].body \in Invalid THEN "failed" ELSE "acquire")
    /\ UNCHANGED <<file, temps, slots, up>>

(* Mutant: the channel has one place less.                                 *)
AcquireOneLess(p) ==
    /\ call[p].at = "acquire"
    /\ slots + 1 < MaxDecodes
    /\ slots' = slots + 1
    /\ Goto(p, "decode")
    /\ UNCHANGED <<file, temps, up>>

Acquire(p) ==
    /\ call[p].at = "acquire"
    /\ slots < MaxDecodes
    /\ slots' = slots + 1
    /\ Goto(p, "decode")
    /\ UNCHANGED <<file, temps, up>>

(* Mutants: the slot is given back only after a successful decode, or once *)
(* more on the error path.                                                 *)
DecodeLeaks(p) ==
    /\ call[p].at = "decode"
    /\ IF call[p].body \in Corrupt
         THEN Goto(p, "failed") /\ UNCHANGED slots
         ELSE GotoFor(p, "create", "thumb") /\ slots' = slots - 1
    /\ UNCHANGED <<file, temps, up>>

DecodeReleasesTwice(p) ==
    /\ call[p].at = "decode"
    /\ IF call[p].body \in Corrupt
         THEN Goto(p, "failed") /\ slots' = slots - 2
         ELSE GotoFor(p, "create", "thumb") /\ slots' = slots - 1
    /\ UNCHANGED <<file, temps, up>>

Decode(p) ==
    /\ call[p].at = "decode"
    /\ slots' = slots - 1
    /\ IF call[p].body \in Corrupt THEN Goto(p, "failed")
                                   ELSE GotoFor(p, "create", "thumb")
    /\ UNCHANGED <<file, temps, up>>

-----------------------------------------------------------------------------
(* writeTemp, for the thumbnail and then for the image, and the renames,   *)
(* of the image and then of the thumbnail.                                 *)

SetTmp(p, c) ==
    /\ tmp' = [tmp EXCEPT ![p][call[p].kind] = c]
    /\ UNCHANGED <<stray, kept>>

WriteState(p, s) == SetTmp(p, [body |-> call[p].body, state |-> s])

Create(p) ==
    /\ call[p].at = "create"
    /\ WriteState(p, "partial")
    /\ Goto(p, "fill")
    /\ UNCHANGED <<file, slots, up>>

Fill(p) ==
    /\ call[p].at = "fill"
    /\ WriteState(p, "cached")
    /\ Goto(p, "sync")
    /\ UNCHANGED <<file, slots, up>>

(* Mutant: the file is closed without a Sync.                              *)
SyncSkipped(p) ==
    /\ call[p].at = "sync"
    /\ GotoFor(p, IF call[p].kind = "thumb" THEN "create" ELSE "install", "image")
    /\ UNCHANGED <<file, temps, slots, up>>

Sync(p) ==
    /\ call[p].at = "sync"
    /\ WriteState(p, "synced")
    /\ GotoFor(p, IF call[p].kind = "thumb" THEN "create" ELSE "install", "image")
    /\ UNCHANGED <<file, slots, up>>

Install(p) ==
    /\ call[p].at = "install"
    /\ file' = [file EXCEPT ![call[p].kind][call[p].id] = tmp[p][call[p].kind]]
    /\ SetTmp(p, None)
    /\ GotoFor(p, IF call[p].kind = "image" THEN "install" ELSE "ok", "thumb")
    /\ UNCHANGED <<slots, up>>

-----------------------------------------------------------------------------
(* Delete; a file that is not there counts as removed.                     *)

RemoveImage(p) ==
    /\ call[p].at = "rmimage"
    /\ file' = [file EXCEPT !["image"][call[p].id] = None]
    /\ Goto(p, "rmthumb")
    /\ UNCHANGED <<temps, slots, up>>

RemoveThumb(p) ==
    /\ call[p].at = "rmthumb"
    /\ file' = [file EXCEPT !["thumb"][call[p].id] = None]
    /\ Goto(p, "ok")
    /\ UNCHANGED <<temps, slots, up>>

(* Mutants: an error path leaves the temporary files where they are; when  *)
(* the thumbnail cannot be renamed the image is taken away again.          *)
FailLeavesTemps(p) ==
    /\ "io" \in Faults
    /\ call[p].at \in {"read"} \cup Writing \cup Deleting
    /\ Goto(p, "failed")
    /\ UNCHANGED <<file, temps, slots, up>>

FailUndoes(p) ==
    /\ "io" \in Faults
    /\ call[p].at \in {"read"} \cup Writing \cup Deleting
    /\ tmp' = [tmp EXCEPT ![p] = NoTmp]
    /\ file' = IF call[p].at = "install" /\ call[p].kind = "thumb"
                 THEN [file EXCEPT !["image"][call[p].id] = None] ELSE file
    /\ Goto(p, "failed")
    /\ UNCHANGED <<stray, kept, slots, up>>

(* A read, write, sync, rename or removal returns an error; the deferred   *)
(* os.Remove calls take the call's temporary files away, unless they get   *)
(* an error too, which nobody looks at.                                    *)
Fail(p) ==
    /\ "io" \in Faults
    /\ call[p].at \in {"read"} \cup Writing \cup Deleting
    /\ \E S \in SUBSET {k \in Kinds : tmp[p][k] # None} : kept' = kept \cup S
    /\ tmp' = [tmp EXCEPT ![p] = NoTmp]
    /\ Goto(p, "failed")
    /\ UNCHANGED <<file, stray, slots, up>>

Step(p) == \/ Lstat(p)       \/ Read(p)  \/ Decode(p)
           \/ Create(p)      \/ Fill(p)  \/ Sync(p)  \/ Install(p)
           \/ RemoveImage(p) \/ RemoveThumb(p)
           \/ Fail(p)

-----------------------------------------------------------------------------
(* The process and the machine.                                            *)

Stop ==
    /\ up # "down"
    /\ up' = "down"
    /\ call' = [p \in Calls |-> Idle]
    /\ slots' = 0
    /\ tmp' = [p \in Calls |-> NoTmp]
    /\ stray' = stray \cup {k \in Kinds : \E p \in Calls : tmp[p][k] # None}
    /\ UNCHANGED kept

Kill ==
    /\ "kill" \in Faults
    /\ Stop
    /\ UNCHANGED file

(* What was not synced is torn; renames and removals are journalled.       *)
Torn(c) == IF c = None \/ c.state = "synced" THEN c
                                             ELSE [c EXCEPT !.state = "partial"]

PowerLoss ==
    /\ "power" \in Faults
    /\ Stop
    /\ file' = [k \in Kinds |-> [i \in Ids |-> Torn(file[k][i])]]

Start ==
    /\ up = "down"
    /\ up' = "starting"
    /\ stray' = stray \cup kept
    /\ kept' = {}
    /\ UNCHANGED <<file, tmp, call, slots>>

(* removeStaleTemps, the last file of a directory.                         *)
RemoveStale(k) ==
    /\ up = "starting"
    /\ k \in stray
    /\ stray' = stray \ {k}
    /\ UNCHANGED <<file, tmp, kept, call, slots, up>>

(* Glob takes a directory that it cannot read for an empty one.            *)
Overlook(k) ==
    /\ "io" \in Faults
    /\ up = "starting"
    /\ k \in stray
    /\ stray' = stray \ {k}
    /\ kept'  = kept \cup {k}
    /\ UNCHANGED <<file, tmp, call, slots, up>>

(* removeStaleTemps stops at the first file it cannot remove; New fails    *)
(* and the process exits.                                                  *)
StartFail ==
    /\ "io" \in Faults
    /\ up = "starting"
    /\ up' = "down"
    /\ UNCHANGED <<file, temps, call, slots>>

Serve ==
    /\ up = "starting"
    /\ stray = {}
    /\ up' = "serving"
    /\ UNCHANGED <<file, temps, call, slots>>

Next ==
    \/ \E p \in Calls :
          \/ \E i \in Ids, b \in Bodies : SaveNew(p, i, b) \/ Save(p, i, b)
          \/ \E i \in Ids : Delete(p, i)
          \/ Return(p)
          \/ Acquire(p)
          \/ Step(p)
    \/ \E k \in Kinds : RemoveStale(k) \/ Overlook(k)
    \/ Kill \/ PowerLoss
    \/ Start \/ StartFail \/ Serve

Spec == Init /\ [][Next]_vars

(* The Go scheduler runs every goroutine that can run, and goroutines      *)
(* blocked sending on a channel are served first come first served.        *)
Fairness == \A p \in Calls : WF_vars(Step(p)) /\ SF_vars(Acquire(p))

LiveSpec == Spec /\ Fairness

-----------------------------------------------------------------------------
(* Whatever is at a path that is served is a complete copy, on disk, of a  *)
(* body that decodes: errors, crashes and power losses never leave a part  *)
(* of a file, and no upload that png.Decode rejects replaces a good one.   *)
(* (write: temporary files, Sync before Rename, decode first.)             *)
FilesComplete ==
    \A k \in Kinds, i \in Ids :
        file[k][i] # None => /\ file[k][i].state = "synced"
                             /\ file[k][i].body \notin Invalid \cup Corrupt

(* While the server runs, a temporary file is the one an active write will *)
(* rename or remove: error paths clean up after themselves and New cleans  *)
(* up after a crash, so temporary files never pile up but where the file   *)
(* system refused to list or to remove one.                                *)
(* (the defers of write and writeTemp, removeStaleTemps.)                  *)
Owns(p, k) ==
    IF call[p].kind = "image"
      THEN call[p].at \in IF k = "thumb" THEN Writing ELSE Writing \ {"create"}
      ELSE k = "thumb" /\ call[p].at \in Writing \ {"create"}

TempsOwned ==
    up = "serving" =>
        /\ stray = {}
        /\ \A p \in Calls, k \in Kinds : tmp[p][k] # None => Owns(p, k)

(* A slot of decodeSem is taken by a call that is decoding and by no other *)
(* one: every way out of the decode gives the slot back once, so the       *)
(* channel neither leaks slots nor lets more than MaxDecodes calls in.     *)
(* (writeThumbTemp.)                                                       *)
Decoding == {p \in Calls : call[p].at = "decode"}

SlotsExact == slots = Cardinality(Decoding) /\ slots <= MaxDecodes

(* Every call comes to an end, also when more calls than decodeSem admits  *)
(* are waiting for it and uploads keep coming. (writeThumbTemp, write.)    *)
CallsReturn == \A p \in Calls : Running(p) ~> ~Running(p)

(* When no call is running, the image and the thumbnail of an id are made  *)
(* from the same body. (write's comment: "atomically installs data as the  *)
(* image for id together with a freshly generated thumbnail".)             *)
PairsMatch ==
    (\A p \in Calls : ~Running(p)) =>
        \A i \in Ids : (file["image"][i] # None /\ file["thumb"][i] # None) =>
            file["image"][i].body = file["thumb"][i].body

-----------------------------------------------------------------------------
(* The store as its callers see it.                                        *)

Stage(c) ==
    CASE c.at = "lstat"                                           -> "check"
      [] c.at \in {"idle"} \cup Deleting \cup Returned            -> c.at
      [] c.at = "install" /\ c.kind = "thumb"                     -> "thumb"
      [] OTHER                                                    -> "prepare"

(* What a reader of the path gets; a file that is not whole is no body.    *)
Seen(c) == IF c = None THEN None
           ELSE IF c.state = "synced" THEN c.body ELSE "torn"

SeenFiles(k) == [i \in Ids |-> Seen(file[k][i])]

SeenCall(c) == [at |-> Stage(c), id |-> c.id, body |-> c.body]

SeenCalls == [p \in Calls |-> SeenCall(call[p])]

Promise == INSTANCE FileStore WITH
    img   <- SeenFiles("image"),
    thumb <- SeenFiles("thumb"),
    call  <- SeenCalls,
    up    <- up = "serving"

(* The package does what FileStore says: each of its two renames and two   *)
(* removals takes effect at once and whole, and nothing else a call or a   *)
(* crash does can be seen in the served files.                             *)
ImplementsFileStore == Promise!Spec
=============================================================================
