------------------------------- MODULE Editor -------------------------------
(***************************************************************************)
(* The annotation editor of the view page (view.html): the drawing on the  *)
(* canvas, the undo history, the delayed upload of the current snapshot,   *)
(* and what the page's other actions need of it. A callback of the browser *)
(* is one step; promises that follow one another without waiting run in    *)
(* the same step. The toolbar works from the start, before the image has   *)
(* loaded too, and nothing in the code waits for it.                       *)
(*                                                                         *)
(* The server answers POST /{id}/annotate, POSTs whose answer the network  *)
(* lost included, in any order (Handlers models how).                      *)
(***************************************************************************)
EXTENDS Naturals, Sequences, FiniteSets

CONSTANTS
    Saves,        \* calls of save(), one per submission of the title form
    Gestures,     \* what the user does besides drawing, undoing and redoing:
                  \* draw "early", before the image is there, "type" text,
                  \* "delete" the image
    MaxDrawn,     \* what the user draws (bound of the model)
    MaxLost,      \* uploads under way at a time that the page gave up (bound)
    None

ASSUME BoundAssumption == MaxDrawn \in Nat /\ MaxLost \in Nat

VARIABLES
    drawn,        \* how often the user changed the drawing; numbers drawings
    shown,        \* the drawing that is on the canvas
    typing,       \* a text on the canvas is being edited and has changed
    background,   \* the image is on the canvas
    history, historyIndex, revCounter,
    savedRev,
    saveTimer,    \* the timer is set
    uploading,
    status,       \* what the page shows: "hidden", "saving", "saved", "failed"
    leaving,
    saveWaiters,
    promise,      \* promise[w]: what became of save() number w
    posts,        \* uploads that run, and those given up that the server may have
    server,       \* the drawing that the server holds, None once deleted
    deletion,     \* of the DELETE request
    page,         \* "open", or how the user left it
    reported,     \* history: the server has the drawing of an upload that the page
                  \* reported as failed
    taken,        \* history: savedRev is that of a drawing which the server never
                  \* got, and which initCanvas takes for the image it loaded
    astray        \* history: the canvas does not show the current snapshot, since
                  \* initCanvas set historyIndex, or undo and redo ended a text

canvas == <<drawn, shown, typing, background, history, historyIndex, revCounter>>
saving == <<savedRev, saveTimer, uploading, status, saveWaiters, promise, taken>>
client == <<canvas, astray, saving, leaving>>
vars   == <<client, posts, server, reported, deletion, page>>

Drawings == 0..MaxDrawn
Snapshot == [rev : Nat, objects : Drawings]
Post     == [snap : Snapshot, at : {"rendering", "sent", "applied", "refused"},
             givenUp : BOOLEAN]

TypeOK ==
    /\ drawn \in Drawings /\ shown \in Drawings
    /\ typing \in BOOLEAN /\ background \in BOOLEAN
    /\ history \in Seq(Snapshot) /\ historyIndex \in 0..Len(history)
    /\ revCounter \in Nat /\ savedRev \in Nat
    /\ saveTimer \in BOOLEAN /\ uploading \in BOOLEAN /\ leaving \in BOOLEAN
    /\ status \in {"hidden", "saving", "saved", "failed"}
    /\ saveWaiters \subseteq Saves
    /\ promise \in [Saves -> {"none", "pending", "resolved", "rejected"}]
    /\ posts \subseteq Post
    /\ server \in Drawings \cup {None}
    /\ deletion \in {"none", "sent", "failed"}
    /\ page \in {"open", "left", "leftWarned"}
    /\ reported \in BOOLEAN /\ taken \in BOOLEAN /\ astray \in BOOLEAN

(* The page as served: the image is not loaded, there is no history.       *)
Init ==
    /\ drawn = 0 /\ shown = 0 /\ typing = FALSE /\ background = FALSE
    /\ history = << >> /\ historyIndex = 0 /\ revCounter = 0 /\ savedRev = 0
    /\ saveTimer = FALSE /\ uploading = FALSE /\ leaving = FALSE
    /\ status = "hidden"
    /\ saveWaiters = {} /\ promise = [w \in Saves |-> "none"]
    /\ posts = {} /\ server = 0 /\ deletion = "none" /\ page = "open"
    /\ reported = FALSE /\ taken = FALSE /\ astray = FALSE

Open == page = "open"

-----------------------------------------------------------------------------
(* The history. Indexes count from 1 and 0 stands for -1.                  *)

(* Mutant: the redo tail is kept.                                          *)
PushedAtEnd(i, d) == Append(history, [rev |-> revCounter + 1, objects |-> d])

(* The history cut after its first i snapshots, then a snapshot of d.      *)
Pushed(i, d) == Append(SubSeq(history, 1, i), [rev |-> revCounter + 1, objects |-> d])

current == history[historyIndex]

(* initCanvas: the image has loaded, and whatever comes first in the       *)
(* history now counts as what the server holds.                            *)
initCanvas ==
    /\ Open /\ ~background
    /\ background' = TRUE
    /\ history' = Pushed(Len(history), shown)
    /\ revCounter' = revCounter + 1
    /\ historyIndex' = 1
    /\ savedRev' = history'[1].rev
    /\ taken' = (history'[1].objects # 0)
    /\ astray' = (historyIndex > 1)
    /\ UNCHANGED <<drawn, shown, typing, saveTimer, uploading, status, leaving, saveWaiters,
                   promise, posts, server, reported, deletion, page>>

scheduleSave == saveTimer' = TRUE

Draws ==
    /\ Open /\ (background \/ "early" \in Gestures)
    /\ drawn < MaxDrawn
    /\ drawn' = drawn + 1 /\ shown' = drawn'

(* The text tool, and every key typed into a text: nothing is recorded.    *)
typeText ==
    /\ "type" \in Gestures
    /\ Draws
    /\ typing' = TRUE
    /\ UNCHANGED <<background, history, historyIndex, revCounter, astray, saving, leaving,
                   posts, server, reported, deletion, page>>

Recorded(d) ==
    /\ history' = Pushed(historyIndex, d)
    /\ revCounter' = revCounter + 1
    /\ historyIndex' = historyIndex + 1
    /\ scheduleSave
    /\ astray' = FALSE
    /\ UNCHANGED <<background, savedRev, uploading, status, leaving, saveWaiters, promise,
                   posts, server, reported, deletion, page, taken>>

(* Mutant: the place in the history is worked out before it is cut.        *)
commitAtEnd ==
    /\ Draws
    /\ history' = Pushed(historyIndex, shown')
    /\ historyIndex' = Len(history) + 1
    /\ revCounter' = revCounter + 1
    /\ scheduleSave
    /\ astray' = FALSE
    /\ UNCHANGED <<typing, background, savedRev, uploading, status, leaving, saveWaiters,
                   promise, posts, server, reported, deletion, page, taken>>

(* The user has drawn, moved, restyled or removed something.               *)
commit == Draws /\ Recorded(drawn + 1) /\ UNCHANGED typing

(* A click elsewhere, another tool or the Copy image button ends the text. *)
exitEditing ==
    /\ Open /\ typing
    /\ typing' = FALSE
    /\ Recorded(shown)
    /\ UNCHANGED <<drawn, shown>>

(* undo and redo go to place i and restore what is there; restoring ends   *)
(* the editing of a text, and commit is called with the history at place i *)
(* and the text still on the canvas.                                       *)
GoTo(i) ==
    /\ Open
    /\ shown' = history[i].objects
    /\ IF typing
         THEN /\ history' = Pushed(i, shown)
              /\ historyIndex' = i + 1
              /\ revCounter' = revCounter + 1
         ELSE historyIndex' = i /\ UNCHANGED <<history, revCounter>>
    /\ typing' = FALSE /\ astray' = typing
    /\ scheduleSave
    /\ UNCHANGED <<drawn, background, savedRev, uploading, status, leaving, saveWaiters,
                   promise, posts, server, reported, deletion, page, taken>>

undo == historyIndex > 1 /\ GoTo(historyIndex - 1)
redo == historyIndex < Len(history) /\ GoTo(historyIndex + 1)

-----------------------------------------------------------------------------
(* Uploads. *)

(* Mutant: the list of waiters is emptied before it is gone through.       *)
settleNobody(ws, outcome) == UNCHANGED promise

(* The answer to every waiter in ws.                                       *)
settle(ws, outcome) ==
    promise' = [w \in Saves |-> IF w \in ws /\ promise[w] # "rejected" THEN outcome
                                ELSE promise[w]]

(* Those in ws that are waiting now.                                       *)
await(ws) == promise' = [w \in Saves |-> IF w \in ws /\ promise[w] = "none"
                                         THEN "pending" ELSE promise[w]]

render == [snap |-> current, at |-> "rendering", givenUp |-> FALSE]

(* Mutant: an upload starts although another one runs.                     *)
flushAnyway(ws, saved, done) ==
    /\ saveTimer' = FALSE
    /\ savedRev' = saved
    /\ history # << >> /\ background
    /\ IF current.rev = saved
         THEN /\ status' = "saved"
              /\ settle(ws, "resolved") /\ saveWaiters' = {}
              /\ posts' = posts \ done
              /\ uploading' = FALSE
         ELSE /\ uploading' = TRUE
              /\ status' = "saving"
              /\ saveWaiters' = ws /\ await(ws)
              /\ posts' = (posts \ done) \cup {render}

(* flush, with the waiters ws, when savedRev has become saved and the      *)
(* uploads in done have just come to an end. unsaved throws while there is *)
(* no history; renderSnapshot throws while there is no image, and then the *)
(* failure is shown before anything else can happen.                       *)
flush(ws, saved, done) ==
    /\ saveTimer' = FALSE
    /\ savedRev' = saved
    /\ LET busy   == uploading /\ done = {}
           throws == ~busy /\ history = << >>
           upload == ~busy /\ ~throws /\ current.rev # saved
       IN
       \/ /\ busy
          /\ saveWaiters' = ws /\ await(ws)
          /\ UNCHANGED <<uploading, status, posts>>
       \/ /\ throws
          /\ saveWaiters' = ws /\ settle(ws \ saveWaiters, "rejected")
          /\ UNCHANGED <<uploading, status, posts>>
       \/ /\ ~busy /\ ~throws /\ current.rev = saved
          /\ status' = "saved"
          /\ settle(ws, "resolved") /\ saveWaiters' = {}
          /\ uploading' = FALSE
          /\ posts' = posts \ done
       \/ /\ upload /\ background
          /\ uploading' = TRUE
          /\ status' = "saving"
          /\ saveWaiters' = ws /\ await(ws)
          /\ posts' = (posts \ done) \cup {render}
       \/ /\ upload /\ ~background
          /\ uploading' = FALSE
          /\ status' = "failed"
          /\ settle(ws, "rejected") /\ saveWaiters' = {}
          /\ posts' = posts \ done

Flush(ws, saved, done) ==
    /\ flush(ws, saved, done)
    /\ taken' = (taken /\ done = {})
    /\ UNCHANGED <<canvas, astray, leaving, server, reported, deletion, page>>

timerFires == Open /\ saveTimer /\ Flush(saveWaiters, savedRev, {})

(* The button shows with a failure.                                        *)
retryClicked == Open /\ status = "failed" /\ Flush(saveWaiters, savedRev, {})

(* saveEdit calls save(), for what is recorded: a text stays in editing.   *)
(* When flush throws, the promise is rejected.                             *)
save(w) ==
    /\ Open /\ promise[w] = "none"
    /\ Flush(saveWaiters \cup {w}, savedRev, {})

(* The rendering for the upload p is there, and is sent. It is that of the *)
(* snapshot that was current in flush, one kept from before included.      *)
renderCurrent(p) ==
    /\ Open /\ p \in posts /\ p.at = "rendering"
    /\ posts' = (posts \ {p}) \cup {[p EXCEPT !.at = "sent"]}
    /\ UNCHANGED <<client, server, reported, deletion, page>>

(* Mutant: what is current when the answer comes counts as saved.          *)
uploadedCurrent(p) ==
    /\ Open /\ p \in posts /\ p.at = "applied" /\ ~p.givenUp
    /\ Flush(saveWaiters, current.rev, {p})

(* Mutant: the end of an upload starts the next one only for save().       *)
uploadedOnce(p) ==
    /\ Open /\ p \in posts /\ p.at = "applied" /\ ~p.givenUp
    /\ \/ saveWaiters # {} /\ Flush(saveWaiters, p.snap.rev, {p})
       \/ /\ saveWaiters = {}
          /\ savedRev' = p.snap.rev /\ uploading' = FALSE /\ status' = "saved"
          /\ taken' = FALSE
          /\ posts' = posts \ {p}
          /\ UNCHANGED <<canvas, astray, saveTimer, leaving, saveWaiters, promise, server,
                         reported, deletion, page>>

(* resp.ok: the snapshot is saved; then the next, if there is one.         *)
uploaded(p) ==
    /\ Open /\ p \in posts /\ p.at = "applied" /\ ~p.givenUp
    /\ Flush(saveWaiters, p.snap.rev, {p})

(* The upload failed: rendering threw, the server said no, or the network  *)
(* broke, and then the server may have the drawing or get it later.        *)
uploadFailed(p) ==
    /\ Open /\ p \in posts /\ ~p.givenUp
    /\ \/ p.at # "sent" /\ posts' = posts \ {p}
       \/ /\ p.at = "sent" /\ Cardinality({q \in posts : q.givenUp}) < MaxLost
          /\ posts' = (posts \ {p}) \cup {[p EXCEPT !.givenUp = TRUE]}
    /\ uploading' = FALSE
    /\ status' = "failed"
    /\ settle(saveWaiters, "rejected") /\ saveWaiters' = {}
    /\ reported' = (reported \/ p.at = "applied")
    /\ UNCHANGED <<canvas, astray, savedRev, saveTimer, taken, leaving, server, deletion,
                   page>>

(* The server takes the drawing, or does not; nobody waits for the answer  *)
(* of an upload that was given up.                                         *)
annotate(p) ==
    /\ p \in posts /\ p.at = "sent"
    /\ \E ok \in {o \in BOOLEAN : o => server # None} :
          /\ server' = IF ok THEN p.snap.objects ELSE server
          /\ reported' = IF ok THEN p.givenUp ELSE reported
          /\ posts' = (posts \ {p})
                      \cup (IF p.givenUp THEN {}
                            ELSE {[p EXCEPT !.at = IF ok THEN "applied" ELSE "refused"]})
    /\ UNCHANGED <<client, deletion, page>>

-----------------------------------------------------------------------------
(* Leaving the page.                                                       *)

(* deleteImage with discardPendingSave, confirmed by the user.             *)
deleteImage ==
    /\ "delete" \in Gestures
    /\ Open /\ deletion # "sent"
    /\ saveTimer' = FALSE /\ leaving' = TRUE
    /\ deletion' = "sent"
    /\ UNCHANGED <<canvas, astray, savedRev, uploading, status, saveWaiters, promise, posts,
                   server, reported, page, taken>>

(* The browser drops the page with its timers and callbacks.               *)
gone ==
    /\ saveTimer' = FALSE /\ uploading' = FALSE /\ status' = "hidden"
    /\ saveWaiters' = {} /\ promise' = [w \in Saves |-> "none"]
    /\ UNCHANGED <<canvas, astray, savedRev, taken, leaving>>

(* The image is gone, the browser goes to the start page ...               *)
deleted ==
    /\ Open /\ deletion = "sent"
    /\ server' = None /\ page' = "left"
    /\ gone
    /\ UNCHANGED <<posts, reported, deletion>>

(* ... or an alert is shown; after a network error it may be gone as well. *)
deleteFailed ==
    /\ Open /\ deletion = "sent"
    /\ deletion' = "failed"
    /\ server' \in {server, None}
    /\ UNCHANGED <<client, posts, reported, page>>

(* Mutant: an upload that runs is no reason to warn.                       *)
warnsIfUnsaved == ~leaving /\ history # << >> /\ current.rev # savedRev

(* The beforeunload handler asks the user to stay; without a history it    *)
(* throws.                                                                 *)
warns == ~leaving /\ history # << >> /\ (uploading \/ current.rev # savedRev)

(* The user closes the page or follows a link, against the advice too;     *)
(* the browser cancels what was not sent yet.                              *)
leave ==
    /\ Open
    /\ page' = IF warns THEN "leftWarned" ELSE "left"
    /\ posts' = {[p EXCEPT !.givenUp = TRUE] : p \in {q \in posts : q.at = "sent"}}
    /\ gone
    /\ UNCHANGED <<server, reported, deletion>>

Left == ~Open /\ UNCHANGED vars

-----------------------------------------------------------------------------

Answered == \E p \in posts : uploaded(p) \/ uploadFailed(p)
Served   == \E p \in posts : annotate(p)

Next ==
    \/ initCanvas \/ commit \/ typeText \/ exitEditing \/ undo \/ redo
    \/ timerFires \/ retryClicked
    \/ \E w \in Saves : save(w)
    \/ \E p \in posts : renderCurrent(p)
    \/ Answered \/ Served
    \/ deleteImage \/ deleted \/ deleteFailed \/ leave \/ Left

Spec == Init /\ [][Next]_vars

(* Timers fire once the user pauses, renderings end, the server handles    *)
(* what it gets and every fetch comes to an end. It is enough that browser *)
(* and server do not all rest for ever while one of them has work to do.   *)
Working == timerFires \/ (\E p \in posts : renderCurrent(p)) \/ Served \/ Answered

Fairness == WF_vars(Working)

LiveSpec == Spec /\ Fairness

-----------------------------------------------------------------------------

(* At most one upload runs at a time, and uploading says so.               *)
(* ("At most one upload runs at a time", view.html.)                       *)
OneUpload ==
    Open => Cardinality({p \in posts : ~p.givenUp}) = IF uploading THEN 1 ELSE 0

(* The current snapshot is the drawing on the canvas, however the history  *)
(* was cut, extended and gone through, except while a text is typed, after *)
(* undo or redo ended one, and where initCanvas went back to the first of  *)
(* several drawings made before the image was there.                       *)
(* (commit: "Records the current canvas state as a new snapshot".)         *)
ScreenIsRecorded == history # << >> /\ ~typing /\ ~astray => shown = current.objects

(* The server has what is on screen, or the user was told of a failure     *)
(* and the server took that drawing all the same.                          *)
Held == server = shown \/ reported \/ server = None

(* What is on screen is not what the page goes by, or counts as saved only *)
(* since it was drawn before the image had loaded.                         *)
Unnoticed == typing \/ astray \/ (taken /\ current.rev = savedRev)

(* When save() resolves, the server holds the drawing of that moment,      *)
(* whatever was drawn, undone, redone or uploaded since save() was called. *)
(* It does not speak of a text that is still in editing, which save() does *)
(* not record, nor of the other cases of Unnoticed.                        *)
(* (save: "a promise settled once the server holds it".)                   *)
SaveKeepsPromise ==
    [][\A w \in Saves :
          promise[w] # "resolved" /\ promise'[w] = "resolved" => Held \/ Unnoticed]_vars

(* A page that was left without a warning leaves the server, then and      *)
(* later, with what was on screen, the cases of Unnoticed apart; a DELETE  *)
(* was meant to lose it. Before the image is there the page warns too.     *)
(* ("Warn before leaving while a change is not yet on the server".)        *)
LeaveIsSafe == page = "left" /\ deletion = "none" => Held \/ Unnoticed

(* As LeaveIsSafe, with no exception for what the page does not notice,    *)
(* and also after a DELETE that failed.                                    *)
WarnsBeforeLoss == page = "left" /\ deletion # "sent" => Held

(* The user does not draw, undo and redo for ever.                         *)
Rests == <>[][FALSE]_canvas

Unsaved == Open /\ ~leaving /\ ~Held /\ ~Unnoticed

(* Every change on screen that is not one of the cases of Unnoticed        *)
(* reaches the server, gives way to another, or the page says that saving  *)
(* failed. (scheduleSave, flush; nothing is promised once leaving is set.) *)
ChangesAreSaved == Rests => (Unsaved ~> (~Unsaved \/ status = "failed"))

(* Every save() settles while the page is there: no waiter is forgotten    *)
(* when uploads fail or the snapshot changes. (settleSaveWaiters.)         *)
SavesSettle ==
    Rests => \A w \in Saves : promise[w] = "pending" ~> (promise[w] # "pending" \/ ~Open)
=============================================================================
