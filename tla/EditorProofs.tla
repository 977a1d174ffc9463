---------------------------- MODULE EditorProofs ----------------------------
(***************************************************************************)
(* Proofs about Editor, for any number of calls of save() and of drawings. *)
(*                                                                         *)
(* The page compares revisions and never drawings. What it concludes from  *)
(* them is right since a revision stands for one drawing, also when the    *)
(* snapshot that had it was dropped from the history while its upload was  *)
(* running. Where it concludes too much is what Unnoticed lists: savedRev  *)
(* taken over by initCanvas, and a canvas that the current snapshot does   *)
(* not show.                                                               *)
(***************************************************************************)
EXTENDS Editor, FiniteSetTheorems, TLAPS

Running == {p \in posts : ~p.givenUp}

(* The snapshots that the page can still hand on.                          *)
Known == {history[i] : i \in 1..Len(history)} \cup {p.snap : p \in posts}

(* The server has drawing d, or one that was reported, or no image.        *)
Holds(d) == server = d \/ reported \/ server = None

(* Before the image is there nothing is uploaded; before the first         *)
(* snapshot nothing but text is on the canvas.                             *)
BlankInv ==
    /\ ~background => /\ posts = {} /\ ~uploading /\ ~taken
                      /\ server \in {0, None}
                      /\ astray => historyIndex > 1
    /\ history = << >> => ~background /\ (shown = 0 \/ typing)
    /\ history # << >> => historyIndex # 0

(* A revision stands for one drawing, and the next one is a new one.       *)
RevInv ==
    /\ savedRev <= revCounter
    /\ \A s \in Known : s.rev <= revCounter
    /\ \A s, u \in Known : s.rev = u.rev => s = u

(* uploading says whether there is an upload, and there is no second one.  *)
UploadInv ==
    Open => IF uploading THEN \E p \in posts : Running = {p} ELSE Running = {}

(* The server holds the snapshot of the upload that it has applied, else   *)
(* the one that counts as saved, unless initCanvas took it over.           *)
SavedInv ==
    Open =>
        /\ \A p \in Running : p.at = "applied" => Holds(p.snap.objects)
        /\ \/ \E p \in Running : p.at = "applied"
           \/ taken
           \/ \A s \in Known : s.rev = savedRev => Holds(s.objects)

(* leaving is for deletions.                                               *)
LeavingInv == deletion = "none" => ~leaving

(* Nothing that is still on its way changes what a page left behind        *)
(* without being reported.                                                 *)
LeftInv ==
    page = "left" /\ deletion = "none" =>
        (Held \/ Unnoticed) /\ \A p \in posts : p.givenUp

Inv == /\ TypeOK /\ BlankInv /\ RevInv /\ UploadInv
       /\ ScreenIsRecorded /\ SavedInv /\ LeavingInv /\ LeftInv

-----------------------------------------------------------------------------
(* The history. *)

Snap(d) == [rev |-> revCounter + 1, objects |-> d]

LEMMA CurrentTyped ==
    ASSUME TypeOK, BlankInv, history # << >>
    PROVE  /\ historyIndex \in 1..Len(history)
           /\ current \in Snapshot
           /\ current \in Known
  <1>1. historyIndex \in 1..Len(history)
    BY DEF TypeOK, BlankInv
  <1> QED BY <1>1 DEF TypeOK, current, Known

LEMMA SnapTyped ==
    ASSUME TypeOK, NEW d \in Drawings
    PROVE  Snap(d) \in Snapshot /\ Snap(d).rev = revCounter + 1 /\ Snap(d).objects = d
  BY DEF TypeOK, Snap, Snapshot

(* A snapshot is added and the rest was there.                             *)
LEMMA PushedHistory ==
    ASSUME TypeOK, NEW i \in 0..Len(history), NEW d \in Drawings
    PROVE  /\ Pushed(i, d) \in Seq(Snapshot)
           /\ Len(Pushed(i, d)) = i + 1
           /\ Pushed(i, d)[i + 1] = Snap(d)
           /\ \A j \in 1..i : Pushed(i, d)[j] = history[j]
  <1> DEFINE s == Snap(d)
  <1>1. s \in Snapshot
    BY SnapTyped
  <1>2. Pushed(i, d) = Append(SubSeq(history, 1, i), s)
    BY DEF Pushed, Snap
  <1> HIDE DEF s
  <1>3. /\ SubSeq(history, 1, i) \in Seq(Snapshot)
        /\ Len(SubSeq(history, 1, i)) = i
        /\ \A j \in 1..i : SubSeq(history, 1, i)[j] = history[j]
    BY DEF TypeOK
  <1>4. i \in Nat
    BY DEF TypeOK
  <1>5. /\ Pushed(i, d) \in Seq(Snapshot)
        /\ Len(Pushed(i, d)) = i + 1
        /\ Pushed(i, d)[i + 1] = s
        /\ \A j \in 1..i : Pushed(i, d)[j] = SubSeq(history, 1, i)[j]
    BY <1>1, <1>2, <1>3, <1>4
  <1> QED BY <1>3, <1>5 DEF s

(* What the user does on the canvas records a drawing, or goes to another  *)
(* place of the history, or leaves the history alone.                      *)
Edit == commit \/ exitEditing \/ undo \/ redo \/ typeText

Pushes(i, d) ==
    /\ history' = Pushed(i, d)
    /\ revCounter' = revCounter + 1
    /\ historyIndex' = i + 1

Moves ==
    /\ UNCHANGED <<history, revCounter>>
    /\ \/ historyIndex' = historyIndex
       \/ historyIndex' \in 1..Len(history)

LEMMA DrawsTyped ==
    ASSUME TypeOK, Draws
    PROVE  drawn' = drawn + 1 /\ drawn + 1 \in Drawings /\ shown' = drawn + 1
  BY BoundAssumption DEF TypeOK, Draws, Drawings

LEMMA EditOutcome ==
    ASSUME TypeOK, Edit
    PROVE  /\ Open
           /\ UNCHANGED <<background, savedRev, uploading, status, leaving, saveWaiters, promise,
                          posts, server, reported, deletion, page, taken>>
           /\ saveTimer' \in BOOLEAN
           /\ \/ Moves
              \/ \E i \in 0..Len(history), d \in Drawings : Pushes(i, d)
  <1>1. CASE commit
    <2>1. Draws /\ Recorded(drawn + 1)
      BY <1>1 DEF commit
    <2>2. drawn + 1 \in Drawings /\ Pushes(historyIndex, drawn + 1)
      BY <2>1, DrawsTyped DEF Recorded, Pushes
    <2>3. historyIndex \in 0..Len(history)
      BY DEF TypeOK
    <2> QED BY <2>1, <2>2, <2>3 DEF Recorded, scheduleSave, Draws
  <1>2. CASE exitEditing
    <2>1. Open /\ Recorded(shown)
      BY <1>2 DEF exitEditing
    <2>2. Pushes(historyIndex, shown)
      BY <2>1 DEF Recorded, Pushes
    <2>3. historyIndex \in 0..Len(history) /\ shown \in Drawings
      BY DEF TypeOK
    <2> QED BY <2>1, <2>2, <2>3 DEF Recorded, scheduleSave
  <1>3. ASSUME NEW i \in 1..Len(history), GoTo(i)
        PROVE  Moves \/ \E j \in 0..Len(history), d \in Drawings : Pushes(j, d)
    <2>1. CASE typing
      <3>1. Pushes(i, shown)
        BY <1>3, <2>1 DEF GoTo, Pushes
      <3>2. i \in 0..Len(history) /\ shown \in Drawings
        BY DEF TypeOK
      <3> QED BY <3>1, <3>2
    <2>2. CASE ~typing
      BY <1>3, <2>2 DEF GoTo, Moves
    <2> QED BY <2>1, <2>2
  <1>4. CASE undo \/ redo
    <2>1. PICK i \in 1..Len(history) : GoTo(i)
      BY <1>4 DEF undo, redo, TypeOK
    <2> QED BY <1>3, <2>1 DEF GoTo, scheduleSave
  <1>5. CASE typeText
    BY <1>5 DEF typeText, Draws, Moves, saving, TypeOK
  <1> QED BY <1>1, <1>2, <1>4, <1>5 DEF Edit

(* initCanvas records what is on the canvas and starts at the beginning.   *)
LEMMA InitOutcome ==
    ASSUME TypeOK, BlankInv, initCanvas
    PROVE  /\ Open /\ ~background /\ background'
           /\ UNCHANGED <<drawn, shown, typing, saveTimer, uploading, status, leaving,
                          saveWaiters, promise, posts, server, reported, deletion, page>>
           /\ history' = Pushed(Len(history), shown) /\ revCounter' = revCounter + 1
           /\ historyIndex' = 1 /\ (astray' <=> historyIndex > 1)
           /\ history' \in Seq(Snapshot) /\ Len(history') = Len(history) + 1
           /\ history'[1] = IF history = << >> THEN Snap(shown) ELSE history[1]
           /\ history'[1] \in Snapshot
           /\ savedRev' = history'[1].rev /\ (taken' <=> history'[1].objects # 0)
  <1>1. Len(history) \in 0..Len(history) /\ shown \in Drawings
    BY DEF TypeOK
  <1>2. history' = Pushed(Len(history), shown)
    BY DEF initCanvas
  <1>3. /\ history' \in Seq(Snapshot) /\ Len(history') = Len(history) + 1
        /\ history'[Len(history) + 1] = Snap(shown)
        /\ \A j \in 1..Len(history) : history'[j] = history[j]
    BY <1>1, <1>2, PushedHistory
  <1>4. /\ history'[1] = IF history = << >> THEN Snap(shown) ELSE history[1]
        /\ 1 \in 1..Len(history')
    BY <1>3 DEF TypeOK
  <1>5. history'[1] \in Snapshot
    BY <1>3, <1>4
  <1> QED BY <1>2, <1>3, <1>4, <1>5 DEF initCanvas

-----------------------------------------------------------------------------
(* Types. *)

(* What a flush leaves alone keeps its type, and what it sets gets one.    *)
LEMMA FlushTyped ==
    ASSUME TypeOK, BlankInv,
           NEW ws \in SUBSET Saves, NEW saved \in Nat, NEW done \in SUBSET posts,
           Flush(ws, saved, done)
    PROVE  TypeOK'
  <1>1. history # << >> => render \in Post
    BY CurrentTyped DEF render, Post
  <1>2. ASSUME NEW S, NEW o \in {"resolved", "rejected"}, settle(S, o)
        PROVE  promise' \in [Saves -> {"none", "pending", "resolved", "rejected"}]
    BY <1>2 DEF settle, TypeOK
  <1>3. await(ws) => promise' \in [Saves -> {"none", "pending", "resolved", "rejected"}]
    BY DEF await, TypeOK
  <1>4. /\ promise' \in [Saves -> {"none", "pending", "resolved", "rejected"}]
        /\ saveWaiters' \subseteq Saves
        /\ uploading' \in BOOLEAN
        /\ status' \in {"hidden", "saving", "saved", "failed"}
        /\ savedRev' \in Nat /\ saveTimer' \in BOOLEAN
    BY <1>2, <1>3 DEF TypeOK, Flush, flush
  <1>5. posts' \subseteq Post
    BY <1>1 DEF TypeOK, Flush, flush
  <1> QED BY <1>4, <1>5 DEF TypeOK, Flush, canvas

LEMMA TypeStep ==
    ASSUME TypeOK, BlankInv, [Next]_vars
    PROVE  TypeOK'
  <1>1. CASE initCanvas
    <2>1. historyIndex' \in 0..Len(history') /\ history' \in Seq(Snapshot)
      BY <1>1, InitOutcome DEF TypeOK
    <2>2. revCounter' \in Nat /\ savedRev' \in Nat
      BY <1>1, InitOutcome DEF TypeOK, Snapshot
    <2>3. taken' \in BOOLEAN /\ astray' \in BOOLEAN /\ background' \in BOOLEAN
      BY <1>1 DEF initCanvas
    <2> QED BY <1>1, <2>1, <2>2, <2>3, InitOutcome DEF TypeOK
  <1>2. CASE Edit
    <2>1. /\ UNCHANGED <<background, savedRev, uploading, status, leaving, saveWaiters, promise,
                         posts, server, reported, deletion, page, taken>>
          /\ saveTimer' \in BOOLEAN
          /\ Moves \/ \E i \in 0..Len(history), d \in Drawings : Pushes(i, d)
      BY <1>2, EditOutcome
    <2>2. /\ history' \in Seq(Snapshot) /\ historyIndex' \in 0..Len(history')
          /\ revCounter' \in Nat
      <3>1. CASE Moves
        BY <3>1 DEF Moves, TypeOK
      <3>2. ASSUME NEW i \in 0..Len(history), NEW d \in Drawings, Pushes(i, d)
            PROVE  /\ history' \in Seq(Snapshot) /\ historyIndex' \in 0..Len(history')
                   /\ revCounter' \in Nat
        BY <3>2, PushedHistory DEF Pushes, TypeOK
      <3> QED BY <2>1, <3>1, <3>2
    <2>3. /\ drawn' \in Drawings /\ shown' \in Drawings
          /\ typing' \in BOOLEAN /\ astray' \in BOOLEAN
      <3>1. CASE commit \/ typeText
        BY <3>1, DrawsTyped DEF commit, typeText, Recorded, TypeOK
      <3>2. CASE exitEditing
        BY <3>2 DEF exitEditing, Recorded, TypeOK
      <3>3. CASE undo \/ redo
        <4>1. PICK i \in 1..Len(history) : GoTo(i)
          BY <3>3 DEF undo, redo, TypeOK
        <4>2. history[i] \in Snapshot
          BY DEF TypeOK
        <4>3. shown' \in Drawings
          BY <4>1, <4>2 DEF GoTo, Snapshot
        <4>4. drawn' \in Drawings /\ typing' \in BOOLEAN
          BY <4>1 DEF GoTo, TypeOK
        <4>5. astray' \in BOOLEAN
          BY <4>1 DEF GoTo, TypeOK
        <4> QED BY <4>3, <4>4, <4>5
      <3> QED BY <1>2, <3>1, <3>2, <3>3 DEF Edit
    <2> QED BY <2>1, <2>2, <2>3 DEF TypeOK
  <1>3. CASE timerFires \/ retryClicked
    <2>1. Flush(saveWaiters, savedRev, {})
      BY <1>3 DEF timerFires, retryClicked
    <2> QED BY <2>1, FlushTyped DEF TypeOK
  <1>4. ASSUME NEW w \in Saves, save(w) PROVE TypeOK'
    <2>1. Flush(saveWaiters \cup {w}, savedRev, {})
      BY <1>4 DEF save
    <2>2. saveWaiters \cup {w} \in SUBSET Saves /\ savedRev \in Nat /\ {} \in SUBSET posts
      BY DEF TypeOK
    <2> QED BY <2>1, <2>2, FlushTyped
  <1>5. ASSUME NEW p \in posts, renderCurrent(p) PROVE TypeOK'
    <2>1. [p EXCEPT !.at = "sent"] \in Post
      BY DEF TypeOK, Post
    <2> QED BY <1>5, <2>1 DEF renderCurrent, TypeOK, client, canvas, saving
  <1>6. ASSUME NEW p \in posts, uploaded(p) PROVE TypeOK'
    <2>1. p.snap.rev \in Nat
      BY DEF TypeOK, Post, Snapshot
    <2>2. Flush(saveWaiters, p.snap.rev, {p})
      BY <1>6 DEF uploaded
    <2> QED BY <2>1, <2>2, FlushTyped DEF TypeOK
  <1>7. ASSUME NEW p \in posts, uploadFailed(p) PROVE TypeOK'
    <2>1. [p EXCEPT !.givenUp = TRUE] \in Post
      BY DEF TypeOK, Post
    <2>2. posts' \subseteq Post
      BY <1>7, <2>1 DEF uploadFailed, TypeOK
    <2>3. promise' \in [Saves -> {"none", "pending", "resolved", "rejected"}]
      BY <1>7 DEF uploadFailed, settle, TypeOK
    <2>4. reported' \in BOOLEAN
      BY <1>7 DEF uploadFailed, TypeOK
    <2>5. /\ UNCHANGED <<drawn, shown, typing, background, history, historyIndex, revCounter,
                         savedRev, saveTimer, leaving, taken, astray, server, deletion, page>>
          /\ uploading' = FALSE /\ status' = "failed" /\ saveWaiters' = {}
      BY <1>7 DEF uploadFailed, canvas
    <2> QED BY ZenonT(40), <2>2, <2>3, <2>4, <2>5 DEF TypeOK
  <1>8. ASSUME NEW p \in posts, annotate(p) PROVE TypeOK'
    <2>1. PICK ok \in BOOLEAN :
            /\ server' = IF ok THEN p.snap.objects ELSE server
            /\ reported' = IF ok THEN p.givenUp ELSE reported
            /\ posts' = (posts \ {p})
                        \cup (IF p.givenUp THEN {}
                              ELSE {[p EXCEPT !.at = IF ok THEN "applied" ELSE "refused"]})
      BY <1>8 DEF annotate
    <2>2. /\ [p EXCEPT !.at = IF ok THEN "applied" ELSE "refused"] \in Post
          /\ p.snap.objects \in Drawings /\ p.givenUp \in BOOLEAN
      BY DEF TypeOK, Post, Snapshot
    <2>3. posts' \subseteq Post /\ server' \in Drawings \cup {None}
      BY <2>1, <2>2 DEF TypeOK
    <2>4. reported' \in BOOLEAN
      BY <2>1, <2>2 DEF TypeOK
    <2>5. UNCHANGED <<drawn, shown, typing, background, history, historyIndex, revCounter,
                      savedRev, saveTimer, uploading, status, leaving, saveWaiters, promise,
                      taken, astray, deletion, page>>
      BY <1>8 DEF annotate, client, canvas, saving
    <2> QED BY <2>3, <2>4, <2>5 DEF TypeOK
  <1>9. CASE deleteImage \/ deleteFailed
    <2>1. UNCHANGED <<drawn, shown, typing, background, history, historyIndex, revCounter,
                      savedRev, uploading, status, saveWaiters, promise, posts,
                      taken, astray, reported, page>>
      BY <1>9 DEF deleteImage, deleteFailed, client, canvas, saving
    <2>2. /\ server' \in {server, None} /\ deletion' \in {"sent", "failed"}
          /\ saveTimer' \in BOOLEAN /\ leaving' \in BOOLEAN
      BY <1>9 DEF deleteImage, deleteFailed, client, saving, TypeOK
    <2> QED BY <2>1, <2>2 DEF TypeOK
  <1>10. gone => promise' \in [Saves -> {"none", "pending", "resolved", "rejected"}]
    BY DEF gone
  <1>11. CASE deleted
    BY <1>10, <1>11 DEF deleted, gone, TypeOK, canvas
  <1>12. CASE leave
    <2>1. ASSUME NEW p \in posts PROVE [p EXCEPT !.givenUp = TRUE] \in Post
      BY DEF TypeOK, Post
    <2>2. posts' \subseteq Post
      BY <1>12, <2>1 DEF leave
    <2> QED BY <1>10, <1>12, <2>2 DEF leave, gone, TypeOK, canvas
  <1>13. CASE UNCHANGED vars
    BY <1>13 DEF vars, client, canvas, saving, TypeOK
  <1> QED BY <1>1, <1>2, <1>3, <1>4, <1>5, <1>6, <1>7, <1>8, <1>9, <1>11, <1>12,
             <1>13 DEF Next, Edit, Answered, Served, Left

-----------------------------------------------------------------------------
(* Before the image, and the history and its revisions.                    *)

LEMMA FlushKeeps ==
    ASSUME NEW ws, NEW saved, NEW done, Flush(ws, saved, done)
    PROVE  /\ UNCHANGED <<drawn, shown, typing, background, history, historyIndex, revCounter,
                          astray, leaving, server, reported, deletion, page>>
           /\ savedRev' = saved
           /\ (taken' => taken) /\ (taken /\ done = {} => taken')
           /\ posts' \subseteq posts \cup {render}
           /\ ~background /\ posts = {} /\ ~uploading => posts' = {} /\ ~uploading'
           /\ history = << >> => UNCHANGED posts
  <1>1. taken' = (taken /\ done = {})
    BY DEF Flush
  <1>2. (taken' => taken) /\ (taken /\ done = {} => taken')
    BY Zenon, <1>1
  <1>3. /\ posts' \subseteq posts \cup {render}
        /\ ~background /\ posts = {} /\ ~uploading => posts' = {} /\ ~uploading'
    BY DEF Flush, flush
  <1>4. history = << >> => UNCHANGED posts
    BY DEF Flush, flush
  <1> QED BY <1>2, <1>3, <1>4 DEF Flush, flush, canvas

LEMMA BlankStep ==
    ASSUME TypeOK, BlankInv, [Next]_vars
    PROVE  BlankInv'
  <1>1. CASE initCanvas
    <2>1. Len(history') = Len(history) + 1 /\ historyIndex' = 1 /\ background'
      BY <1>1, InitOutcome
    <2> QED BY <2>1 DEF BlankInv, TypeOK
  <1>2. CASE Edit
    <2>1. UNCHANGED <<background, savedRev, uploading, posts, server, taken>>
      BY <1>2, EditOutcome
    <2>2. CASE Moves
      <3>1. history' = history /\ (historyIndex' = historyIndex \/ historyIndex' \in 1..Len(history))
        BY <2>2 DEF Moves
      <3>2. history # << >> => historyIndex' # 0
        BY <3>1 DEF BlankInv
      <3>3. history = << >> => shown' = 0 \/ typing'
        <4>1. CASE typeText
          BY <4>1 DEF typeText
        <4>2. CASE ~typeText /\ history = << >>
          BY <1>2, <2>2, <4>2 DEF Edit, Moves, commit, exitEditing, undo, redo, Recorded,
                                  TypeOK
        <4> QED BY <4>1, <4>2
      <3>4. ~background /\ astray' => historyIndex' > 1
        <4>1. CASE typeText
          BY <4>1 DEF typeText, BlankInv
        <4>2. CASE commit \/ exitEditing
          BY <4>2 DEF commit, exitEditing, Recorded
        <4>3. CASE undo \/ redo
          <5>1. PICK i \in 1..Len(history) : GoTo(i)
            BY <4>3 DEF undo, redo, TypeOK
          <5>2. CASE typing
            BY <2>2, <5>1, <5>2 DEF GoTo, Moves, TypeOK
          <5>3. CASE ~typing
            BY <5>1, <5>3 DEF GoTo
          <5> QED BY <5>2, <5>3
        <4> QED BY <1>2, <4>1, <4>2, <4>3 DEF Edit
      <3> QED BY <2>1, <3>1, <3>2, <3>3, <3>4 DEF BlankInv
    <2>3. ASSUME NEW i \in 0..Len(history), NEW d \in Drawings, Pushes(i, d) PROVE BlankInv'
      <3>1. history' # << >> /\ historyIndex' # 0
        BY <2>3, PushedHistory DEF Pushes, TypeOK
      <3>2. ~background /\ astray' => historyIndex' > 1
        <4>1. CASE typeText
          BY <2>3, <4>1 DEF typeText, Pushes, TypeOK
        <4>2. CASE commit \/ exitEditing
          BY <4>2 DEF commit, exitEditing, Recorded
        <4>3. CASE undo \/ redo
          <5>1. PICK j \in 1..Len(history) : GoTo(j)
            BY <4>3 DEF undo, redo, TypeOK
          <5>2. CASE typing
            BY <5>1, <5>2 DEF GoTo, TypeOK
          <5>3. CASE ~typing
            BY <5>1, <5>3 DEF GoTo
          <5> QED BY <5>2, <5>3
        <4> QED BY <1>2, <4>1, <4>2, <4>3 DEF Edit
      <3> QED BY <2>1, <3>1, <3>2 DEF BlankInv
    <2> QED BY <1>2, <2>2, <2>3, EditOutcome
  <1>3. ASSUME NEW ws, NEW saved, NEW done, Flush(ws, saved, done) PROVE BlankInv'
    BY <1>3, FlushKeeps DEF BlankInv
  <1>4. CASE timerFires \/ retryClicked
    BY <1>3, <1>4 DEF timerFires, retryClicked
  <1>5. ASSUME NEW w \in Saves, save(w) PROVE BlankInv'
    BY <1>3, <1>5 DEF save
  <1>6. ASSUME NEW p \in posts, renderCurrent(p) \/ uploadFailed(p) \/ annotate(p)
        PROVE  BlankInv'
    <2>1. background /\ UNCHANGED <<background, history, historyIndex, shown, typing>>
      BY <1>6 DEF renderCurrent, uploadFailed, annotate, client, canvas, BlankInv
    <2> QED BY <2>1 DEF BlankInv
  <1>7. ASSUME NEW p \in posts, uploaded(p) PROVE BlankInv'
    BY <1>3, <1>7 DEF uploaded
  <1>8. CASE deleteImage \/ deleteFailed
    BY <1>8 DEF deleteImage, deleteFailed, client, canvas, saving, BlankInv
  <1>9. CASE deleted
    BY <1>9 DEF deleted, gone, canvas, BlankInv
  <1>10. CASE leave
    <2>1. posts = {} => posts' = {}
      BY <1>10 DEF leave
    <2> QED BY <1>10, <2>1 DEF leave, gone, canvas, BlankInv
  <1>11. CASE UNCHANGED vars
    BY <1>11 DEF vars, client, canvas, saving, BlankInv
  <1> QED BY <1>1, <1>2, <1>4, <1>5, <1>6, <1>7, <1>8, <1>9, <1>10, <1>11
          DEF Next, Edit, Answered, Served, Left

(* Steps that make no snapshot have none that was not there.               *)
LEMMA NothingNew ==
    ASSUME RevInv, Known' \subseteq Known, UNCHANGED revCounter,
           savedRev' = savedRev \/ \E s \in Known : savedRev' = s.rev
    PROVE  RevInv'
  BY DEF RevInv

LEMMA KnownSnapshots ==
    ASSUME UNCHANGED history,
           \A p \in posts' : \E q \in posts : p.snap = q.snap
    PROVE  Known' \subseteq Known
  BY DEF Known

LEMMA KnownFlush ==
    ASSUME TypeOK, BlankInv, NEW ws, NEW saved, NEW done, Flush(ws, saved, done)
    PROVE  Known' \subseteq Known
  <1>1. history # << >> => render.snap \in Known
    BY CurrentTyped DEF render
  <1>2. ASSUME NEW p \in posts' PROVE p.snap \in Known
    <2>1. CASE p \in posts
      BY <2>1 DEF Known
    <2>2. CASE history # << >> /\ p = render
      BY <1>1, <2>2
    <2> QED BY <2>1, <2>2, FlushKeeps
  <1>3. history' = history
    BY FlushKeeps
  <1> QED BY <1>2, <1>3 DEF Known

(* Recording keeps a part of the history and adds a snapshot.              *)
LEMMA KnownPush ==
    ASSUME TypeOK, UNCHANGED posts, NEW i \in 0..Len(history), NEW d \in Drawings,
           history' = Pushed(i, d)
    PROVE  Known' \subseteq Known \cup {Snap(d)}
  <1> DEFINE s == Snap(d)
  <1>1. /\ Len(history') = i + 1 /\ history'[i + 1] = s
        /\ \A j \in 1..i : history'[j] = history[j]
    BY PushedHistory
  <1> HIDE DEF s
  <1>2. i \in Nat /\ Len(history) \in Nat
    BY DEF TypeOK
  <1>3. \A k \in 1..Len(history') :
          history'[k] = s \/ \E j \in 1..Len(history) : history'[k] = history[j]
    BY <1>1, <1>2
  <1>4. Known' \subseteq Known \cup {s}
    BY ZenonT(40), <1>3 DEF Known
  <1> QED BY <1>4 DEF s

(* A new snapshot gets a revision that no other has.                       *)
LEMMA NewRevision ==
    ASSUME TypeOK, RevInv, NEW d \in Drawings, revCounter' = revCounter + 1,
           Known' \subseteq Known \cup {Snap(d)},
           savedRev' = savedRev \/ \E u \in Known \cup {Snap(d)} : savedRev' = u.rev
    PROVE  RevInv' /\ \A u \in Known : u.rev # Snap(d).rev
  <1> DEFINE s == Snap(d)
  <1>1. s \in Snapshot /\ s.rev = revCounter + 1
    BY SnapTyped
  <1> HIDE DEF s
  <1>2. Known \subseteq Snapshot
    BY DEF Known, TypeOK, Post
  <1>3. \A u \in Known : u.rev \in Nat /\ u.rev <= revCounter
    BY <1>2 DEF Snapshot, RevInv
  <1>4. revCounter \in Nat /\ savedRev \in Nat /\ savedRev <= revCounter
    BY DEF TypeOK, RevInv
  <1>5. Known' \subseteq Known \cup {s} /\ \A u \in Known : u.rev # s.rev
    BY <1>1, <1>3, <1>4 DEF s
  <1>6. \A u \in Known' : u.rev <= revCounter'
    BY <1>1, <1>3, <1>4, <1>5
  <1>7. savedRev' <= revCounter'
    <2>1. CASE savedRev' = savedRev
      BY <1>4, <2>1
    <2>2. ASSUME NEW u \in Known \cup {s}, savedRev' = u.rev PROVE savedRev' <= revCounter'
      BY <1>1, <1>3, <1>4, <2>2
    <2> QED BY <2>1, <2>2 DEF s
  <1>8. ASSUME NEW u \in Known', NEW v \in Known', u.rev = v.rev PROVE u = v
    <2>1. u \in Known \cup {s} /\ v \in Known \cup {s}
      BY <1>5
    <2> QED BY <1>5, <1>8, <2>1 DEF RevInv
  <1> QED BY <1>5, <1>6, <1>7, <1>8 DEF RevInv, s

(* What becomes of an upload when it is rendered, given up or served.      *)
LEMMA RenderOutcome ==
    ASSUME TypeOK, NEW p \in posts, renderCurrent(p)
    PROVE  \E q : /\ posts' = (posts \ {p}) \cup {q}
                  /\ q.snap = p.snap /\ q.givenUp = p.givenUp /\ q.at = "sent"
  <1> DEFINE q == [p EXCEPT !.at = "sent"]
  <1>1. q.snap = p.snap /\ q.givenUp = p.givenUp /\ q.at = "sent"
    BY DEF TypeOK, Post
  <1>2. posts' = (posts \ {p}) \cup {q}
    BY DEF renderCurrent
  <1> QED BY <1>1, <1>2

LEMMA FailOutcome ==
    ASSUME TypeOK, NEW p \in posts, uploadFailed(p)
    PROVE  \A q \in posts' : (q \in posts /\ q # p) \/ (q.givenUp /\ q.snap = p.snap)
  <1> DEFINE r == [p EXCEPT !.givenUp = TRUE]
  <1>1. r.givenUp /\ r.snap = p.snap
    BY DEF TypeOK, Post
  <1>2. posts' \subseteq (posts \ {p}) \cup {r}
    BY DEF uploadFailed
  <1> QED BY <1>1, <1>2

LEMMA AnnotateOutcome ==
    ASSUME TypeOK, NEW p \in posts, annotate(p)
    PROVE  \E ok \in BOOLEAN :
              /\ server' = IF ok THEN p.snap.objects ELSE server
              /\ reported' = IF ok THEN p.givenUp ELSE reported
              /\ p.givenUp => posts' = posts \ {p}
              /\ ~p.givenUp => \E q : /\ posts' = (posts \ {p}) \cup {q}
                                     /\ q.snap = p.snap /\ ~q.givenUp
                                     /\ q.at = IF ok THEN "applied" ELSE "refused"
  <1>1. PICK ok \in BOOLEAN :
          /\ server' = IF ok THEN p.snap.objects ELSE server
          /\ reported' = IF ok THEN p.givenUp ELSE reported
          /\ posts' = (posts \ {p})
                      \cup (IF p.givenUp THEN {}
                            ELSE {[p EXCEPT !.at = IF ok THEN "applied" ELSE "refused"]})
    BY DEF annotate
  <1> DEFINE q == [p EXCEPT !.at = IF ok THEN "applied" ELSE "refused"]
  <1>2. /\ q.snap = p.snap /\ q.givenUp = p.givenUp
        /\ q.at = IF ok THEN "applied" ELSE "refused"
    BY DEF TypeOK, Post
  <1>3. posts' = (posts \ {p}) \cup (IF p.givenUp THEN {} ELSE {q})
    BY <1>1
  <1> HIDE DEF q
  <1>4. ~p.givenUp => posts' = (posts \ {p}) \cup {q}
    BY <1>3
  <1>5. p.givenUp => posts' = posts \ {p}
    BY <1>3
  <1> QED BY <1>1, <1>2, <1>4, <1>5

(* No step of an upload makes a snapshot, or touches the canvas.           *)
LEMMA PostsKeepSnapshots ==
    ASSUME TypeOK, NEW p \in posts, renderCurrent(p) \/ uploadFailed(p) \/ annotate(p)
    PROVE  /\ Known' \subseteq Known
           /\ UNCHANGED <<drawn, shown, typing, background, history, historyIndex, revCounter,
                          astray, savedRev, taken, leaving, deletion, page>>
  <1>1. UNCHANGED <<drawn, shown, typing, background, history, historyIndex, revCounter,
                    astray, savedRev, taken, leaving, deletion, page>>
    BY DEF renderCurrent, uploadFailed, annotate, client, canvas, saving
  <1>2. \A q \in posts' : q \in posts \/ q.snap = p.snap
    BY RenderOutcome, FailOutcome, AnnotateOutcome
  <1> QED BY <1>1, <1>2, KnownSnapshots

(* Leaving changes neither.                                                *)
LEMMA LeaveOutcome ==
    ASSUME TypeOK, leave \/ deleted
    PROVE  /\ Known' \subseteq Known /\ Open /\ ~Open'
           /\ UNCHANGED <<drawn, shown, typing, background, history, historyIndex, revCounter,
                          astray, savedRev, taken, leaving, reported, deletion>>
  <1>1. /\ Open /\ ~Open'
        /\ UNCHANGED <<drawn, shown, typing, background, history, historyIndex, revCounter,
                       astray, savedRev, taken, leaving, reported, deletion>>
    BY DEF leave, deleted, gone, canvas, Open, warns
  <1>2. \A q \in posts : [q EXCEPT !.givenUp = TRUE].snap = q.snap
    BY DEF TypeOK, Post
  <1>3. \A p \in posts' : \E q \in posts : p.snap = q.snap
    <2>1. leave => posts' \subseteq {[p EXCEPT !.givenUp = TRUE] : p \in posts}
      BY DEF leave
    <2>2. deleted => posts' = posts
      BY DEF deleted
    <2> QED BY <1>2, <2>1, <2>2
  <1> QED BY <1>1, <1>3, KnownSnapshots

LEMMA RevStep ==
    ASSUME TypeOK, BlankInv, RevInv, [Next]_vars
    PROVE  RevInv'
  <1>1. CASE initCanvas
    <2>1. /\ posts' = posts /\ history' = Pushed(Len(history), shown)
          /\ revCounter' = revCounter + 1 /\ savedRev' = history'[1].rev
      BY <1>1, InitOutcome
    <2>2. shown \in Drawings /\ Len(history) \in 0..Len(history)
      BY DEF TypeOK
    <2>3. Known' \subseteq Known \cup {Snap(shown)}
      BY <2>1, <2>2, KnownPush
    <2>4. history'[1] \in Known'
      <3>1. 1 \in 1..Len(history')
        BY <1>1, InitOutcome DEF TypeOK
      <3> QED BY <3>1 DEF Known
    <2> QED BY <2>1, <2>2, <2>3, <2>4, NewRevision
  <1>2. CASE Edit
    <2>1. UNCHANGED <<posts, savedRev>>
      BY <1>2, EditOutcome
    <2>2. CASE Moves
      <3>1. UNCHANGED <<history, revCounter>>
        BY <2>2 DEF Moves
      <3> QED BY <2>1, <3>1, NothingNew DEF Known
    <2>3. ASSUME NEW i \in 0..Len(history), NEW d \in Drawings, Pushes(i, d) PROVE RevInv'
      <3>1. history' = Pushed(i, d) /\ revCounter' = revCounter + 1
        BY <2>3 DEF Pushes
      <3> QED BY <2>1, <3>1, KnownPush, NewRevision
    <2> QED BY <1>2, <2>2, <2>3, EditOutcome
  <1>3. ASSUME NEW ws, NEW done, Flush(ws, savedRev, done) PROVE RevInv'
    BY <1>3, KnownFlush, FlushKeeps, NothingNew
  <1>4. CASE timerFires \/ retryClicked
    BY <1>3, <1>4 DEF timerFires, retryClicked
  <1>5. ASSUME NEW w \in Saves, save(w) PROVE RevInv'
    BY <1>3, <1>5 DEF save
  <1>6. ASSUME NEW p \in posts, uploaded(p) PROVE RevInv'
    <2>1. Flush(saveWaiters, p.snap.rev, {p})
      BY <1>6 DEF uploaded
    <2>2. p.snap \in Known
      BY DEF Known
    <2> QED BY <2>1, <2>2, KnownFlush, FlushKeeps, NothingNew
  <1>7. ASSUME NEW p \in posts, renderCurrent(p) \/ uploadFailed(p) \/ annotate(p)
        PROVE  RevInv'
    BY <1>7, PostsKeepSnapshots, NothingNew
  <1>8. CASE deleted \/ leave
    BY <1>8, LeaveOutcome, NothingNew
  <1>9. CASE deleteImage \/ deleteFailed \/ UNCHANGED vars
    <2>1. UNCHANGED <<history, posts, revCounter, savedRev>>
      BY <1>9 DEF deleteImage, deleteFailed, vars, client, canvas, saving
    <2> QED BY <2>1, NothingNew DEF Known
  <1> QED BY <1>1, <1>2, <1>4, <1>5, <1>6, <1>7, <1>8, <1>9
          DEF Next, Edit, Answered, Served, Left

(* The current snapshot and the canvas.                                    *)
LEMMA ScreenStep ==
    ASSUME TypeOK, BlankInv, ScreenIsRecorded, [Next]_vars
    PROVE  ScreenIsRecorded'
  <1>1. CASE initCanvas
    <2>1. SUFFICES ASSUME ~typing', ~astray' PROVE shown' = current'.objects
      BY DEF ScreenIsRecorded
    <2>2. /\ current' = IF history = << >> THEN Snap(shown) ELSE history[1]
          /\ shown' = shown /\ ~typing /\ ~(historyIndex > 1)
      BY <1>1, <2>1, InitOutcome DEF current
    <2>3. CASE history = << >>
      BY <2>2, <2>3 DEF Snap
    <2>4. CASE history # << >>
      <3>1. historyIndex = 1
        BY <2>2, <2>4 DEF BlankInv, TypeOK
      <3>2. ~astray
        BY <1>1, <2>2, InitOutcome DEF BlankInv
      <3> QED BY <2>2, <2>4, <3>1, <3>2 DEF ScreenIsRecorded, current
    <2> QED BY <2>3, <2>4
  <1>2. ASSUME NEW i \in 0..Len(history), NEW d \in Drawings, Pushes(i, d)
        PROVE  current'.objects = d
    BY <1>2, PushedHistory, SnapTyped DEF Pushes, current
  <1>3. CASE commit
    <2>1. Draws /\ Recorded(drawn + 1)
      BY <1>3 DEF commit
    <2>2. drawn + 1 \in Drawings /\ Pushes(historyIndex, drawn + 1) /\ shown' = drawn + 1
      BY <2>1, DrawsTyped DEF Recorded, Pushes
    <2>3. historyIndex \in 0..Len(history)
      BY DEF TypeOK
    <2> QED BY <1>2, <2>2, <2>3 DEF ScreenIsRecorded
  <1>4. CASE exitEditing
    <2>1. Recorded(shown) /\ shown' = shown
      BY <1>4 DEF exitEditing
    <2>2. Pushes(historyIndex, shown)
      BY <2>1 DEF Recorded, Pushes
    <2>3. historyIndex \in 0..Len(history) /\ shown \in Drawings
      BY DEF TypeOK
    <2> QED BY <1>2, <2>1, <2>2, <2>3 DEF ScreenIsRecorded
  <1>5. CASE undo \/ redo
    <2>1. PICK i \in 1..Len(history) : GoTo(i)
      BY <1>5 DEF undo, redo, TypeOK
    <2>2. CASE typing
      BY <2>1, <2>2 DEF GoTo, ScreenIsRecorded
    <2>3. CASE ~typing
      BY <2>1, <2>3 DEF GoTo, ScreenIsRecorded, current
    <2> QED BY <2>2, <2>3
  <1>6. CASE typeText
    BY <1>6 DEF typeText, ScreenIsRecorded
  <1>7. ASSUME UNCHANGED <<shown, typing, astray, history, historyIndex>>
        PROVE  ScreenIsRecorded'
    BY <1>7 DEF ScreenIsRecorded, current
  <1>8. ASSUME NEW ws, NEW saved, NEW done, Flush(ws, saved, done) PROVE ScreenIsRecorded'
    BY <1>7, <1>8, FlushKeeps
  <1>9. CASE timerFires \/ retryClicked
    BY <1>8, <1>9 DEF timerFires, retryClicked
  <1>10. ASSUME NEW w \in Saves, save(w) PROVE ScreenIsRecorded'
    BY <1>8, <1>10 DEF save
  <1>11. ASSUME NEW p \in posts, uploaded(p) PROVE ScreenIsRecorded'
    BY <1>8, <1>11 DEF uploaded
  <1>12. ASSUME NEW p \in posts, renderCurrent(p) \/ uploadFailed(p) \/ annotate(p)
         PROVE  ScreenIsRecorded'
    BY <1>7, <1>12, PostsKeepSnapshots
  <1>13. CASE deleted \/ leave
    BY <1>7, <1>13, LeaveOutcome
  <1>14. CASE deleteImage \/ deleteFailed \/ UNCHANGED vars
    BY <1>7, <1>14 DEF deleteImage, deleteFailed, vars, client, canvas
  <1> QED BY <1>1, <1>3, <1>4, <1>5, <1>6, <1>9, <1>10, <1>11, <1>12, <1>13, <1>14
          DEF Next, Answered, Served, Left

-----------------------------------------------------------------------------
(* Uploads. *)

NobodyResolved ==
    \A w \in Saves : promise'[w] = "resolved" => promise[w] = "resolved"

(* What a flush does to the uploads, given which of them has just ended.   *)
LEMMA FlushOutcome ==
    ASSUME TypeOK, BlankInv, UploadInv, Open, NEW ws, NEW saved, NEW done,
           Flush(ws, saved, done), done = {} \/ (done = Running /\ done # {})
    PROVE  \/ done = {} /\ UNCHANGED <<uploading, posts>> /\ NobodyResolved
           \/ /\ history # << >> /\ current.rev = saved
              /\ done = Running
              /\ ~uploading' /\ posts' = posts \ done /\ Running' = {}
           \/ /\ history # << >> /\ current.rev # saved
              /\ done = Running
              /\ uploading' /\ posts' = (posts \ done) \cup {render} /\ Running' = {render}
              /\ NobodyResolved
  <1>1. ASSUME NEW S, settle(S, "rejected") PROVE NobodyResolved
    BY <1>1 DEF settle, NobodyResolved, TypeOK
  <1>2. await(ws) => NobodyResolved
    BY DEF await, NobodyResolved, TypeOK
  <1>3. CASE done = {} /\ uploading
    BY <1>2, <1>3 DEF Flush, flush
  <1>4. CASE ~(done = {} /\ uploading)
    <2>1. done = Running
      BY <1>4 DEF UploadInv
    <2>2. CASE ~background
      <3>1. posts = {} /\ ~uploading /\ done = {}
        BY <2>1, <2>2 DEF BlankInv, Running
      <3>2. CASE history # << >> /\ current.rev = saved
        BY <1>4, <2>1, <3>1, <3>2 DEF Flush, flush, Running
      <3>3. CASE history = << >> \/ current.rev # saved
        <4>1. NobodyResolved
          BY <1>1, <2>2, <3>1, <3>3 DEF Flush, flush
        <4>2. posts' = posts /\ uploading' = uploading
          BY <2>2, <3>1, <3>3, <1>4 DEF Flush, flush, TypeOK
        <4> QED BY <3>1, <4>1, <4>2
      <3> QED BY <3>2, <3>3
    <2>3. CASE background
      <3>1. history # << >>
        BY <2>3 DEF BlankInv
      <3>2. CASE current.rev = saved
        BY <1>4, <2>1, <3>1, <3>2 DEF Flush, flush, Running
      <3>3. CASE current.rev # saved
        <4>1. /\ uploading' /\ posts' = (posts \ done) \cup {render}
              /\ NobodyResolved
          BY <1>2, <1>4, <2>3, <3>1, <3>3 DEF Flush, flush
        <4>2. ~render.givenUp
          BY DEF render
        <4>3. Running' = {render}
          BY <2>1, <4>1, <4>2 DEF Running
        <4> QED BY <2>1, <3>1, <3>3, <4>1, <4>3
      <3> QED BY <3>2, <3>3
    <2> QED BY <2>2, <2>3
  <1> QED BY <1>3, <1>4

(* The upload that an answer is for is the only one.                       *)
LEMMA OnlyOne ==
    ASSUME UploadInv, Open, NEW p \in posts, ~p.givenUp
    PROVE  Running = {p} /\ uploading
  BY DEF UploadInv, Running

(* The uses of flush while nothing has ended.                              *)
FlushStep(ws) == Open /\ Flush(ws, savedRev, {})

LEMMA FlushSteps ==
    ASSUME timerFires \/ retryClicked \/ \E w \in Saves : save(w)
    PROVE  \E ws : FlushStep(ws)
  BY DEF timerFires, retryClicked, save, FlushStep

(* The steps of the page that have nothing to do with uploads.             *)
Aside == initCanvas \/ Edit \/ deleteImage \/ deleteFailed \/ UNCHANGED vars

LEMMA AsideOutcome ==
    ASSUME TypeOK, BlankInv, Aside
    PROVE  /\ UNCHANGED <<posts, page, uploading, promise, reported>>
           /\ server' \in {server, None}
           /\ UNCHANGED <<deletion, leaving>> \/ deletion' # "none"
           /\ ~initCanvas => UNCHANGED <<savedRev, taken>>
           /\ ~initCanvas /\ ~Edit => UNCHANGED history
           /\ Open \/ UNCHANGED vars
  <1>1. CASE initCanvas
    BY <1>1, InitOutcome
  <1>2. CASE Edit
    BY <1>2, EditOutcome
  <1>3. CASE (deleteImage \/ deleteFailed) /\ ~initCanvas /\ ~Edit
    BY <1>3 DEF deleteImage, deleteFailed, client, canvas, saving
  <1>4. CASE UNCHANGED vars /\ ~initCanvas /\ ~Edit
    BY <1>4 DEF vars, client, canvas, saving
  <1> QED BY <1>1, <1>2, <1>3, <1>4 DEF Aside

LEMMA UploadStep ==
    ASSUME TypeOK, BlankInv, UploadInv, [Next]_vars
    PROVE  UploadInv'
  <1>1. ASSUME UNCHANGED <<posts, page, uploading>> PROVE UploadInv'
    BY <1>1 DEF UploadInv, Running, Open
  <1>2. CASE Aside
    BY <1>1, <1>2, AsideOutcome
  <1>3. ASSUME NEW ws, FlushStep(ws) PROVE UploadInv'
    <2>1. page' = page /\ Open /\ Flush(ws, savedRev, {})
      BY <1>3, FlushKeeps DEF FlushStep
    <2>2. render \in {render}
      OBVIOUS
    <2> QED BY <1>1, <2>1, <2>2, FlushOutcome DEF UploadInv
  <1>4. CASE timerFires \/ retryClicked \/ \E w \in Saves : save(w)
    BY <1>3, <1>4, FlushSteps
  <1>6. ASSUME NEW p \in posts, uploaded(p) PROVE UploadInv'
    <2>1. page' = page /\ Open /\ Flush(saveWaiters, p.snap.rev, {p}) /\ ~p.givenUp
      BY <1>6, FlushKeeps DEF uploaded
    <2>2. Running = {p}
      BY <2>1, OnlyOne
    <2> QED BY <2>1, <2>2, FlushOutcome DEF UploadInv
  <1>7. ASSUME NEW p \in posts, renderCurrent(p) PROVE UploadInv'
    <2>1. Open /\ UNCHANGED <<page, uploading>>
      BY <1>7 DEF renderCurrent, client, saving
    <2>2. PICK q : posts' = (posts \ {p}) \cup {q} /\ q.givenUp = p.givenUp
      BY <1>7, RenderOutcome
    <2>4. p.givenUp => Running' = Running
      BY <2>2 DEF Running
    <2>5. ~p.givenUp => Running = {p} /\ uploading
      BY <2>1, OnlyOne
    <2>6. ~p.givenUp => Running' = {q}
      BY <2>2, <2>5 DEF Running
    <2>7. Running \subseteq posts' \/ ~p.givenUp
      BY <2>2 DEF Running
    <2> QED BY <2>1, <2>2, <2>4, <2>5, <2>6, <2>7 DEF UploadInv, Open
  <1>8. ASSUME NEW p \in posts, uploadFailed(p) PROVE UploadInv'
    <2>1. Open /\ ~uploading' /\ page' = page /\ ~p.givenUp
      BY <1>8 DEF uploadFailed
    <2>2. Running = {p}
      BY <2>1, OnlyOne
    <2>3. Running' = {}
      BY <1>8, <2>2, FailOutcome DEF Running
    <2> QED BY <2>1, <2>3 DEF UploadInv
  <1>9. ASSUME NEW p \in posts, annotate(p) PROVE UploadInv'
    <2>1. UNCHANGED <<page, uploading>>
      BY <1>9 DEF annotate, client, saving
    <2>2. CASE p.givenUp
      <3>1. posts' = posts \ {p}
        BY <1>9, <2>2, AnnotateOutcome
      <3>2. Running' = Running /\ \A q \in posts : q \in Running => q \in posts'
        BY <2>2, <3>1 DEF Running
      <3> QED BY <2>1, <3>1, <3>2 DEF UploadInv, Open, Running
    <2>3. CASE ~p.givenUp
      <3>1. PICK q : posts' = (posts \ {p}) \cup {q} /\ ~q.givenUp
        BY <1>9, <2>3, AnnotateOutcome
      <3>2. SUFFICES ASSUME Open PROVE UploadInv'
        BY <2>1 DEF UploadInv, Open
      <3>3. Running = {p} /\ uploading
        BY <3>2, <2>3, OnlyOne
      <3>4. Running' = {q}
        BY <3>1, <3>3 DEF Running
      <3> QED BY <2>1, <3>1, <3>3, <3>4 DEF UploadInv
    <2> QED BY <2>2, <2>3
  <1>10. CASE deleted \/ leave
    BY <1>10, LeaveOutcome DEF UploadInv
  <1> QED BY <1>2, <1>4, <1>6, <1>7, <1>8, <1>9, <1>10
          DEF Next, Edit, Aside, Answered, Served, Left

-----------------------------------------------------------------------------
(* What the server holds.                                                  *)

(* Of the steps that the page takes without an upload, some make a         *)
(* snapshot, and one may find the image gone.                              *)
LEMMA AsideKeepsSaved ==
    ASSUME TypeOK, BlankInv, RevInv, SavedInv, Aside
    PROVE  SavedInv'
  <1>1. /\ UNCHANGED <<posts, page, reported>> /\ server' \in {server, None}
        /\ ~initCanvas => UNCHANGED <<savedRev, taken>>
        /\ ~initCanvas /\ ~Edit => UNCHANGED history
    BY AsideOutcome
  <1>2. SUFFICES ASSUME Open PROVE SavedInv'
    BY <1>1 DEF SavedInv, Open
  <1>3. \A d : Holds(d) => Holds(d)'
    BY <1>1 DEF Holds
  <1>4. Running' = Running
    BY <1>1 DEF Running
  <1>5. CASE initCanvas
    <2>1. posts = {} /\ server' \in {0, None}
      BY <1>1, <1>5, InitOutcome DEF BlankInv
    <2>2. CASE taken'
      BY <1>4, <2>1, <2>2 DEF SavedInv, Running
    <2>3. CASE ~taken'
      <3>1. history'[1].objects = 0 /\ savedRev' = history'[1].rev /\ 1 \in 1..Len(history')
        BY <1>5, <2>3, InitOutcome DEF TypeOK
      <3>2. history'[1] \in Known'
        BY <3>1 DEF Known
      <3>3. RevInv'
        BY <1>5, RevStep DEF Next
      <3>4. \A s \in Known' : s.rev = savedRev' => s.objects = 0
        BY <3>1, <3>2, <3>3 DEF RevInv
      <3>5. \A s \in Known' : s.rev = savedRev' => Holds(s.objects)'
        BY <2>1, <3>4 DEF Holds
      <3> QED BY <1>4, <2>1, <3>5 DEF SavedInv, Running
    <2> QED BY <2>2, <2>3
  <1>6. ASSUME ~initCanvas, \A s \in Known' : s \in Known \/ s.rev # savedRev
        PROVE  SavedInv'
    BY <1>1, <1>2, <1>3, <1>4, <1>6 DEF SavedInv
  <1>7. CASE ~initCanvas /\ UNCHANGED history
    <2>1. Known' = Known
      BY <1>1, <1>7 DEF Known
    <2> QED BY <1>6, <1>7, <2>1
  <1>8. ASSUME ~initCanvas, NEW i \in 0..Len(history), NEW d \in Drawings, Pushes(i, d)
        PROVE  SavedInv'
    <2>1. Known' \subseteq Known \cup {Snap(d)}
      BY <1>1, <1>8, KnownPush DEF Pushes
    <2>2. Snap(d).rev # savedRev
      BY SnapTyped DEF RevInv, TypeOK
    <2> QED BY <1>6, <1>8, <2>1, <2>2
  <1> QED BY <1>1, <1>5, <1>7, <1>8, EditOutcome DEF Moves

(* A flush decides from revisions alone, and decides right.                *)
LEMMA FlushKeepsSaved ==
    ASSUME TypeOK, BlankInv, UploadInv, SavedInv, NEW ws, FlushStep(ws)
    PROVE  SavedInv'
  <1>1. Open /\ Flush(ws, savedRev, {})
    BY DEF FlushStep
  <1>2. UNCHANGED <<history, server, reported, page, savedRev>> /\ (taken => taken')
    BY <1>1, FlushKeeps
  <1>3. Known' \subseteq Known
    BY <1>1, KnownFlush
  <1>4. render.at = "rendering"
    BY DEF render
  <1>5. \A d : Holds(d)' = Holds(d)
    BY <1>1, <1>2 DEF Holds
  <1>6. CASE UNCHANGED posts
    <2>1. Running' = Running
      BY <1>6 DEF Running
    <2> QED BY <1>2, <1>3, <1>5, <2>1 DEF SavedInv, Open
  <1>7. CASE Running = {} /\ Running' \subseteq {render}
    BY <1>1, <1>2, <1>3, <1>4, <1>5, <1>7 DEF SavedInv, Open
  <1> QED BY <1>1, <1>6, <1>7, FlushOutcome

LEMMA UploadedKeepsSaved ==
    ASSUME TypeOK, BlankInv, RevInv, UploadInv, SavedInv, NEW p \in posts, uploaded(p)
    PROVE  SavedInv'
  <1>1. /\ Open /\ Flush(saveWaiters, p.snap.rev, {p})
        /\ p.at = "applied" /\ ~p.givenUp
    BY DEF uploaded
  <1>2. UNCHANGED <<history, server, reported, page>> /\ savedRev' = p.snap.rev
    BY <1>1, FlushKeeps
  <1>3. Known' \subseteq Known /\ p.snap \in Known
    BY <1>1, KnownFlush DEF Known
  <1>4. Running = {p}
    BY <1>1, OnlyOne
  <1>5. Running' \subseteq {render} /\ render.at = "rendering"
    BY <1>1, <1>4, FlushOutcome DEF render
  <1>6. Holds(p.snap.objects)'
    BY <1>1, <1>2, <1>4 DEF SavedInv, Holds
  <1>7. ASSUME NEW s \in Known', s.rev = savedRev' PROVE Holds(s.objects)'
    BY <1>2, <1>3, <1>6, <1>7 DEF RevInv
  <1> QED BY <1>5, <1>7 DEF SavedInv

(* Steps of an upload between its start and its end, and its failure.      *)
LEMMA PostKeepsSaved ==
    ASSUME TypeOK, UploadInv, SavedInv, Open,
           NEW p \in posts, renderCurrent(p) \/ uploadFailed(p) \/ annotate(p)
    PROVE  SavedInv'
  <1>1. Known' \subseteq Known
    BY PostsKeepSnapshots
  <1>2. UNCHANGED <<page, savedRev, taken>>
    BY PostsKeepSnapshots
  <1>3. CASE renderCurrent(p)
    <2>1. PICK q : /\ posts' = (posts \ {p}) \cup {q}
                   /\ q.snap = p.snap /\ q.givenUp = p.givenUp /\ q.at = "sent"
      BY <1>3, RenderOutcome
    <2>2. UNCHANGED <<server, reported>> /\ p.at = "rendering"
      BY <1>3 DEF renderCurrent
    <2>3. \A r : r.at = "applied" => (r \in Running' <=> r \in Running)
      BY <2>1, <2>2 DEF Running
    <2>4. \A d : Holds(d)' = Holds(d)
      BY <2>2 DEF Holds
    <2> QED BY <1>1, <1>2, <2>3, <2>4 DEF SavedInv, Open
  <1>4. CASE uploadFailed(p)
    <2>1. ~p.givenUp /\ reported' = (reported \/ p.at = "applied") /\ server' = server
      BY <1>4 DEF uploadFailed
    <2>2. \A q \in posts' : (q \in posts /\ q # p) \/ (q.givenUp /\ q.snap = p.snap)
      BY <1>4, FailOutcome
    <2>3. Running = {p}
      BY <2>1, OnlyOne
    <2>4. Running' = {}
      BY <2>2, <2>3 DEF Running
    <2>5. \A d : Holds(d) => Holds(d)'
      BY <2>1 DEF Holds
    <2>6. p.at = "applied" => \A d : Holds(d)'
      BY <2>1 DEF Holds
    <2> QED BY <1>1, <1>2, <2>3, <2>4, <2>5, <2>6 DEF SavedInv, Open
  <1>5. CASE annotate(p)
    <2>1. p.at = "sent"
      BY <1>5 DEF annotate
    <2>2. PICK ok \in BOOLEAN :
            /\ server' = IF ok THEN p.snap.objects ELSE server
            /\ reported' = IF ok THEN p.givenUp ELSE reported
            /\ p.givenUp => posts' = posts \ {p}
            /\ ~p.givenUp => \E q : /\ posts' = (posts \ {p}) \cup {q}
                                    /\ q.snap = p.snap /\ ~q.givenUp
                                    /\ q.at = IF ok THEN "applied" ELSE "refused"
      BY <1>5, AnnotateOutcome
    <2>3. ~ok => \A d : Holds(d)' = Holds(d)
      BY <2>2 DEF Holds
    <2>4. CASE p.givenUp
      <3>1. Running' = Running
        BY <2>2, <2>4 DEF Running
      <3>2. \A d : Holds(d) => Holds(d)'
        BY <2>2, <2>3, <2>4 DEF Holds
      <3> QED BY <1>1, <1>2, <3>1, <3>2 DEF SavedInv, Open
    <2>5. CASE ~p.givenUp
      <3>1. PICK q : /\ posts' = (posts \ {p}) \cup {q}
                     /\ q.snap = p.snap /\ ~q.givenUp
                     /\ q.at = IF ok THEN "applied" ELSE "refused"
        BY <2>2, <2>5
      <3>2. Running = {p}
        BY <2>5, OnlyOne
      <3>3. Running' = {q}
        BY <3>1, <3>2 DEF Running
      <3>4. CASE ok
        BY <2>2, <3>1, <3>3, <3>4 DEF SavedInv, Holds
      <3>5. CASE ~ok
        BY <1>1, <1>2, <2>1, <2>3, <3>1, <3>2, <3>3, <3>5 DEF SavedInv, Open
      <3> QED BY <3>4, <3>5
    <2> QED BY <2>4, <2>5
  <1> QED BY <1>3, <1>4, <1>5

LEMMA SavedStep ==
    ASSUME TypeOK, BlankInv, RevInv, UploadInv, SavedInv, [Next]_vars
    PROVE  SavedInv'
  <1>1. CASE timerFires \/ retryClicked \/ \E w \in Saves : save(w)
    BY <1>1, FlushSteps, FlushKeepsSaved
  <1>2. ASSUME NEW p \in posts, renderCurrent(p) \/ uploadFailed(p) \/ annotate(p)
        PROVE  SavedInv'
    <2>1. CASE Open
      BY <1>2, <2>1, PostKeepsSaved
    <2>2. CASE ~Open
      BY <1>2, <2>2, PostsKeepSnapshots DEF SavedInv, Open
    <2> QED BY <2>1, <2>2
  <1>3. ASSUME NEW p \in posts, uploaded(p) PROVE SavedInv'
    BY <1>3, UploadedKeepsSaved
  <1>4. CASE deleted \/ leave
    BY <1>4, LeaveOutcome DEF SavedInv
  <1>5. CASE Aside
    BY <1>5, AsideKeepsSaved
  <1> QED BY <1>1, <1>2, <1>3, <1>4, <1>5 DEF Next, Edit, Aside, Answered, Served, Left

LEMMA LeavingStep ==
    ASSUME TypeOK, BlankInv, LeavingInv, [Next]_vars
    PROVE  LeavingInv'
  <1>1. ASSUME UNCHANGED <<deletion, leaving>> \/ deletion' # "none" PROVE LeavingInv'
    BY <1>1 DEF LeavingInv
  <1>2. CASE Aside
    BY <1>1, <1>2, AsideOutcome
  <1>3. ASSUME NEW ws, NEW saved, NEW done, Flush(ws, saved, done) PROVE LeavingInv'
    BY <1>1, <1>3, FlushKeeps
  <1>4. CASE timerFires \/ retryClicked \/ \E w \in Saves : save(w)
    BY <1>3, <1>4, FlushSteps DEF FlushStep
  <1>5. ASSUME NEW p \in posts, uploaded(p) PROVE LeavingInv'
    BY <1>3, <1>5 DEF uploaded
  <1>6. ASSUME NEW p \in posts, renderCurrent(p) \/ uploadFailed(p) \/ annotate(p)
        PROVE  LeavingInv'
    BY <1>1, <1>6, PostsKeepSnapshots
  <1>7. CASE deleted \/ leave
    BY <1>1, <1>7, LeaveOutcome
  <1> QED BY <1>2, <1>4, <1>5, <1>6, <1>7 DEF Next, Edit, Aside, Answered, Served, Left

(* What the page concludes when nothing runs and the current snapshot      *)
(* counts as saved.                                                        *)
LEMMA SavedIsHeld ==
    ASSUME TypeOK, BlankInv, ScreenIsRecorded, SavedInv, Open, Running = {},
           history # << >> => current.rev = savedRev
    PROVE  Held \/ Unnoticed
  <1>1. CASE history = << >>
    BY <1>1 DEF BlankInv, Held, Unnoticed
  <1>2. CASE history # << >> /\ taken
    BY <1>2 DEF Unnoticed
  <1>3. CASE history # << >> /\ ~taken
    <2>1. Holds(current.objects)
      BY <1>3, CurrentTyped DEF SavedInv
    <2>2. ~typing /\ ~astray => shown = current.objects
      BY <1>3 DEF ScreenIsRecorded
    <2> QED BY <2>1, <2>2 DEF Holds, Held, Unnoticed
  <1> QED BY <1>1, <1>2, <1>3

(* A page that is left without a warning has nothing on its way but what   *)
(* was reported.                                                           *)
LEMMA LeftStep ==
    ASSUME TypeOK, BlankInv, UploadInv, ScreenIsRecorded, SavedInv, LeavingInv, LeftInv,
           [Next]_vars
    PROVE  LeftInv'
  <1>1. CASE leave
    <2>1. SUFFICES ASSUME page' = "left", deletion' = "none"
                   PROVE  (Held \/ Unnoticed)' /\ \A p \in posts' : p.givenUp
      BY DEF LeftInv
    <2>2. /\ Open /\ ~warns
          /\ UNCHANGED <<shown, typing, history, historyIndex, astray, taken, savedRev,
                         server, reported, deletion>>
      BY <1>1, <2>1 DEF leave, gone, canvas
    <2>3. history # << >> => ~uploading /\ current.rev = savedRev
      BY <2>1, <2>2 DEF warns, LeavingInv
    <2>4. Running = {}
      BY <2>2, <2>3 DEF UploadInv, BlankInv, Running
    <2>5. Held \/ Unnoticed
      BY <2>2, <2>3, <2>4, SavedIsHeld
    <2>6. (Held \/ Unnoticed)'
      BY <2>2, <2>5 DEF Held, Unnoticed, current
    <2>7. \A q \in posts : [q EXCEPT !.givenUp = TRUE].givenUp
      BY DEF TypeOK, Post
    <2>8. posts' \subseteq {[p EXCEPT !.givenUp = TRUE] : p \in posts}
      BY <1>1 DEF leave
    <2> QED BY <2>6, <2>7, <2>8
  <1>2. ASSUME NEW p \in posts, annotate(p) PROVE LeftInv'
    <2>1. UNCHANGED <<shown, typing, history, historyIndex, astray, taken, savedRev,
                      deletion, page>>
      BY <1>2, PostsKeepSnapshots
    <2>2. SUFFICES ASSUME page = "left", deletion = "none"
                   PROVE  (Held \/ Unnoticed)' /\ \A q \in posts' : q.givenUp
      BY <2>1 DEF LeftInv
    <2>3. (Held \/ Unnoticed) /\ \A q \in posts : q.givenUp
      BY <2>2 DEF LeftInv
    <2>4. posts' = posts \ {p} /\ (UNCHANGED <<server, reported>> \/ reported')
      BY <1>2, <2>3, AnnotateOutcome
    <2>5. Held => Held'
      BY <2>1, <2>4 DEF Held
    <2>6. Unnoticed => Unnoticed'
      BY <2>1 DEF Unnoticed, current
    <2> QED BY <2>3, <2>4, <2>5, <2>6
  <1>3. ASSUME Open, UNCHANGED page PROVE LeftInv'
    BY <1>3 DEF LeftInv, Open
  <1>4. ASSUME NEW ws, NEW saved, NEW done, Open, Flush(ws, saved, done) PROVE LeftInv'
    BY <1>3, <1>4, FlushKeeps
  <1>5. CASE timerFires \/ retryClicked \/ \E w \in Saves : save(w)
    BY <1>4, <1>5, FlushSteps DEF FlushStep
  <1>6. CASE Aside /\ Open
    BY <1>3, <1>6, AsideOutcome
  <1>7. ASSUME NEW p \in posts, renderCurrent(p) \/ uploaded(p) \/ uploadFailed(p)
        PROVE  LeftInv'
    BY <1>3, <1>4, <1>7 DEF renderCurrent, uploaded, uploadFailed
  <1>8. CASE deleted
    BY <1>8 DEF deleted, LeftInv
  <1>9. CASE UNCHANGED vars
    BY <1>9 DEF vars, client, canvas, saving, LeftInv, Held, Unnoticed, current
  <1>10. CASE Aside /\ ~Open
    BY <1>9, <1>10, AsideOutcome
  <1> QED BY <1>1, <1>2, <1>5, <1>6, <1>7, <1>8, <1>9, <1>10
          DEF Next, Edit, Aside, Answered, Served, Left

-----------------------------------------------------------------------------

LEMMA EditorInvariant == Spec => []Inv
  <1>1. Init => Inv
    <2> SUFFICES ASSUME Init PROVE Inv
      OBVIOUS
    <2>1. TypeOK
      <3>1. history \in Seq(Snapshot) /\ Len(history) = 0
        BY DEF Init
      <3>2. 0 \in Drawings
        BY BoundAssumption DEF Drawings
      <3>3. historyIndex \in 0..Len(history) /\ revCounter \in Nat /\ savedRev \in Nat
        BY <3>1 DEF Init
      <3>4. promise \in [Saves -> {"none", "pending", "resolved", "rejected"}]
        BY DEF Init
      <3>5. posts \subseteq Post /\ saveWaiters \subseteq Saves
        BY DEF Init
      <3> QED BY <3>1, <3>2, <3>3, <3>4, <3>5 DEF Init, TypeOK
    <2>2. Known = {} /\ Running = {}
      BY DEF Init, Known, Running
    <2> QED BY <2>1, <2>2 DEF Init, Inv, BlankInv, RevInv, UploadInv, ScreenIsRecorded,
                              SavedInv, LeavingInv, LeftInv
  <1>2. Inv /\ [Next]_vars => Inv'
    BY TypeStep, BlankStep, RevStep, UploadStep, ScreenStep, SavedStep, LeavingStep, LeftStep
       DEF Inv
  <1> QED BY <1>1, <1>2, PTL DEF Spec

(* Every variable of the page keeps its type: undo, redo, commit and       *)
(* initCanvas, which resets historyIndex, never leave the history.         *)
THEOREM EditorTypes == Spec => []TypeOK
  <1>1. Inv => TypeOK
    BY DEF Inv
  <1> QED BY <1>1, EditorInvariant, PTL

(* However timers, answers and clicks interleave, at most one upload runs, *)
(* and the uploading flag of the page says whether one does.               *)
THEOREM UploadsAreSingle == Spec => []OneUpload
  <1>1. Inv => OneUpload
    <2> SUFFICES ASSUME Inv, Open
                 PROVE  Cardinality(Running) = IF uploading THEN 1 ELSE 0
      BY DEF OneUpload, Running
    <2>1. CASE uploading
      <3>1. PICK p \in posts : Running = {p}
        BY <2>1 DEF Inv, UploadInv
      <3> QED BY <2>1, <3>1, FS_Singleton
    <2>2. CASE ~uploading
      BY <2>2, FS_EmptySet DEF Inv, UploadInv
    <2> QED BY <2>1, <2>2
  <1> QED BY <1>1, EditorInvariant, PTL

(* The snapshot that will be uploaded is the drawing on the canvas,        *)
(* whatever was drawn, undone and redone, in the cases that the property   *)
(* does not except: no text in editing and the canvas not astray.          *)
THEOREM ScreenStaysRecorded == Spec => []ScreenIsRecorded
  <1>1. Inv => ScreenIsRecorded
    BY DEF Inv
  <1> QED BY <1>1, EditorInvariant, PTL

(* A page left without a warning leaves the server with what was on        *)
(* screen, whatever uploads given up earlier do later, or the case is one  *)
(* of those in Unnoticed, or of a deletion.                                *)
THEOREM LeavingIsSafe == Spec => []LeaveIsSafe
  <1>1. Inv => LeaveIsSafe
    BY DEF Inv, LeftInv, LeaveIsSafe
  <1> QED BY <1>1, EditorInvariant, PTL

(* A resolved save() means that the server holds the drawing of that       *)
(* moment, the cases in Unnoticed apart. The page knows from revisions     *)
(* alone.                                                                  *)
THEOREM SavesKeepPromise == Spec => SaveKeepsPromise
  <1> DEFINE Kept == \A w \in Saves :
                        promise[w] # "resolved" /\ promise'[w] = "resolved"
                           => Held \/ Unnoticed
  <1>1. ASSUME Inv, [Next]_vars PROVE [Kept]_vars
    <2>1. SUFFICES ASSUME NEW w \in Saves, promise[w] # "resolved", promise'[w] = "resolved"
                   PROVE  Held \/ Unnoticed
      BY DEF Kept
    <2> USE <1>1 DEF Inv
    <2>2. ASSUME NEW ws, FlushStep(ws) PROVE Held \/ Unnoticed
      <3>1. Open /\ Flush(ws, savedRev, {})
        BY <2>2 DEF FlushStep
      <3>2. Running = {} /\ current.rev = savedRev
        BY <2>1, <3>1, FlushOutcome DEF NobodyResolved
      <3> QED BY <3>1, <3>2, SavedIsHeld
    <2>3. CASE timerFires \/ retryClicked \/ \E v \in Saves : save(v)
      BY <2>2, <2>3, FlushSteps
    <2>4. ASSUME NEW p \in posts, uploaded(p) PROVE Held \/ Unnoticed
      <3>1. /\ Open /\ Flush(saveWaiters, p.snap.rev, {p})
            /\ p.at = "applied" /\ ~p.givenUp
        BY <2>4 DEF uploaded
      <3>2. Running = {p}
        BY <3>1, OnlyOne
      <3>3. history # << >> /\ current.rev = p.snap.rev
        BY <2>1, <3>1, <3>2, FlushOutcome DEF NobodyResolved
      <3>4. current \in Known /\ p.snap \in Known
        BY <3>3, CurrentTyped DEF Known
      <3>5. current = p.snap
        BY <3>3, <3>4 DEF RevInv
      <3>6. Holds(current.objects)
        BY <3>1, <3>2, <3>5 DEF SavedInv
      <3>7. ~typing /\ ~astray => shown = current.objects
        BY <3>3 DEF ScreenIsRecorded
      <3> QED BY <3>6, <3>7 DEF Holds, Held, Unnoticed
    <2>5. ASSUME NEW p \in posts, uploadFailed(p) PROVE Held \/ Unnoticed
      BY <2>1, <2>5 DEF uploadFailed, settle
    <2>6. ASSUME NEW p \in posts, renderCurrent(p) \/ annotate(p) PROVE Held \/ Unnoticed
      BY <2>1, <2>6 DEF renderCurrent, annotate, client, saving
    <2>7. CASE Aside
      BY <2>1, <2>7, AsideOutcome
    <2>8. CASE deleted \/ leave
      BY <2>1, <2>8 DEF deleted, leave, gone
    <2> QED BY <2>3, <2>4, <2>5, <2>6, <2>7, <2>8
            DEF Next, Edit, Aside, Answered, Served, Left
  <1> QED BY <1>1, EditorInvariant, PTL DEF Spec, SaveKeepsPromise
=============================================================================
