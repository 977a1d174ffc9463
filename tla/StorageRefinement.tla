-------------------------- MODULE StorageRefinement --------------------------
(***************************************************************************)
(* The proof that module Storage implements module FileStore.              *)
(***************************************************************************)
EXTENDS StorageProofs

(* The served files are unchanged when no rename or removal happens. *)
LEMMA FilesUnseen ==
    ASSUME file' = file
    PROVE  UNCHANGED <<SeenFiles("image"), SeenFiles("thumb")>>
  BY DEF SeenFiles

(* The move of one call, as the callers see it. *)
LEMMA CallSeen ==
    ASSUME TypeOK, NEW p \in Calls, NEW c, Becomes(p, c)
    PROVE  SeenCalls' = [SeenCalls EXCEPT ![p] = SeenCall(c)]
  BY DEF SeenCalls, Becomes

(* The store starts without files or calls. *)
LEMMA InitRefines == Init => Promise!Init
<1> SUFFICES ASSUME Init PROVE Promise!Init
    OBVIOUS
<1>1. \A k \in Kinds : SeenFiles(k) = [i \in Ids |-> None]
    BY DEF Init, SeenFiles, Seen
<1>2. SeenCalls = [p \in Calls |-> Promise!Idle]
    BY DEF Init, SeenCalls, SeenCall, Stage, Idle, Returned, Deleting, Promise!Idle
<1>3. (up = "serving") = FALSE
    BY DEF Init
<1> QED BY <1>1, <1>2, <1>3 DEF Promise!Init, Kinds

(* A call as its caller makes it. *)
LEMMA BeginRefines ==
    ASSUME IInv, NEW p \in Calls, NEW at \in {"lstat", "read", "rmimage"},
           NEW i \in Ids, NEW b \in Bodies \cup {None}, Begin(p, at, i, b)
    PROVE  Promise!Begin(p, IF at = "lstat" THEN "check"
                            ELSE IF at = "read" THEN "prepare" ELSE at, i, b)
<1> DEFINE c == [Idle EXCEPT !.at = at, !.id = i, !.body = b]
<1>1. c \in CallState
    BY DEF Idle, CallState, Kinds, Active, Deleting
<1>2. Becomes(p, c)
    BY <1>1 DEF Begin, Becomes, IInv, TypeOK
<1>3. SeenCall(c) = [at |-> IF at = "lstat" THEN "check"
                            ELSE IF at = "read" THEN "prepare" ELSE at,
                     id |-> i, body |-> b]
    BY DEF SeenCall, Stage, Idle, Deleting, Returned
<1>4. SeenCalls[p] = Promise!Idle
    BY DEF Begin, SeenCalls, SeenCall, Stage, Idle, Deleting, Returned, Promise!Idle
<1> HIDE DEF c
<1>5. SeenCalls' = [SeenCalls EXCEPT ![p] = SeenCall(c)]
    BY <1>2, CallSeen DEF IInv
<1>6. up = "serving" /\ up' = up /\ file' = file
    BY DEF Begin
<1> QED BY <1>3, <1>4, <1>5, <1>6, FilesUnseen DEF Promise!Begin

(* A return. *)
LEMMA ReturnRefines ==
    ASSUME IInv, NEW p \in Calls, Return(p)
    PROVE  Promise!Return(p)
<1>1. Becomes(p, Idle)
    <2>1. Idle \in CallState
        BY DEF Idle, CallState, Kinds
    <2> QED BY <2>1 DEF Return, Becomes, IInv, TypeOK
<1>2. SeenCall(Idle) = Promise!Idle
    BY DEF SeenCall, Stage, Idle, Deleting, Returned, Promise!Idle
<1>3. SeenCalls' = [SeenCalls EXCEPT ![p] = Promise!Idle]
    BY <1>1, <1>2, CallSeen DEF IInv
<1>4. SeenCalls[p].at \in Promise!Returned
    BY DEF Return, SeenCalls, SeenCall, Stage, Returned, Promise!Returned, Deleting
<1>5. up' = up /\ file' = file
    BY DEF Return
<1> QED BY <1>3, <1>4, <1>5, FilesUnseen DEF Promise!Return

(* The look for an existing file, which an error answers like no file. A   *)
(* file that is there is seen as a body, because it is complete. *)
LEMMA LstatRefines ==
    ASSUME IInv, NEW p \in Calls, Lstat(p)
    PROVE  Promise!Check(p) \/ Promise!Miss(p)
<1> DEFINE i == call[p].id
<1>1. call[p].at = "lstat" /\ i \in Ids
    BY RunsWhileServing DEF Lstat, IInv, Active
<1>2. SeenCalls[p].at = "check" /\ SeenCalls[p].id = i
    <2>1. Stage(call[p]) = "check"
        BY <1>1 DEF Stage, Deleting, Returned
    <2> QED BY <2>1 DEF SeenCalls, SeenCall
<1>3. (SeenFiles("image")[i] = None) <=> (file["image"][i] = None)
    BY <1>1, NoneAssumption
       DEF SeenFiles, Seen, IInv, TypeOK, FilesComplete, Kinds, Content
<1>4. up' = up /\ file' = file
    BY DEF Lstat
<1>5. CASE file["image"][i] # None /\ Goto(p, "collision")
    <2> DEFINE c == [call[p] EXCEPT !.at = "collision"]
    <2>1. Becomes(p, c)
        BY <1>5, GotoBecomes DEF IInv, Returned
    <2>2. SeenCall(c) = [SeenCall(call[p]) EXCEPT !.at = "collision"]
        BY DEF SeenCall, Stage, Deleting, Returned, IInv, TypeOK, CallState
    <2> HIDE DEF c
    <2>3. SeenCalls' = [SeenCalls EXCEPT ![p].at = "collision"]
        BY <2>1, <2>2, CallSeen DEF IInv, SeenCalls
    <2> QED BY <2>3, <1>2, <1>3, <1>4, <1>5, FilesUnseen
            DEF Promise!Check, Promise!Goto
<1>6. CASE Goto(p, "acquire")
    <2> DEFINE c == [call[p] EXCEPT !.at = "acquire"]
    <2>1. Becomes(p, c)
        BY <1>6, GotoBecomes DEF IInv, Active
    <2>2. SeenCall(c) = [SeenCall(call[p]) EXCEPT !.at = "prepare"]
        BY DEF SeenCall, Stage, Deleting, Returned, IInv, TypeOK, CallState
    <2> HIDE DEF c
    <2>3. SeenCalls' = [SeenCalls EXCEPT ![p].at = "prepare"]
        BY <2>1, <2>2, CallSeen DEF IInv, SeenCalls
    <2> QED BY <2>3, <1>2, <1>4, FilesUnseen DEF Promise!Miss, Promise!Goto
<1> QED BY <1>5, <1>6 DEF Lstat

(* Call p moves to c, which looks the same or like its failure.            *)
StaysOrFails(p, c) ==
    \/ SeenCall(c) = SeenCall(call[p])
    \/ /\ SeenCall(c) = [SeenCall(call[p]) EXCEPT !.at = "failed"]
       /\ SeenCall(call[p]).at \in {"prepare", "thumb"} \cup Deleting

(* The work on the temporary files is not seen; a rejected body and an     *)
(* error are seen as a failure. *)
LEMMA PrepareRefines ==
    ASSUME IInv, NEW p \in Calls,
           \/ Read(p) \/ Acquire(p) \/ Decode(p)
           \/ Create(p) \/ Fill(p) \/ Sync(p) \/ Fail(p)
    PROVE  Promise!Fail(p) \/ UNCHANGED Promise!vars
<1>1. PICK c \in CallState : Becomes(p, c) /\ StaysOrFails(p, c)
    <2>1. ASSUME NEW at \in Active \cup Returned, Goto(p, at)
          PROVE  /\ Becomes(p, [call[p] EXCEPT !.at = at])
                 /\ [call[p] EXCEPT !.at = at] \in CallState
        BY <2>1, GotoBecomes DEF IInv, TypeOK, CallState
    <2>2. ASSUME NEW at \in Active \cup Returned, NEW k \in Kinds, GotoFor(p, at, k)
          PROVE  /\ Becomes(p, [call[p] EXCEPT !.at = at, !.kind = k])
                 /\ [call[p] EXCEPT !.at = at, !.kind = k] \in CallState
        BY <2>2, GotoForBecomes DEF IInv, TypeOK, CallState
    <2>3. ASSUME call[p].at \in {"read", "decode"} \cup Writing \cup Deleting,
                 Goto(p, "failed")
          PROVE  \E c \in CallState : Becomes(p, c) /\ StaysOrFails(p, c)
        <3> DEFINE c == [call[p] EXCEPT !.at = "failed"]
        <3>1. SeenCall(c) = [SeenCall(call[p]) EXCEPT !.at = "failed"]
            BY DEF SeenCall, Stage, Returned, Deleting, IInv, TypeOK, CallState
        <3>2. SeenCall(call[p]).at \in {"prepare", "thumb"} \cup Deleting
            BY <2>3 DEF SeenCall, Stage, Returned, Deleting, Writing
        <3>3. Becomes(p, c) /\ c \in CallState
            BY <2>1, <2>3 DEF Returned
        <3> HIDE DEF c
        <3> QED BY <3>1, <3>2, <3>3 DEF StaysOrFails
    <2>4. ASSUME NEW at \in Active, Goto(p, at),
                 Stage(call[p]) = "prepare",
                 at \in {"acquire", "decode", "fill", "sync"}
          PROVE  \E c \in CallState : Becomes(p, c) /\ StaysOrFails(p, c)
        <3> DEFINE c == [call[p] EXCEPT !.at = at]
        <3>1. SeenCall(c) = SeenCall(call[p])
            BY <2>4 DEF SeenCall, Stage, Returned, Deleting, IInv, TypeOK, CallState
        <3>2. Becomes(p, c) /\ c \in CallState
            BY <2>1, <2>4
        <3> HIDE DEF c
        <3> QED BY <3>1, <3>2 DEF StaysOrFails
    <2>5. ASSUME NEW at \in {"create", "install"}, NEW k \in Kinds, GotoFor(p, at, k),
                 Stage(call[p]) = "prepare", at = "install" => k = "image"
          PROVE  \E c \in CallState : Becomes(p, c) /\ StaysOrFails(p, c)
        <3> DEFINE c == [call[p] EXCEPT !.at = at, !.kind = k]
        <3>1. SeenCall(c) = SeenCall(call[p])
            BY <2>5 DEF SeenCall, Stage, Returned, Deleting, IInv, TypeOK, CallState
        <3>2. Becomes(p, c) /\ c \in CallState
            BY <2>2, <2>5 DEF Active, Writing
        <3> HIDE DEF c
        <3> QED BY <3>1, <3>2 DEF StaysOrFails
    <2>6. CASE Read(p)
        <3>1. Stage(call[p]) = "prepare"
            BY <2>6 DEF Read, Stage, Returned, Deleting
        <3> QED BY <2>6, <3>1, <2>3, <2>4 DEF Read, Active
    <2>7. CASE Acquire(p)
        <3>1. Stage(call[p]) = "prepare"
            BY <2>7 DEF Acquire, Stage, Returned, Deleting
        <3> QED BY <2>7, <3>1, <2>4 DEF Acquire, Active
    <2>8. CASE Decode(p)
        <3>1. Stage(call[p]) = "prepare"
            BY <2>8 DEF Decode, Stage, Returned, Deleting
        <3> QED BY <2>8, <3>1, <2>3, <2>5 DEF Decode, Kinds
    <2>9. CASE Create(p) \/ Fill(p)
        <3>1. Stage(call[p]) = "prepare"
            BY <2>9 DEF Create, Fill, Stage, Returned, Deleting
        <3> QED BY <2>9, <3>1, <2>4 DEF Create, Fill, Active, Writing
    <2>10. CASE Sync(p)
        <3>1. Stage(call[p]) = "prepare"
            BY <2>10 DEF Sync, Stage, Returned, Deleting
        <3> QED BY <2>10, <3>1, <2>5 DEF Sync, Kinds
    <2>11. CASE Fail(p)
        BY <2>11, <2>3 DEF Fail
    <2> QED BY <2>6, <2>7, <2>8, <2>9, <2>10, <2>11
<1>2. file' = file /\ up' = up
    BY DEF Read, Acquire, Decode, Create, Fill, Sync, Fail
<1>3. SeenCalls' = [SeenCalls EXCEPT ![p] = SeenCall(c)]
    BY <1>1, CallSeen DEF IInv
<1>4. SeenCalls[p] = SeenCall(call[p])
    BY DEF SeenCalls
<1>5. CASE SeenCall(c) = SeenCall(call[p])
    <2>1. SeenCalls' = SeenCalls
        BY <1>3, <1>4, <1>5 DEF SeenCalls
    <2> QED BY <2>1, <1>2, FilesUnseen DEF Promise!vars
<1>6. CASE /\ SeenCall(c) = [SeenCall(call[p]) EXCEPT !.at = "failed"]
           /\ SeenCall(call[p]).at \in {"prepare", "thumb"} \cup Deleting
    <2>1. SeenCalls' = [SeenCalls EXCEPT ![p].at = "failed"]
        BY <1>3, <1>4, <1>6
    <2>2. SeenCalls[p].at \in (Promise!Saving \cup Promise!Deleting) \ {"check"}
        BY <1>4, <1>6 DEF Promise!Saving, Promise!Deleting, Deleting
    <2> QED BY <2>1, <2>2, <1>2, FilesUnseen DEF Promise!Fail, Promise!Goto
<1> QED BY <1>1, <1>5, <1>6 DEF StaysOrFails

(* The renames. *)
LEMMA InstallRefines ==
    ASSUME IInv, NEW p \in Calls, Install(p)
    PROVE  Promise!InstallImage(p) \/ Promise!InstallThumb(p)
<1> DEFINE i  == call[p].id
           b  == call[p].body
           at == IF call[p].kind = "image" THEN "install" ELSE "ok"
           c  == [call[p] EXCEPT !.at = at, !.kind = "thumb"]
<1>1. call[p].at = "install" /\ up' = up
    BY DEF Install
<1>2. i \in Ids /\ call[p].kind \in {"image", "thumb"}
    BY <1>1, RunsWhileServing DEF IInv, TypeOK, CallState, Kinds, Active, Writing
<1>3. Seen(tmp[p][call[p].kind]) = b
    <2>1. tmp[p][call[p].kind] = [body |-> b, state |-> "synced"]
        BY <1>1, <1>2 DEF IInv, TempsReady, Ready, Kinds
    <2>2. b \in Bodies
        BY <1>1 DEF IInv, CallsSound, CallSound, Writing
    <2>3. tmp[p][call[p].kind] # None
        BY <2>1, <2>2, NoneAssumption DEF Content
    <2> QED BY <2>1, <2>3 DEF Seen
<1>4. Becomes(p, c)
    BY GotoForBecomes DEF Install, IInv, Active, Writing, Returned, Kinds
<1>5. SeenCalls[p] = SeenCall(call[p]) /\ SeenCall(call[p]).id = i
      /\ SeenCall(call[p]).body = b
    BY DEF SeenCalls, SeenCall
<1>6. CASE call[p].kind = "image"
    <2>1. SeenCall(c) = [SeenCall(call[p]) EXCEPT !.at = "thumb"]
        BY <1>6 DEF SeenCall, Stage, Returned, Deleting, IInv, TypeOK, CallState
    <2>2. SeenCall(call[p]).at = "prepare"
        BY <1>1, <1>6 DEF SeenCall, Stage, Returned, Deleting
    <2>3. /\ SeenFiles("image")' = [SeenFiles("image") EXCEPT ![i] = b]
          /\ SeenFiles("thumb")' = SeenFiles("thumb")
        <3>1. file' = [file EXCEPT !["image"][i] = tmp[p]["image"]]
            BY <1>6 DEF Install
        <3> QED BY <3>1, <1>2, <1>3, <1>6 DEF IInv, TypeOK, SeenFiles, Kinds
    <2> HIDE DEF c
    <2>4. SeenCalls' = [SeenCalls EXCEPT ![p].at = "thumb"]
        BY <2>1, <1>4, <1>5, CallSeen DEF IInv
    <2> QED BY <2>2, <2>3, <2>4, <1>1, <1>5
            DEF Promise!InstallImage, Promise!Goto
<1>7. CASE call[p].kind = "thumb"
    <2>1. SeenCall(c) = [SeenCall(call[p]) EXCEPT !.at = "ok"]
        BY <1>7 DEF SeenCall, Stage, Returned, Deleting, IInv, TypeOK, CallState
    <2>2. SeenCall(call[p]).at = "thumb"
        BY <1>1, <1>7 DEF SeenCall, Stage, Returned, Deleting
    <2>3. /\ SeenFiles("thumb")' = [SeenFiles("thumb") EXCEPT ![i] = b]
          /\ SeenFiles("image")' = SeenFiles("image")
        <3>1. file' = [file EXCEPT !["thumb"][i] = tmp[p]["thumb"]]
            BY <1>7 DEF Install
        <3> QED BY <3>1, <1>2, <1>3, <1>7 DEF IInv, TypeOK, SeenFiles, Kinds
    <2> HIDE DEF c
    <2>4. SeenCalls' = [SeenCalls EXCEPT ![p].at = "ok"]
        BY <2>1, <1>4, <1>5, CallSeen DEF IInv
    <2> QED BY <2>2, <2>3, <2>4, <1>1, <1>5
            DEF Promise!InstallThumb, Promise!Goto
<1> QED BY <1>2, <1>6, <1>7

(* The removals. *)
LEMMA RemoveRefines ==
    ASSUME IInv, NEW p \in Calls, RemoveImage(p) \/ RemoveThumb(p)
    PROVE  Promise!RemoveImage(p) \/ Promise!RemoveThumb(p)
<1> DEFINE i == call[p].id
<1>1. i \in Ids
    BY RunsWhileServing DEF RemoveImage, RemoveThumb, IInv, Active, Deleting
<1>2. SeenCalls[p] = SeenCall(call[p]) /\ SeenCall(call[p]).id = i
    BY DEF SeenCalls, SeenCall
<1>3. Seen(None) = None
    BY DEF Seen
<1>4. CASE RemoveImage(p)
    <2> DEFINE c == [call[p] EXCEPT !.at = "rmthumb"]
    <2>1. Becomes(p, c)
        BY <1>4, GotoBecomes DEF RemoveImage, IInv, Active, Deleting
    <2>2. SeenCall(c) = [SeenCall(call[p]) EXCEPT !.at = "rmthumb"]
        BY DEF SeenCall, Stage, Returned, Deleting, IInv, TypeOK, CallState
    <2>3. SeenCall(call[p]).at = "rmimage"
        BY <1>4 DEF RemoveImage, SeenCall, Stage, Returned, Deleting
    <2>4. /\ SeenFiles("image")' = [SeenFiles("image") EXCEPT ![i] = None]
          /\ SeenFiles("thumb")' = SeenFiles("thumb")
        <3>1. file' = [file EXCEPT !["image"][i] = None]
            BY <1>4 DEF RemoveImage
        <3> QED BY <3>1, <1>1, <1>3 DEF IInv, TypeOK, SeenFiles, Kinds
    <2> HIDE DEF c
    <2>5. SeenCalls' = [SeenCalls EXCEPT ![p].at = "rmthumb"]
        BY <2>1, <2>2, <1>2, CallSeen DEF IInv
    <2> QED BY <2>3, <2>4, <2>5, <1>2, <1>4
            DEF RemoveImage, Promise!RemoveImage, Promise!Goto
<1>5. CASE RemoveThumb(p)
    <2> DEFINE c == [call[p] EXCEPT !.at = "ok"]
    <2>1. Becomes(p, c)
        BY <1>5, GotoBecomes DEF RemoveThumb, IInv, Returned
    <2>2. SeenCall(c) = [SeenCall(call[p]) EXCEPT !.at = "ok"]
        BY DEF SeenCall, Stage, Returned, Deleting, IInv, TypeOK, CallState
    <2>3. SeenCall(call[p]).at = "rmthumb"
        BY <1>5 DEF RemoveThumb, SeenCall, Stage, Returned, Deleting
    <2>4. /\ SeenFiles("thumb")' = [SeenFiles("thumb") EXCEPT ![i] = None]
          /\ SeenFiles("image")' = SeenFiles("image")
        <3>1. file' = [file EXCEPT !["thumb"][i] = None]
            BY <1>5 DEF RemoveThumb
        <3> QED BY <3>1, <1>1, <1>3 DEF IInv, TypeOK, SeenFiles, Kinds
    <2> HIDE DEF c
    <2>5. SeenCalls' = [SeenCalls EXCEPT ![p].at = "ok"]
        BY <2>1, <2>2, <1>2, CallSeen DEF IInv
    <2> QED BY <2>3, <2>4, <2>5, <1>2, <1>5
            DEF RemoveThumb, Promise!RemoveThumb, Promise!Goto
<1> QED BY <1>4, <1>5

(* The end of the process, and its start. A power loss tears no file that  *)
(* is served, because they are all synced. *)
LEMMA ProcessRefines ==
    ASSUME IInv, \/ Kill \/ PowerLoss \/ Start \/ StartFail \/ Serve
                 \/ \E k \in Kinds : RemoveStale(k) \/ Overlook(k)
    PROVE  Promise!Crash \/ Promise!Restart \/ UNCHANGED Promise!vars
<1>1. UNCHANGED <<SeenFiles("image"), SeenFiles("thumb")>>
    <2>1. CASE PowerLoss
        BY <2>1 DEF PowerLoss, SeenFiles, Kinds, Torn, IInv, FilesComplete
    <2>2. CASE file' = file
        BY <2>2, FilesUnseen
    <2> QED BY <2>1, <2>2 DEF Kill, Start, StartFail, Serve, RemoveStale,
                          Overlook
<1>2. ASSUME \A p \in Calls : call[p] = Idle
      PROVE  SeenCalls = [p \in Calls |-> Promise!Idle]
    BY <1>2 DEF SeenCalls, SeenCall, Stage, Idle, Returned, Deleting, Promise!Idle
<1>3. CASE Kill \/ PowerLoss
    <2>1. SeenCalls' = [p \in Calls |-> Promise!Idle]
        BY <1>3 DEF Kill, PowerLoss, Stop, SeenCalls, SeenCall, Stage, Idle,
                    Returned, Deleting, Promise!Idle
    <2>2. up' = "down"
        BY <1>3 DEF Kill, PowerLoss, Stop
    <2>3. CASE up = "serving"
        BY <1>1, <2>1, <2>2, <2>3 DEF Promise!Crash
    <2>4. CASE up # "serving"
        <3>1. SeenCalls = [p \in Calls |-> Promise!Idle]
            BY <1>2, <2>4 DEF IInv, CallsSound
        <3>2. (up' = "serving") = (up = "serving")
            BY <2>2, <2>4
        <3> QED BY <1>1, <2>1, <3>1, <3>2 DEF Promise!vars
    <2> QED BY <2>3, <2>4
<1>4. CASE Serve
    <2>1. SeenCalls' = SeenCalls
        BY <1>4 DEF Serve, SeenCalls
    <2>2. up # "serving" /\ up' = "serving"
        BY <1>4 DEF Serve
    <2> QED BY <1>1, <2>1, <2>2 DEF Promise!Restart
<1>5. CASE \/ Start \/ StartFail
           \/ \E k \in Kinds : RemoveStale(k) \/ Overlook(k)
    <2>1. call' = call /\ (up' = "serving") = (up = "serving")
        BY <1>5 DEF Start, StartFail, RemoveStale, Overlook
    <2>2. SeenCalls' = SeenCalls
        BY <2>1 DEF SeenCalls
    <2> QED BY <1>1, <2>1, <2>2 DEF Promise!vars
<1> QED BY <1>3, <1>4, <1>5

(* Every step of Storage is one of FileStore, or is not seen. *)
LEMMA NextRefines == IInv /\ [Next]_vars => [Promise!Next]_Promise!vars
<1> SUFFICES ASSUME IInv, [Next]_vars PROVE [Promise!Next]_Promise!vars
    OBVIOUS
<1>1. ASSUME NEW p \in Calls, NEW i \in Ids, NEW b \in Bodies,
             SaveNew(p, i, b) \/ Save(p, i, b)
      PROVE  Promise!SaveNew(p, i, b) \/ Promise!Save(p, i, b)
    <2>1. Begin(p, "lstat", i, b) \/ Begin(p, "read", i, b)
        BY <1>1 DEF SaveNew, Save
    <2> QED BY <2>1, BeginRefines DEF Promise!SaveNew, Promise!Save
<1>2. ASSUME NEW p \in Calls, NEW i \in Ids, Delete(p, i)
      PROVE  Promise!Delete(p, i)
    <2>1. Begin(p, "rmimage", i, None)
        BY <1>2 DEF Delete
    <2> QED BY <2>1, BeginRefines DEF Promise!Delete
<1>3. ASSUME NEW p \in Calls, Return(p)
      PROVE  Promise!Return(p)
    BY <1>3, ReturnRefines
<1>4. ASSUME NEW p \in Calls, Acquire(p) \/ Step(p)
      PROVE  Promise!Step(p) \/ UNCHANGED Promise!vars
    BY <1>4, LstatRefines, PrepareRefines, InstallRefines, RemoveRefines
       DEF Step, Promise!Step, Promise!Work
<1>5. CASE \/ Kill \/ PowerLoss \/ Start \/ StartFail \/ Serve
           \/ \E k \in Kinds : RemoveStale(k) \/ Overlook(k)
    BY <1>5, ProcessRefines DEF Promise!Next
<1>6. CASE UNCHANGED vars
    <2>1. SeenCalls' = SeenCalls /\ (up' = "serving") = (up = "serving")
        BY <1>6 DEF vars, SeenCalls
    <2> QED BY <2>1, <1>6, FilesUnseen DEF vars, Promise!vars
<1>7. ASSUME NEW p \in Calls,
             \/ \E i \in Ids, b \in Bodies : SaveNew(p, i, b) \/ Save(p, i, b)
             \/ \E i \in Ids : Delete(p, i)
             \/ Return(p) \/ Acquire(p) \/ Step(p)
      PROVE  Promise!Next \/ UNCHANGED Promise!vars
    BY <1>1, <1>2, <1>3, <1>4, <1>7 DEF Promise!Next
<1> QED BY <1>5, <1>6, <1>7 DEF Next

(* Package storage keeps its promise: an image or a thumbnail changes in   *)
(* one step, from one whole file to another or to none, whatever happens   *)
(* to the writers, the process and the machine. *)
THEOREM Refinement == Spec => ImplementsFileStore
<1>1. Init => Promise!Init
    BY InitRefines
<1>2. IInv /\ [Next]_vars => [Promise!Next]_Promise!vars
    BY NextRefines
<1> QED BY <1>1, <1>2, Invariance, PTL DEF Spec, ImplementsFileStore, Promise!Spec
=============================================================================
