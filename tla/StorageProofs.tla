---------------------------- MODULE StorageProofs ----------------------------
(***************************************************************************)
(* Proofs about module Storage, for any ids, bodies, number of goroutines  *)
(* and capacity of decodeSem.                                              *)
(***************************************************************************)
EXTENDS Storage, FiniteSetTheorems, TLAPS

(* A call knows its id from the start, and what it writes has passed the   *)
(* checks that come before the write.                                      *)
CallSound(c) ==
    /\ c.at \in Active => c.id \in Ids
    /\ c.at \in {"lstat", "acquire", "decode"} \cup Writing =>
          c.body \in Bodies \ Invalid
    /\ c.at = "read" => c.body \in Bodies
    /\ c.at \in Writing => c.body \notin Corrupt

CallsSound == /\ \A p \in Calls : CallSound(call[p])
              /\ up # "serving" => \A p \in Calls : call[p] = Idle /\ tmp[p] = NoTmp

(* The temporary files that call c has written to the end and not renamed. *)
Ready(c) ==
    IF c.kind = "image"
      THEN IF c.at = "install" THEN Kinds
           ELSE IF c.at \in Writing THEN {"thumb"} ELSE {}
      ELSE IF c.at = "install" THEN {"thumb"} ELSE {}

TempsReady ==
    \A p \in Calls : \A k \in Ready(call[p]) :
        tmp[p][k] = [body |-> call[p].body, state |-> "synced"]

(* The inductive invariant: FilesComplete holds because what Install moves *)
(* into place is Ready, and Ready because of the order of the steps.       *)
IInv == TypeOK /\ SlotsExact /\ CallsSound /\ TempsReady /\ TempsOwned /\ FilesComplete

-----------------------------------------------------------------------------
(* How a step changes the state of one call and its temporary files.       *)

Becomes(p, c) == /\ call' \in [Calls -> CallState]
                 /\ call'[p] = c
                 /\ \A q \in Calls \ {p} : call'[q] = call[q]

TmpBecomes(p, c) == /\ tmp' \in [Calls -> [Kinds -> Content \cup {None}]]
                    /\ tmp'[p][call[p].kind] = c
                    /\ \A k \in Kinds \ {call[p].kind} : tmp'[p][k] = tmp[p][k]
                    /\ \A q \in Calls \ {p} : tmp'[q] = tmp[q]
                    /\ UNCHANGED <<stray, kept>>

(* Goto changes the place of one call only. *)
LEMMA GotoBecomes ==
    ASSUME TypeOK, NEW p \in Calls,
           NEW at \in {"idle"} \cup Active \cup Returned, Goto(p, at)
    PROVE  Becomes(p, [call[p] EXCEPT !.at = at])
  BY DEF TypeOK, Becomes, Goto, CallState

(* GotoFor changes the place and the kind of one call only. *)
LEMMA GotoForBecomes ==
    ASSUME TypeOK, NEW p \in Calls, NEW k \in Kinds,
           NEW at \in {"idle"} \cup Active \cup Returned, GotoFor(p, at, k)
    PROVE  Becomes(p, [call[p] EXCEPT !.at = at, !.kind = k])
  BY ZenonT(40) DEF TypeOK, Becomes, GotoFor, CallState

(* SetTmp changes one temporary file only. *)
LEMMA SetTmpBecomes ==
    ASSUME TypeOK, NEW p \in Calls, NEW c \in Content \cup {None}, SetTmp(p, c)
    PROVE  TmpBecomes(p, c)
  BY DEF TypeOK, TmpBecomes, SetTmp, CallState

(* A call that runs, runs in a process that serves, and has its id. *)
LEMMA RunsWhileServing ==
    ASSUME CallsSound, NEW p \in Calls, call[p].at # "idle"
    PROVE  /\ up = "serving"
           /\ call[p].at \in Active => call[p].id \in Ids
  BY DEF CallsSound, CallSound, Idle

(* A step of a call that has no temporary file, to a place where it has    *)
(* none either, disturbs none.                                             *)
LEMMA QuietMove ==
    ASSUME IInv, NEW p \in Calls, NEW c \in CallState, Becomes(p, c),
           up = "serving", CallSound(c), UNCHANGED <<temps, up>>,
           call[p].at \notin Writing,
           c.at \notin Writing \/ (c.at = "create" /\ c.kind = "thumb")
    PROVE  CallsSound' /\ TempsReady' /\ TempsOwned'
<1>1. CallsSound'
    BY DEF IInv, CallsSound, Becomes
<1>2. TempsReady'
    <2>1. Ready(call'[p]) = {}
        BY DEF Becomes, Ready, Writing, CallState, Kinds
    <2> QED BY <2>1 DEF IInv, TempsReady, Becomes, temps
<1>3. TempsOwned'
    <2>1. \A k \in Kinds : ~Owns(p, k)
        BY DEF Owns, Writing
    <2>2. \A q \in Calls \ {p}, k \in Kinds : Owns(q, k)' = Owns(q, k)
        BY DEF Owns, Becomes
    <2> QED BY <2>1, <2>2 DEF IInv, TempsOwned, temps
<1> QED BY <1>1, <1>2, <1>3

(* The set of decoding calls changes only with the call that moves. *)
LEMMA DecodingMoves ==
    ASSUME TypeOK, NEW p \in Calls, NEW c \in CallState, Becomes(p, c)
    PROVE  Decoding' = IF c.at = "decode" THEN Decoding \cup {p} ELSE Decoding \ {p}
  BY DEF Decoding, Becomes

(* There are finitely many decoding calls. *)
LEMMA DecodingFinite == IsFiniteSet(Decoding) /\ Cardinality(Decoding) \in Nat
  BY CallsAssumption, FS_Subset, FS_CardinalityType DEF Decoding

(* A step that neither enters nor leaves the decode keeps the slots exact. *)
LEMMA SlotsKept ==
    ASSUME IInv, NEW p \in Calls, NEW c \in CallState, Becomes(p, c),
           call[p].at # "decode", c.at # "decode", slots' = slots
    PROVE  SlotsExact'
<1>1. Decoding' = Decoding
    BY DecodingMoves DEF IInv, Decoding
<1> QED BY <1>1 DEF IInv, SlotsExact

-----------------------------------------------------------------------------
(* The steps that touch no file at all.                                    *)

(* A step with a quiet move that leaves files and slots alone is safe. *)
LEMMA QuietStep ==
    ASSUME IInv, NEW p \in Calls, NEW c \in CallState, Becomes(p, c),
           up = "serving", CallSound(c), UNCHANGED <<file, temps, slots, up>>,
           call[p].at \notin Writing \cup {"decode"},
           c.at \notin Writing \cup {"decode"}
    PROVE  IInv'
<1>1. TypeOK'
    BY DEF IInv, TypeOK, Becomes, temps
<1>2. FilesComplete'
    BY DEF IInv, FilesComplete
<1>3. SlotsExact'
    BY SlotsKept
<1>4. CallsSound' /\ TempsReady' /\ TempsOwned'
    BY QuietMove
<1> QED BY <1>1, <1>2, <1>3, <1>4 DEF IInv

(* A new call. *)
LEMMA BeginKeeps ==
    ASSUME IInv, NEW p \in Calls, NEW at \in {"lstat", "read", "rmimage"},
           NEW i \in Ids, NEW b \in Bodies \cup {None},
           at # "rmimage" => b \in Bodies, at = "lstat" => b \notin Invalid,
           Begin(p, at, i, b)
    PROVE  IInv'
<1> DEFINE c == [Idle EXCEPT !.at = at, !.id = i, !.body = b]
<1>1. c \in CallState
    BY DEF Idle, CallState, Kinds, Active, Deleting
<1>2. Becomes(p, c)
    BY <1>1 DEF Begin, Becomes, IInv, TypeOK
<1>3. CallSound(c)
    BY DEF CallSound, Idle, Writing, Deleting, Active
<1>4. call[p].at = "idle" /\ c.at = at
    BY DEF Begin, Idle
<1> HIDE DEF c
<1> QED BY <1>1, <1>2, <1>3, <1>4, QuietStep DEF Begin, Writing

(* A return. *)
LEMMA ReturnKeeps ==
    ASSUME IInv, NEW p \in Calls, Return(p)
    PROVE  IInv'
<1>1. Idle \in CallState
    BY DEF Idle, CallState, Kinds
<1>2. Becomes(p, Idle)
    BY <1>1 DEF Return, Becomes, IInv, TypeOK
<1>3. CallSound(Idle) /\ Idle.at = "idle"
    BY DEF CallSound, Idle, Writing, Deleting, Active
<1>4. call[p].at \notin Writing \cup {"decode", "idle"}
    BY DEF Return, Returned, Writing
<1>5. up = "serving"
    BY <1>4, RunsWhileServing DEF IInv
<1> QED BY <1>1, <1>2, <1>3, <1>4, <1>5, QuietStep DEF Return, Writing

(* The look for an existing file, and the read of the body. *)
LEMMA CheckKeeps ==
    ASSUME IInv, NEW p \in Calls, Lstat(p) \/ Read(p)
    PROVE  IInv'
<1>1. PICK at \in {"acquire", "collision", "failed"} :
          Goto(p, at) /\ (at = "acquire" => call[p].body \in Bodies \ Invalid)
    BY SMTT(20) DEF Lstat, Read, IInv, CallsSound, CallSound
<1> DEFINE c == [call[p] EXCEPT !.at = at]
<1>2. Becomes(p, c)
    BY <1>1, GotoBecomes DEF IInv, Active, Returned
<1>3. c \in CallState /\ c.at = at /\ c.id = call[p].id /\ c.body = call[p].body
    BY DEF IInv, TypeOK, CallState, Active, Returned
<1>4. call[p].at \in {"lstat", "read"}
    BY DEF Lstat, Read
<1>5. up = "serving" /\ call[p].id \in Ids
    BY <1>4, RunsWhileServing DEF IInv, Active
<1>6. CallSound(c)
    BY <1>1, <1>3, <1>5 DEF CallSound, Writing, Deleting, Active
<1> HIDE DEF c
<1> QED BY <1>2, <1>3, <1>4, <1>5, <1>6, QuietStep DEF Lstat, Read, Writing

(* A slot of decodeSem is taken. *)
LEMMA AcquireKeeps ==
    ASSUME IInv, NEW p \in Calls, Acquire(p)
    PROVE  IInv'
<1> DEFINE c == [call[p] EXCEPT !.at = "decode"]
<1>1. Becomes(p, c)
    BY GotoBecomes DEF Acquire, IInv, Active
<1>2. c \in CallState /\ c.at = "decode" /\ c.id = call[p].id /\ c.body = call[p].body
    BY DEF IInv, TypeOK, CallState, Active
<1>3. call[p].at = "acquire"
    BY DEF Acquire
<1>4. up = "serving" /\ call[p].id \in Ids /\ call[p].body \in Bodies \ Invalid
    BY <1>3, RunsWhileServing DEF IInv, Active, CallsSound, CallSound
<1>5. CallSound(c)
    BY <1>2, <1>4 DEF CallSound, Writing, Active
<1> HIDE DEF c
<1>6. CallsSound' /\ TempsReady' /\ TempsOwned'
    BY <1>1, <1>2, <1>3, <1>4, <1>5, QuietMove DEF Acquire, Writing
<1>7. SlotsExact'
    <2>1. Decoding' = Decoding \cup {p} /\ p \notin Decoding
        BY <1>1, <1>2, <1>3, DecodingMoves DEF IInv, Decoding
    <2>2. Cardinality(Decoding') = Cardinality(Decoding) + 1
        BY <2>1, DecodingFinite, FS_AddElement
    <2> QED BY <2>2, DecodeAssumption, DecodingFinite DEF Acquire, IInv, SlotsExact
<1>8. TypeOK'
    BY <1>1 DEF Acquire, IInv, TypeOK, Becomes, temps
<1>9. FilesComplete'
    BY DEF Acquire, IInv, FilesComplete
<1> QED BY <1>6, <1>7, <1>8, <1>9 DEF IInv

(* The decode, which gives the slot back whether or not it fails. *)
LEMMA DecodeKeeps ==
    ASSUME IInv, NEW p \in Calls, Decode(p)
    PROVE  IInv'
<1>1. PICK c \in CallState :
          /\ Becomes(p, c)
          /\ c.id = call[p].id /\ c.body = call[p].body
          /\ \/ c.at = "failed"
             \/ c.at = "create" /\ c.kind = "thumb" /\ call[p].body \notin Corrupt
    <2>1. CASE call[p].body \in Corrupt
        <3> DEFINE d == [call[p] EXCEPT !.at = "failed"]
        <3>1. Becomes(p, d)
            BY <2>1, GotoBecomes DEF Decode, IInv, Returned
        <3>2. /\ d \in CallState /\ d.at = "failed"
              /\ d.id = call[p].id /\ d.body = call[p].body
            BY DEF IInv, TypeOK, CallState, Returned
        <3> HIDE DEF d
        <3> QED BY <3>1, <3>2
    <2>2. CASE call[p].body \notin Corrupt
        <3> DEFINE d == [call[p] EXCEPT !.at = "create", !.kind = "thumb"]
        <3>1. Becomes(p, d)
            BY <2>2, GotoForBecomes DEF Decode, IInv, Active, Writing, Kinds
        <3>2. /\ d \in CallState /\ d.at = "create" /\ d.kind = "thumb"
              /\ d.id = call[p].id /\ d.body = call[p].body
            BY DEF IInv, TypeOK, CallState, Active, Writing, Kinds
        <3> HIDE DEF d
        <3> QED BY <3>1, <3>2, <2>2
    <2> QED BY <2>1, <2>2
<1>2. call[p].at = "decode"
    BY DEF Decode
<1>3. up = "serving" /\ call[p].id \in Ids /\ call[p].body \in Bodies \ Invalid
    BY <1>2, RunsWhileServing DEF IInv, Active, CallsSound, CallSound
<1>4. CallSound(c)
    BY <1>1, <1>3 DEF CallSound, Writing, Active, Deleting
<1>5. CallsSound' /\ TempsReady' /\ TempsOwned'
    BY <1>1, <1>2, <1>3, <1>4, QuietMove DEF Decode, Writing
<1>6. SlotsExact' /\ slots' \in Nat
    <2>1. Decoding' = Decoding \ {p} /\ p \in Decoding
        BY <1>1, <1>2, DecodingMoves DEF IInv, Decoding
    <2>2. Cardinality(Decoding') = Cardinality(Decoding) - 1
        BY <2>1, DecodingFinite, FS_RemoveElement
    <2>3. Cardinality(Decoding) # 0
        BY <2>1, DecodingFinite, FS_EmptySet
    <2> QED BY <2>2, <2>3, DecodeAssumption, DecodingFinite
            DEF Decode, IInv, SlotsExact
<1>7. TypeOK'
    BY <1>1, <1>6 DEF Decode, IInv, TypeOK, Becomes, temps
<1>8. FilesComplete'
    BY DEF Decode, IInv, FilesComplete
<1> QED BY <1>5, <1>6, <1>7, <1>8 DEF IInv

-----------------------------------------------------------------------------
(* The steps that write, rename and remove files.                          *)

(* The creation, filling and syncing of a temporary file. *)
LEMMA WriteKeeps ==
    ASSUME IInv, NEW p \in Calls, Create(p) \/ Fill(p) \/ Sync(p)
    PROVE  IInv'
<1>1. call[p].at \in Writing \ {"install"}
    BY DEF Create, Fill, Sync, Writing
<1>2. /\ up = "serving" /\ call[p].id \in Ids
      /\ call[p].body \in Bodies \ Invalid /\ call[p].body \notin Corrupt
    BY <1>1, RunsWhileServing DEF IInv, Active, Writing, CallsSound, CallSound
<1>3. PICK s \in {"partial", "cached", "synced"} :
          TmpBecomes(p, [body |-> call[p].body, state |-> s])
          /\ (Sync(p) => s = "synced")
    <2>1. \A s \in {"partial", "cached", "synced"} :
              WriteState(p, s) => TmpBecomes(p, [body |-> call[p].body, state |-> s])
        BY <1>2, SetTmpBecomes DEF WriteState, IInv, Content
    <2> QED BY <2>1 DEF Create, Fill, Sync
<1>4. PICK c \in CallState :
          /\ Becomes(p, c)
          /\ c.id = call[p].id /\ c.body = call[p].body
          /\ \/ c.at \in {"fill", "sync"} /\ c.kind = call[p].kind
             \/ /\ Sync(p) /\ c.kind = "image"
                /\ c.at = IF call[p].kind = "thumb" THEN "create" ELSE "install"
    <2>1. ASSUME NEW at \in {"fill", "sync"}, Goto(p, at)
          PROVE  \E c \in CallState :
                     /\ Becomes(p, c)
                     /\ c.id = call[p].id /\ c.body = call[p].body
                     /\ c.at = at /\ c.kind = call[p].kind
        <3> DEFINE c == [call[p] EXCEPT !.at = at]
        <3>1. Becomes(p, c)
            BY <2>1, GotoBecomes DEF IInv, Active, Writing
        <3>2. /\ c \in CallState /\ c.at = at /\ c.kind = call[p].kind
              /\ c.id = call[p].id /\ c.body = call[p].body
            BY DEF IInv, TypeOK, CallState, Active, Writing
        <3> HIDE DEF c
        <3> QED BY <3>1, <3>2
    <2>2. CASE Create(p)
        BY <2>1, <2>2 DEF Create
    <2>3. CASE Fill(p)
        BY <2>1, <2>3 DEF Fill
    <2>4. CASE Sync(p)
        <3> DEFINE at == IF call[p].kind = "thumb" THEN "create" ELSE "install"
                   c  == [call[p] EXCEPT !.at = at, !.kind = "image"]
        <3>1. Becomes(p, c)
            BY <2>4, GotoForBecomes DEF Sync, IInv, Active, Writing, Kinds
        <3>2. /\ c \in CallState /\ c.at = at /\ c.kind = "image"
              /\ c.id = call[p].id /\ c.body = call[p].body
            BY DEF IInv, TypeOK, CallState, Active, Writing, Kinds
        <3> HIDE DEF c
        <3> QED BY <3>1, <3>2, <2>4
    <2> QED BY <2>2, <2>3, <2>4
<1>5. UNCHANGED <<file, slots, up>>
    BY DEF Create, Fill, Sync
<1>6. TypeOK'
    BY <1>3, <1>4, <1>5 DEF IInv, TypeOK, Becomes, TmpBecomes
<1>7. FilesComplete'
    BY <1>5 DEF IInv, FilesComplete
<1>8. SlotsExact'
    BY <1>1, <1>4, <1>5, SlotsKept DEF Writing
<1>9. CallsSound'
    <2>1. CallSound(c)
        BY <1>2, <1>4 DEF CallSound, Writing, Active, Deleting
    <2> QED BY <2>1, <1>2, <1>4, <1>5 DEF IInv, CallsSound, Becomes
<1>10. TempsReady'
    <2>1. \A k \in Ready(c) : tmp'[p][k] = [body |-> c.body, state |-> "synced"]
        <3>1. CASE c.at \in {"fill", "sync"} /\ c.kind = call[p].kind
            BY <1>1, <1>3, <1>4, <3>1
               DEF IInv, TempsReady, Ready, TmpBecomes, Kinds, Writing
        <3>2. CASE /\ Sync(p) /\ c.kind = "image"
                   /\ c.at = IF call[p].kind = "thumb" THEN "create" ELSE "install"
            <4>1. CASE call[p].kind = "thumb"
                BY <1>3, <1>4, <3>2, <4>1 DEF Ready, TmpBecomes, Writing
            <4>2. CASE call[p].kind = "image"
                BY <1>1, <1>3, <1>4, <3>2, <4>2
                   DEF IInv, TempsReady, Ready, TmpBecomes, Kinds, Writing
            <4>3. call[p].kind \in {"image", "thumb"}
                BY DEF IInv, TypeOK, CallState, Kinds
            <4> QED BY <4>1, <4>2, <4>3
        <3> QED BY <1>4, <3>1, <3>2
    <2>2. call'[p] = c /\ \A q \in Calls \ {p} : call'[q] = call[q] /\ tmp'[q] = tmp[q]
        BY <1>3, <1>4 DEF Becomes, TmpBecomes
    <2> QED BY <2>1, <2>2 DEF IInv, TempsReady
<1>11. TempsOwned'
    <2>1. \A k \in Kinds : tmp'[p][k] # None => Owns(p, k)'
        BY <1>1, <1>2, <1>3, <1>4
           DEF IInv, TypeOK, CallState, Kinds, TempsOwned, Owns, TmpBecomes,
               Becomes, Writing
    <2>2. \A q \in Calls \ {p}, k \in Kinds : Owns(q, k)' = Owns(q, k)
        BY <1>4 DEF Owns, Becomes
    <2> QED BY <2>1, <2>2, <1>2, <1>3 DEF IInv, TempsOwned, TmpBecomes
<1> QED BY <1>6, <1>7, <1>8, <1>9, <1>10, <1>11 DEF IInv

(* The renames. *)
LEMMA InstallKeeps ==
    ASSUME IInv, NEW p \in Calls, Install(p)
    PROVE  IInv'
<1>1. call[p].at = "install"
    BY DEF Install
<1>2. /\ up = "serving" /\ call[p].id \in Ids /\ call[p].kind \in Kinds
      /\ call[p].body \in Bodies \ Invalid /\ call[p].body \notin Corrupt
    BY <1>1, RunsWhileServing
       DEF IInv, TypeOK, CallState, Active, Writing, CallsSound, CallSound
<1>3. tmp[p][call[p].kind] = [body |-> call[p].body, state |-> "synced"]
    BY <1>1, <1>2 DEF IInv, TempsReady, Ready, Kinds
<1>4. TmpBecomes(p, None)
    BY SetTmpBecomes DEF Install, IInv
<1> DEFINE at == IF call[p].kind = "image" THEN "install" ELSE "ok"
           c  == [call[p] EXCEPT !.at = at, !.kind = "thumb"]
<1>5. Becomes(p, c)
    BY GotoForBecomes DEF Install, IInv, Active, Writing, Returned, Kinds
<1>6. /\ c \in CallState /\ c.at = at /\ c.kind = "thumb"
      /\ c.id = call[p].id /\ c.body = call[p].body
    BY DEF IInv, TypeOK, CallState, Active, Writing, Returned, Kinds
<1> HIDE DEF c
<1>7. UNCHANGED <<slots, up>>
    BY DEF Install
<1>8. \A k \in Kinds, i \in Ids :
          file'[k][i] = IF k = call[p].kind /\ i = call[p].id
                          THEN [body |-> call[p].body, state |-> "synced"]
                          ELSE file[k][i]
    BY <1>2, <1>3 DEF Install, IInv, TypeOK
<1>9. TypeOK'
    <2>1. file' \in [Kinds -> [Ids -> Content \cup {None}]]
        BY <1>2, <1>3 DEF Install, IInv, TypeOK, Content
    <2> QED BY <2>1, <1>4, <1>5, <1>6, <1>7 DEF IInv, TypeOK, Becomes, TmpBecomes
<1>10. FilesComplete'
    BY <1>2, <1>8 DEF IInv, FilesComplete
<1>11. SlotsExact'
    BY <1>1, <1>5, <1>6, <1>7, SlotsKept
<1>12. CallsSound'
    <2>1. CallSound(c)
        BY <1>2, <1>6 DEF CallSound, Writing, Active, Deleting
    <2> QED BY <2>1, <1>2, <1>5, <1>7 DEF IInv, CallsSound, Becomes
<1>13. TempsReady'
    <2>1. \A k \in Ready(c) : tmp'[p][k] = [body |-> c.body, state |-> "synced"]
        BY <1>1, <1>2, <1>4, <1>6
           DEF IInv, TempsReady, Ready, TmpBecomes, Kinds
    <2> QED BY ZenonT(40), <2>1, <1>4, <1>5 DEF IInv, TempsReady, Becomes, TmpBecomes
<1>14. TempsOwned'
    <2>1. \A k \in Kinds : tmp'[p][k] # None => Owns(p, k)'
        BY <1>1, <1>2, <1>4, <1>5, <1>6
           DEF IInv, Kinds, TempsOwned, Owns, TmpBecomes, Becomes, Writing
    <2>2. \A q \in Calls \ {p}, k \in Kinds : Owns(q, k)' = Owns(q, k)
        BY <1>5 DEF Owns, Becomes
    <2> QED BY <2>1, <2>2, <1>2, <1>4 DEF IInv, TempsOwned, TmpBecomes
<1> QED BY <1>9, <1>10, <1>11, <1>12, <1>13, <1>14 DEF IInv

(* The removals. *)
LEMMA RemoveKeeps ==
    ASSUME IInv, NEW p \in Calls, RemoveImage(p) \/ RemoveThumb(p)
    PROVE  IInv'
<1>1. PICK at \in {"rmthumb", "ok"}, k \in Kinds :
          Goto(p, at) /\ file' = [file EXCEPT ![k][call[p].id] = None]
    BY DEF RemoveImage, RemoveThumb, Kinds
<1>2. call[p].at \in Deleting /\ UNCHANGED <<temps, slots, up>>
    BY DEF RemoveImage, RemoveThumb, Deleting
<1>3. up = "serving" /\ call[p].id \in Ids
    BY <1>2, RunsWhileServing DEF IInv, Active, Deleting
<1> DEFINE c == [call[p] EXCEPT !.at = at]
<1>4. Becomes(p, c)
    BY <1>1, GotoBecomes DEF IInv, Active, Deleting, Returned
<1>5. c \in CallState /\ c.at = at /\ c.id = call[p].id
    BY DEF IInv, TypeOK, CallState, Active, Deleting, Returned
<1> HIDE DEF c
<1>6. CallSound(c)
    BY <1>3, <1>5 DEF CallSound, Writing
<1>7. CallsSound' /\ TempsReady' /\ TempsOwned'
    BY <1>2, <1>3, <1>4, <1>5, <1>6, QuietMove DEF Writing, Deleting
<1>8. SlotsExact'
    BY <1>2, <1>4, <1>5, SlotsKept DEF Deleting
<1>9. TypeOK'
    BY <1>1, <1>2, <1>3, <1>4 DEF IInv, TypeOK, Becomes, temps
<1>10. FilesComplete'
    BY <1>1, <1>3 DEF IInv, TypeOK, FilesComplete
<1> QED BY <1>7, <1>8, <1>9, <1>10 DEF IInv

(* An error on the way, with the removal of the temporary files. *)
LEMMA FailKeeps ==
    ASSUME IInv, NEW p \in Calls, Fail(p)
    PROVE  IInv'
<1>1. call[p].at \in {"read"} \cup Writing \cup Deleting
    BY DEF Fail
<1>2. up = "serving"
    BY <1>1, RunsWhileServing DEF IInv, Writing, Deleting
<1> DEFINE c == [call[p] EXCEPT !.at = "failed"]
<1>3. Becomes(p, c)
    BY GotoBecomes DEF Fail, IInv, Returned
<1>4. c \in CallState /\ c.at = "failed"
    BY DEF IInv, TypeOK, CallState, Returned
<1> HIDE DEF c
<1>5. UNCHANGED <<file, stray, slots, up>> /\ kept' \subseteq Kinds
    BY DEF Fail, IInv, TypeOK
<1>6. /\ tmp' \in [Calls -> [Kinds -> Content \cup {None}]]
      /\ tmp'[p] = NoTmp
      /\ \A q \in Calls \ {p} : tmp'[q] = tmp[q]
    BY DEF Fail, IInv, TypeOK, NoTmp
<1>7. TypeOK'
    BY <1>3, <1>5, <1>6 DEF IInv, TypeOK, Becomes
<1>8. FilesComplete'
    BY <1>5 DEF IInv, FilesComplete
<1>9. SlotsExact'
    BY <1>1, <1>3, <1>4, <1>5, SlotsKept DEF Writing, Deleting
<1>10. CallsSound'
    <2>1. CallSound(c)
        BY <1>4 DEF CallSound, Writing, Active, Deleting
    <2> QED BY <2>1, <1>2, <1>3, <1>5 DEF IInv, CallsSound, Becomes
<1>11. TempsReady'
    <2>1. Ready(c) = {}
        BY <1>4 DEF Ready, Writing
    <2> QED BY <2>1, <1>3, <1>6 DEF IInv, TempsReady, Becomes
<1>12. TempsOwned'
    <2>1. \A q \in Calls \ {p}, k \in Kinds : Owns(q, k)' = Owns(q, k)
        BY <1>3 DEF Owns, Becomes
    <2> QED BY <2>1, <1>2, <1>5, <1>6 DEF IInv, TempsOwned, NoTmp
<1> QED BY <1>7, <1>8, <1>9, <1>10, <1>11, <1>12 DEF IInv

-----------------------------------------------------------------------------
(* The process stops, on its own or with the machine, and starts again.    *)

(* Whatever happens to the temporary files, a process that does not serve  *)
(* has no calls to break. *)
LEMMA NotServing ==
    ASSUME TypeOK', FilesComplete', slots' = 0, up' # "serving",
           \A p \in Calls : call'[p] = Idle /\ tmp'[p] = NoTmp
    PROVE  IInv'
<1>1. CallSound(Idle)
    BY DEF CallSound, Idle, Active, Writing, Deleting
<1>2. Ready(Idle) = {}
    BY DEF Ready, Idle, Writing
<1>3. SlotsExact'
    <2>1. Decoding' = {}
        BY DEF Decoding, Idle
    <2> QED BY <2>1, FS_EmptySet, DecodeAssumption DEF SlotsExact
<1> QED BY <1>1, <1>2, <1>3 DEF IInv, CallsSound, TempsReady, TempsOwned

(* The end of the process, and what it does to files not yet synced. *)
LEMMA StopKeeps ==
    ASSUME IInv, Kill \/ PowerLoss
    PROVE  IInv'
<1>1. Idle \in CallState
    BY DEF Idle, CallState, Kinds
<1>2. \A c \in Content \cup {None} :
          /\ Torn(c) \in Content \cup {None}
          /\ c = None \/ c.state = "synced" => Torn(c) = c
    BY DEF Torn, Content
<1>3. \A k \in Kinds, i \in Ids : file'[k][i] = file[k][i]
    <2>1. CASE Kill
        BY <2>1 DEF Kill
    <2>2. CASE PowerLoss
        BY <2>2, <1>2 DEF PowerLoss, IInv, TypeOK, FilesComplete
    <2> QED BY <2>1, <2>2
<1>4. TypeOK'
    <2>1. CASE Kill
        BY <2>1, <1>1 DEF Kill, Stop, IInv, TypeOK, NoTmp
    <2>2. CASE PowerLoss
        BY <2>2, <1>1, <1>2 DEF PowerLoss, Stop, IInv, TypeOK, NoTmp
    <2> QED BY <2>1, <2>2
<1>5. FilesComplete'
    BY <1>3 DEF IInv, FilesComplete
<1> QED BY <1>4, <1>5, NotServing DEF Kill, PowerLoss, Stop

(* A start that has not come to serving yet. *)
LEMMA StartingKeeps ==
    ASSUME IInv,
           Start \/ StartFail \/ \E k \in Kinds : RemoveStale(k) \/ Overlook(k)
    PROVE  IInv'
<1>1. /\ UNCHANGED <<file, call, slots>>
      /\ up # "serving" /\ up' \in {"down", "starting"}
    BY DEF Start, StartFail, RemoveStale, Overlook
<1>2. tmp' = tmp /\ stray' \subseteq Kinds /\ kept' \subseteq Kinds
    BY DEF Start, StartFail, RemoveStale, Overlook, temps, IInv, TypeOK
<1>3. TypeOK' /\ FilesComplete'
    BY <1>1, <1>2 DEF IInv, TypeOK, FilesComplete
<1>4. \A p \in Calls : call[p] = Idle /\ tmp[p] = NoTmp
    BY <1>1 DEF IInv, CallsSound
<1>5. slots = 0
    <2>1. Decoding = {}
        BY <1>4 DEF Decoding, Idle
    <2> QED BY <2>1, FS_EmptySet DEF IInv, SlotsExact
<1> QED BY <1>1, <1>2, <1>3, <1>4, <1>5, NotServing

(* The server starts to serve once New is through with what was left. *)
LEMMA ServeKeeps ==
    ASSUME IInv, Serve
    PROVE  IInv'
<1>1. /\ UNCHANGED <<file, temps, call, slots>> /\ up' = "serving"
      /\ up # "serving" /\ stray = {}
    BY DEF Serve
<1>2. TypeOK' /\ FilesComplete'
    BY <1>1 DEF IInv, TypeOK, FilesComplete, temps
<1>3. CallsSound'
    BY <1>1 DEF IInv, CallsSound
<1>4. TempsReady' /\ TempsOwned'
    BY <1>1 DEF IInv, TempsReady, TempsOwned, CallsSound, NoTmp, temps
<1>5. SlotsExact'
    BY <1>1 DEF IInv, SlotsExact, Decoding
<1> QED BY <1>2, <1>3, <1>4, <1>5 DEF IInv

-----------------------------------------------------------------------------

(* The invariant holds before the first start. *)
LEMMA InitIInv == Init => IInv
<1> SUFFICES ASSUME Init PROVE IInv
    OBVIOUS
<1>1. TypeOK
    BY DEF Init, TypeOK, NoTmp, Idle, CallState, Kinds
<1>2. SlotsExact
    <2>1. Decoding = {}
        BY DEF Init, Decoding, Idle
    <2> QED BY <2>1, FS_EmptySet, DecodeAssumption DEF Init, SlotsExact
<1>3. CallsSound
    BY DEF Init, CallsSound, CallSound, Idle, Active, Writing, Deleting
<1>4. TempsReady
    BY DEF Init, TempsReady, Ready, Idle, Writing
<1>5. TempsOwned /\ FilesComplete
    BY DEF Init, TempsOwned, FilesComplete
<1> QED BY <1>1, <1>2, <1>3, <1>4, <1>5 DEF IInv

(* Every step keeps the invariant. *)
LEMMA NextIInv == IInv /\ [Next]_vars => IInv'
<1> SUFFICES ASSUME IInv, [Next]_vars PROVE IInv'
    OBVIOUS
<1>1. ASSUME NEW p \in Calls, NEW i \in Ids, NEW b \in Bodies,
             SaveNew(p, i, b) \/ Save(p, i, b)
      PROVE  IInv'
    BY <1>1, BeginKeeps DEF SaveNew, Save
<1>2. ASSUME NEW p \in Calls, NEW i \in Ids, Delete(p, i)
      PROVE  IInv'
    BY <1>2, BeginKeeps DEF Delete
<1>3. ASSUME NEW p \in Calls, Return(p)
      PROVE  IInv'
    BY <1>3, ReturnKeeps
<1>4. ASSUME NEW p \in Calls, Acquire(p)
      PROVE  IInv'
    BY <1>4, AcquireKeeps
<1>5. ASSUME NEW p \in Calls, Step(p)
      PROVE  IInv'
    BY <1>5, CheckKeeps, DecodeKeeps, WriteKeeps, InstallKeeps, RemoveKeeps,
       FailKeeps DEF Step
<1>6. ASSUME NEW k \in Kinds, RemoveStale(k) \/ Overlook(k)
      PROVE  IInv'
    BY <1>6, StartingKeeps
<1>7. CASE Kill \/ PowerLoss
    BY <1>7, StopKeeps
<1>8. CASE Start \/ StartFail
    BY <1>8, StartingKeeps
<1>9. CASE Serve
    BY <1>9, ServeKeeps
<1>10. CASE UNCHANGED vars
    BY <1>10 DEF vars, temps, IInv, TypeOK, SlotsExact, Decoding, CallsSound, CallSound,
                 TempsReady, Ready, TempsOwned, Owns, FilesComplete
<1> QED BY <1>1, <1>2, <1>3, <1>4, <1>5, <1>6, <1>7, <1>8, <1>9, <1>10 DEF Next

(* The inductive invariant is one. *)
THEOREM Invariance == Spec => []IInv
<1>1. Init => IInv
    BY InitIInv
<1>2. IInv /\ [Next]_vars => IInv'
    BY NextIInv
<1> QED BY <1>1, <1>2, PTL DEF Spec

(* The variables keep their types. *)
THEOREM TypeCorrectness == Spec => []TypeOK
<1>1. IInv => TypeOK
    BY DEF IInv
<1> QED BY <1>1, Invariance, PTL

(* Served files are complete whatever errors, crashes and power losses     *)
(* there are, for any number of concurrent writers. *)
THEOREM FilesAreComplete == Spec => []FilesComplete
<1>1. IInv => FilesComplete
    BY DEF IInv
<1> QED BY <1>1, Invariance, PTL

(* While the server runs a temporary file is that of a write under way, or *)
(* one the file system would not list or remove. *)
THEOREM TempsAreOwned == Spec => []TempsOwned
<1>1. IInv => TempsOwned
    BY DEF IInv
<1> QED BY <1>1, Invariance, PTL

(* The decode semaphore neither leaks nor overruns. *)
THEOREM SlotsAreExact == Spec => []SlotsExact
<1>1. IInv => SlotsExact
    BY DEF IInv
<1> QED BY <1>1, Invariance, PTL
=============================================================================
