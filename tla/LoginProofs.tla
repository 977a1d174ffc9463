---------------------------- MODULE LoginProofs -----------------------------
(***************************************************************************)
(* Proofs about Login, for any tabs, users, destinations and lifetimes.    *)
(*                                                                         *)
(* A tab that is logging in has a login number of its own, which nobody    *)
(* else's callback can show: that ties the cookies, the code and the       *)
(* answer to the tab. Sessions are compared by when they were issued.      *)
(***************************************************************************)
EXTENDS Login, TLAPS

(* Where a tab is says whether it has a login and whether it is waiting    *)
(* for the answer of a callback; no two tabs share a login.                *)
TabInv ==
    \A t \in Tabs :
        /\ IF tab[t].at \in {"page", "error"} THEN tab[t].n = 0 ELSE tab[t].n \in 1..logins
        /\ tab[t].at = "waiting" <=> answer[t] # None /\ answer[t].to = "callback"
        /\ tab[t].at \in {"provider", "back"} => answer[t] = None
        /\ \A u \in Tabs : u # t /\ tab[u].n = tab[t].n => tab[t].n = 0

(* A code that was issued is for someone, and for the login's verifier.    *)
CodeInv ==
    \A n \in 1..MaxLogins :
        /\ code[n].at # "none" => code[n].user \in Users
        /\ code[n].at = "issued" /\ UsePKCE => code[n].challenge = n

(* What the answers under way may carry.                                   *)
AnswerInv ==
    \A t \in Tabs : LET a == answer[t] IN a # None =>
        /\ a.to = "logout" => a.drop
        /\ a.drop => a.to = "logout"
        /\ a.clear => a.to = "callback"
        /\ a.to = "callback" /\ a.ok => a.set # None
        /\ a.set # None => a.set.iat = a.at
        /\ a.at <= now /\ now <= a.at + MaxDelay

(* Nobody is logged in, and no answer but a login's makes anybody so.      *)
LogoutInv ==
    ~signedIn /\ 0 \notin crossed =>
        /\ jar.session = None
        /\ \A t \in Tabs : LET a == answer[t] IN
              a # None /\ a.set # None => a.to = "callback" /\ a.ok

(* The session is not much older than the last request that was answered,  *)
(* nor than those that will be.                                            *)
RecentInv ==
    /\ seen <= now
    /\ jar.session # None => jar.session.iat <= now
    /\ signedIn =>
         /\ jar.session # None
         /\ seen <= jar.session.iat + RenewalDelay
         /\ \A t \in Tabs : LET a == answer[t] IN
               a # None /\ a.authed /\ a.set = None => a.at <= jar.session.iat + RenewalDelay

(* The cookies are those of the login begun last, and no answer under way  *)
(* but its own clears them.                                                *)
CookieInv ==
    \A t \in Tabs :
        tab[t].n = logins /\ tab[t].n \notin crossed /\ tab[t].n # 0 =>
            /\ jar.state = StateParam(t)
            /\ jar.nonce = tab[t].n
            /\ UsePKCE => jar.verifier = tab[t].n
            /\ jar.till = tab[t].begun + CookieMaxAge
            /\ \A u \in Tabs : u # t /\ answer[u] # None => ~answer[u].clear

Inv == TypeOK /\ TabInv /\ CodeInv /\ AnswerInv /\ OwnLogin /\ LogoutInv

-----------------------------------------------------------------------------
(* What the steps do.                                                      *)

LEMMA Redirect ==
    ASSUME NEW rd \in Dests
    PROVE  /\ safeRedirectPath(rd) \in Dests
           /\ safeRedirectPath(safeRedirectPath(rd)) = safeRedirectPath(rd)
  BY DestsAssumption DEF safeRedirectPath

LEMMA RenewedTyped ==
    ASSUME TypeOK
    PROVE  /\ Renewed(jar.session) \in Session \cup {None}
           /\ Renewed(jar.session) # None =>
                jar.session # None /\ Renewed(jar.session).iat = now
  <1>1. jar.session \in Session \cup {None} /\ now \in 0..MaxTime
    BY DEF TypeOK, Jar
  <1>2. ASSUME Renewed(jar.session) # None
        PROVE  /\ jar.session # None
               /\ Renewed(jar.session) = [user |-> jar.session.user, iat |-> now]
    BY <1>2 DEF Renewed, Valid, issueSessionCookie
  <1> QED BY <1>1, <1>2 DEF Session

(* Answer puts an answer on its way.                                       *)
LEMMA AnswerFields ==
    ASSUME TypeOK, NEW t \in Tabs, NEW to \in {"callback", "page", "logout"},
           NEW ok \in BOOLEAN, NEW dest \in Dests, NEW clear \in BOOLEAN,
           NEW set \in Session \cup {None}, NEW drop \in BOOLEAN,
           Answer(t, to, ok, dest, clear, set, drop)
    PROVE  LET a == answer'[t] IN
           /\ a \in Answers /\ a # None
           /\ answer' = [answer EXCEPT ![t] = a]
           /\ a.to = to /\ a.ok = ok /\ a.dest = dest /\ a.clear = clear
           /\ a.set = set /\ a.drop = drop
           /\ a.at = now /\ a.authed = Valid(jar.session)
  <1> DEFINE b == [to |-> to, ok |-> ok, dest |-> dest, clear |-> clear, set |-> set,
                   drop |-> drop, authed |-> Valid(jar.session), at |-> now]
  <1>1. Valid(jar.session) \in BOOLEAN /\ now \in 0..MaxTime
    BY DEF Valid, TypeOK
  <1>2. b \in Answers
    BY <1>1 DEF Answers
  <1>3. answer' = [answer EXCEPT ![t] = b]
    BY DEF Answer
  <1>4. answer'[t] = b
    BY <1>3 DEF TypeOK
  <1>5. /\ b.to = to /\ b.ok = ok /\ b.dest = dest /\ b.clear = clear
        /\ b.set = set /\ b.drop = drop
        /\ b.at = now /\ b.authed = Valid(jar.session)
    OBVIOUS
  <1> HIDE DEF b
  <1>6. b # None
    BY <1>2, NoneAssumption
  <1> QED BY <1>2, <1>3, <1>4, <1>5, <1>6

(* The requests that are answered.                                         *)
Serves(t) == Visit(t) \/ HandleLogout(t) \/ InvalidState(t) \/ HandleCallback(t)

Completed(a) == a.to = "callback" /\ a.ok

(* Tab t goes to at with its login.                                        *)
Moves(t, at) ==
    /\ tab' \in [Tabs -> Tab] /\ tab'[t].at = at
    /\ tab'[t].n = tab[t].n /\ tab'[t].rd = tab[t].rd /\ tab'[t].begun = tab[t].begun
    /\ \A u \in Tabs \ {t} : tab'[u] = tab[u]

(* The answer that a request gets.                                         *)
LEMMA ServesOutcome ==
    ASSUME TypeOK, TabInv, CodeInv, NEW t \in Tabs, Serves(t)
    PROVE  LET a == answer'[t] IN
           /\ answer[t] = None /\ a \in Answers /\ a # None
           /\ answer' = [answer EXCEPT ![t] = a]
           /\ UNCHANGED <<now, jar, logins, seen, signedIn, crossed>>
           /\ a.at = now /\ a.authed = Valid(jar.session)
           /\ a.drop <=> a.to = "logout"
           /\ a.clear => HandleCallback(t)
           /\ a.to = "callback" <=> tab[t].at = "back"
           /\ Completed(a) => /\ a.set = [user |-> code[tab[t].n].user, iat |-> now]
                              /\ a.set # None
                              /\ a.dest = safeRedirectPath(tab[t].rd)
           /\ ~Completed(a) => a.set = Renewed(jar.session)
           /\ \/ tab[t].at = "back" /\ Moves(t, "waiting")
              \/ tab[t].at \in {"page", "error"} /\ UNCHANGED tab
           /\ \A n \in 1..MaxLogins : code'[n].user = code[n].user
  <1>1. answer[t] = None
    BY DEF Serves, Visit, HandleLogout, InvalidState, HandleCallback, TabInv
  <1>2. tab[t] \in Tab /\ Home \in Dests /\ now \in 0..MaxTime
    BY DestsAssumption DEF TypeOK
  <1>3. Renewed(jar.session) \in Session \cup {None}
    BY RenewedTyped
  <1>4. CASE Visit(t)
    <2>1. Answer(t, "page", TRUE, Home, FALSE, Renewed(jar.session), FALSE)
      BY <1>4 DEF Visit
    <2>2. /\ tab[t].at \in {"page", "error"}
          /\ UNCHANGED <<now, jar, logins, seen, signedIn, crossed, code, tab>>
      BY <1>4 DEF Visit
    <2>3. LET a == answer'[t] IN
          /\ a \in Answers /\ a # None /\ answer' = [answer EXCEPT ![t] = a]
          /\ a.to = "page" /\ a.clear = FALSE /\ a.drop = FALSE
          /\ a.set = Renewed(jar.session)
          /\ a.at = now /\ a.authed = Valid(jar.session)
      BY <1>2, <1>3, <2>1, AnswerFields
    <2> QED BY <1>1, <2>2, <2>3 DEF Completed
  <1>5. CASE HandleLogout(t)
    <2>1. Answer(t, "logout", TRUE, Home, FALSE, Renewed(jar.session), TRUE)
      BY <1>5 DEF HandleLogout
    <2>2. /\ tab[t].at \in {"page", "error"}
          /\ UNCHANGED <<now, jar, logins, seen, signedIn, crossed, code, tab>>
      BY <1>5 DEF HandleLogout
    <2>3. LET a == answer'[t] IN
          /\ a \in Answers /\ a # None /\ answer' = [answer EXCEPT ![t] = a]
          /\ a.to = "logout" /\ a.clear = FALSE /\ a.drop = TRUE
          /\ a.set = Renewed(jar.session)
          /\ a.at = now /\ a.authed = Valid(jar.session)
      BY <1>2, <1>3, <2>1, AnswerFields
    <2> QED BY <1>1, <2>2, <2>3 DEF Completed
  <1>6. CASE InvalidState(t)
    <2>1. Answer(t, "callback", FALSE, Home, FALSE, Renewed(jar.session), FALSE)
      BY <1>6 DEF InvalidState
    <2>2. tab[t].at = "back" /\ UNCHANGED <<now, jar, logins, seen, signedIn, crossed, code>>
      BY <1>6 DEF InvalidState
    <2>3. Moves(t, "waiting")
      BY <1>6, <2>2 DEF InvalidState, TypeOK, Moves, Tab
    <2> QED BY <1>1, <1>2, <1>3, <2>1, <2>2, <2>3, AnswerFields DEF Completed
  <1>7. CASE HandleCallback(t)
    <2> DEFINE n   == tab[t].n
               ok  == Exchanged(n) /\ n = jar.nonce
               dst == IF ok THEN safeRedirectPath(jar.state.rd) ELSE Home
               set == IF ok THEN issueSessionCookie(code[n].user) ELSE Renewed(jar.session)
    <2>1. Answer(t, "callback", ok, dst, TRUE, set, FALSE)
      BY <1>7 DEF HandleCallback
    <2>2. tab[t].at = "back" /\ UNCHANGED <<now, jar, logins, seen, signedIn, crossed>>
      BY <1>7 DEF HandleCallback
    <2>3. Moves(t, "waiting")
      BY <1>7, <2>2 DEF HandleCallback, TypeOK, Moves, Tab
    <2>4. jar.state.rd = safeRedirectPath(tab[t].rd)
      BY <1>7 DEF HandleCallback, StateParam
    <2>5. ok => dst = safeRedirectPath(tab[t].rd)
      BY <1>2, <2>4, Redirect DEF Tab
    <2>6. n \in 1..MaxLogins
      BY <2>2, ClockAssumption DEF TabInv, TypeOK
    <2>7. ok => set = [user |-> code[n].user, iat |-> now] /\ code[n].user \in Users
      BY <2>6 DEF CodeInv, Exchanged, issueSessionCookie
    <2>8. \A m \in 1..MaxLogins : code'[m].user = code[m].user
      BY <1>7, <2>6 DEF HandleCallback, TypeOK, Code
    <2>9. CASE ok
      <3> DEFINE new == [user |-> code[n].user, iat |-> now]
      <3>1. Answer(t, "callback", TRUE, safeRedirectPath(tab[t].rd), TRUE, new, FALSE)
        BY <2>1, <2>5, <2>7, <2>9
      <3>2. new \in Session /\ safeRedirectPath(tab[t].rd) \in Dests
        BY <1>2, <2>7, <2>9, Redirect DEF Tab, Session
      <3>4. new # None
        BY <3>2, NoneAssumption
      <3> HIDE DEF new
      <3>3. LET a == answer'[t] IN
            /\ a \in Answers /\ a # None /\ answer' = [answer EXCEPT ![t] = a]
            /\ a.to = "callback" /\ a.ok = TRUE /\ a.dest = safeRedirectPath(tab[t].rd)
            /\ a.set = new /\ a.drop = FALSE
            /\ a.at = now /\ a.authed = Valid(jar.session)
        BY ZenonT(40), <3>1, <3>2, AnswerFields
      <3> QED BY <1>1, <1>7, <2>2, <2>3, <2>8, <3>3, <3>4 DEF Completed, new
    <2>10. CASE ~ok
      <3>1. Answer(t, "callback", FALSE, Home, TRUE, Renewed(jar.session), FALSE)
        BY <2>1, <2>10
      <3> QED BY <1>1, <1>2, <1>3, <1>7, <2>2, <2>3, <2>8, <3>1, AnswerFields DEF Completed
    <2> QED BY <2>9, <2>10
  <1> QED BY <1>4, <1>5, <1>6, <1>7 DEF Serves

(* The cookies of a login, and the others as they are.                     *)
LEMMA LoginOutcome ==
    ASSUME TypeOK, NEW t \in Tabs, NEW rd \in Dests, HandleLogin(t, rd)
    PROVE  LET n == logins + 1 IN
           /\ answer[t] = None /\ tab[t].at \in {"page", "error"}
           /\ n \in 1..MaxLogins /\ logins' = n
           /\ tab' \in [Tabs -> Tab]
           /\ tab'[t] = [at |-> "provider", n |-> n, rd |-> rd, begun |-> now]
           /\ \A u \in Tabs \ {t} : tab'[u] = tab[u]
           /\ jar' \in Jar
           /\ jar'.state = CookieValue([n |-> n, rd |-> safeRedirectPath(rd)])
           /\ jar'.nonce = n
           /\ UsePKCE => jar'.verifier = n
           /\ jar'.till = now + CookieMaxAge
           /\ \/ jar'.session = jar.session
              \/ /\ jar.session # None /\ jar'.session # None
                 /\ jar'.session.iat = now
           /\ crossed' \subseteq crossed \cup {n}
           /\ n \notin crossed' => \A u \in Tabs : answer[u] = None
           /\ UNCHANGED <<now, code, answer, seen, signedIn>>
  <1> DEFINE n == logins + 1
             c == CookieValue([n |-> n, rd |-> safeRedirectPath(rd)])
             v == IF UsePKCE THEN n ELSE jar.verifier
             r == IF Renewed(jar.session) # None THEN Renewed(jar.session) ELSE jar.session
             j == [state |-> c, nonce |-> n, verifier |-> v, till |-> now + CookieMaxAge,
                   session |-> r]
  <1>1. n \in 1..MaxLogins /\ n \in 0..MaxLogins /\ now \in 0..MaxTime /\ jar \in Jar
    BY ClockAssumption DEF HandleLogin, TypeOK
  <1>2. [n |-> n, rd |-> safeRedirectPath(rd)] \in State
    BY <1>1, Redirect DEF State
  <1>3. c \in State
    <2>1. \A x \in State : [x EXCEPT !.rd = "stripped"] \in State
      BY DEF State
    <2> QED BY <1>2, <2>1 DEF CookieValue
  <1>4. v \in 0..MaxLogins /\ (UsePKCE => v = n)
    BY <1>1 DEF Jar
  <1>5. r \in Session \cup {None}
    BY <1>1, RenewedTyped DEF Jar
  <1>6. now + CookieMaxAge \in Nat
    BY <1>1, ClockAssumption
  <1>7. jar' = j
    BY <1>1 DEF HandleLogin, Jar
  <1>8. jar' \in Jar
    <2> HIDE DEF c, v, r
    <2> QED BY <1>1, <1>3, <1>4, <1>5, <1>6, <1>7 DEF Jar
  <1>9. /\ jar'.state = c /\ jar'.nonce = n /\ jar'.verifier = v
        /\ jar'.till = now + CookieMaxAge /\ jar'.session = r
    <2> HIDE DEF c, v, r
    <2> QED BY <1>7
  <1>10. r = jar.session \/ (jar.session # None /\ r # None /\ r.iat = now)
    BY RenewedTyped
  <1>11. /\ tab' \in [Tabs -> Tab]
         /\ tab'[t] = [at |-> "provider", n |-> n, rd |-> rd, begun |-> now]
         /\ \A u \in Tabs \ {t} : tab'[u] = tab[u]
    BY <1>1 DEF HandleLogin, TypeOK, Tab
  <1>12. /\ answer[t] = None /\ tab[t].at \in {"page", "error"} /\ logins' = n
         /\ crossed' \subseteq crossed \cup {n}
         /\ n \notin crossed' => \A u \in Tabs : answer[u] = None
         /\ UNCHANGED <<now, code, answer, seen, signedIn>>
    BY DEF HandleLogin
  <1> HIDE DEF c, v, r, j
  <1> QED BY <1>1, <1>4, <1>8, <1>9, <1>10, <1>11, <1>12 DEF c

(* What an answer does when it arrives.                                    *)
LEMMA ReceiveOutcome ==
    ASSUME TypeOK, NEW t \in Tabs, Receive(t)
    PROVE  LET a == answer[t] IN
           /\ a \in Answers /\ a # None
           /\ answer' = [answer EXCEPT ![t] = None]
           /\ jar' \in Jar
           /\ jar'.session = SessionAfter(a)
           /\ ~a.clear => /\ jar'.state = jar.state /\ jar'.nonce = jar.nonce
                          /\ jar'.verifier = jar.verifier /\ jar'.till = jar.till
           /\ tab' \in [Tabs -> Tab]
           /\ tab'[t].at \in {"page", "error"} /\ tab'[t].n = 0
           /\ \A u \in Tabs \ {t} : tab'[u] = tab[u]
           /\ UNCHANGED <<now, code, logins>>
  <1> DEFINE a == answer[t]
             s == SessionAfter(a)
  <1>1. a \in Answers /\ a # None /\ jar \in Jar /\ Home \in Dests
    BY DestsAssumption DEF Receive, TypeOK
  <1>2. s \in Session \cup {None}
    BY <1>1 DEF SessionAfter, Answers, Jar
  <1>3. \/ a.clear /\ jar' = [jar EXCEPT !.state = None, !.nonce = 0, !.verifier = 0,
                                        !.session = s]
        \/ ~a.clear /\ jar' = [jar EXCEPT !.session = s]
    BY DEF Receive
  <1> HIDE DEF s
  <1>4. \/ a.clear /\ jar' = [state |-> None, nonce |-> 0, verifier |-> 0,
                              till |-> jar.till, session |-> s]
        \/ ~a.clear /\ jar' = [state |-> jar.state, nonce |-> jar.nonce,
                               verifier |-> jar.verifier, till |-> jar.till, session |-> s]
    BY <1>1, <1>3 DEF Jar
  <1>5. /\ jar' \in Jar /\ jar'.session = s
        /\ ~a.clear => /\ jar'.state = jar.state /\ jar'.nonce = jar.nonce
                       /\ jar'.verifier = jar.verifier /\ jar'.till = jar.till
    BY <1>1, <1>2, <1>4, ClockAssumption DEF Jar
  <1>6. \A p \in {OnPage, [OnPage EXCEPT !.at = "error"]} :
          p \in Tab /\ p.at \in {"page", "error"} /\ p.n = 0
    BY <1>1, ClockAssumption DEF OnPage, Tab
  <1>7. PICK p \in {OnPage, [OnPage EXCEPT !.at = "error"]} : tab' = [tab EXCEPT ![t] = p]
    BY DEF Receive
  <1>8. /\ tab' \in [Tabs -> Tab]
        /\ tab'[t].at \in {"page", "error"} /\ tab'[t].n = 0
        /\ \A u \in Tabs \ {t} : tab'[u] = tab[u]
    <2>1. p \in Tab /\ p.at \in {"page", "error"} /\ p.n = 0
      BY <1>6
    <2>2. tab \in [Tabs -> Tab] /\ tab' = [tab EXCEPT ![t] = p]
      BY <1>7 DEF TypeOK
    <2> QED BY <2>1, <2>2
  <1>9. UNCHANGED <<now, code, logins>> /\ answer' = [answer EXCEPT ![t] = None]
    BY DEF Receive
  <1> QED BY <1>1, <1>5, <1>8, <1>9 DEF s

(* An answer that is lost: a callback is tried again.                      *)
LEMMA LoseOutcome ==
    ASSUME TypeOK, NEW t \in Tabs, Lose(t)
    PROVE  /\ answer[t] # None /\ answer' = [answer EXCEPT ![t] = None]
           /\ \/ tab[t].at = "waiting" /\ Moves(t, "back")
              \/ tab[t].at # "waiting" /\ UNCHANGED tab
           /\ UNCHANGED <<now, jar, code, logins, seen, signedIn, crossed>>
  <1>1. CASE tab[t].at = "waiting"
    BY <1>1 DEF Lose, Moves, TypeOK, Tab
  <1>2. CASE tab[t].at # "waiting"
    <2>1. tab' = [tab EXCEPT ![t].at = tab[t].at]
      BY <1>2 DEF Lose
    <2>2. tab \in [Tabs -> Tab] /\ tab[t] \in Tab
      BY DEF TypeOK
    <2>3. [tab[t] EXCEPT !.at = tab[t].at] = tab[t]
      BY <2>2 DEF Tab
    <2>4. tab' = tab
      BY <2>1, <2>2, <2>3
    <2> QED BY <1>2, <2>4 DEF Lose
  <1> QED BY <1>1, <1>2

(* The provider sends the tab back.                                        *)
LEMMA ProviderOutcome ==
    ASSUME TypeOK, TabInv, NEW t \in Tabs, Decline(t) \/ \E u \in Users : Authenticate(t, u)
    PROVE  /\ tab[t].at = "provider" /\ tab[t].n \in 1..MaxLogins
           /\ Moves(t, "back")
           /\ \/ UNCHANGED code
              \/ \E c \in Code : /\ c.user \in Users /\ (UsePKCE => c.challenge = tab[t].n)
                                 /\ code' = [code EXCEPT ![tab[t].n] = c]
           /\ UNCHANGED <<now, jar, answer, logins, seen, signedIn, crossed>>
  <1>1. tab[t].at = "provider" /\ Moves(t, "back")
    <2>1. tab[t].at = "provider" /\ tab' = [tab EXCEPT ![t].at = "back"]
      BY DEF Decline, Authenticate
    <2> QED BY <2>1 DEF Moves, TypeOK, Tab
  <1>2. tab[t].n \in 1..MaxLogins
    BY <1>1, ClockAssumption DEF TabInv, TypeOK
  <1>3. CASE Decline(t)
    BY <1>1, <1>2, <1>3 DEF Decline
  <1>4. ASSUME NEW u \in Users, Authenticate(t, u)
        PROVE  \E c \in Code : /\ c.user \in Users /\ (UsePKCE => c.challenge = tab[t].n)
                               /\ code' = [code EXCEPT ![tab[t].n] = c]
    <2> DEFINE c == [at |-> "issued", user |-> u,
                     challenge |-> IF UsePKCE THEN tab[t].n ELSE 0]
    <2>1. c \in Code
      BY <1>2, ClockAssumption DEF Code
    <2>2. code' = [code EXCEPT ![tab[t].n] = c]
      BY <1>4 DEF Authenticate
    <2> QED BY <2>1, <2>2
  <1> QED BY <1>1, <1>2, <1>3, <1>4 DEF Authenticate

-----------------------------------------------------------------------------
(* Each part of the invariant.                                             *)

LEMMA NextCases ==
    ASSUME [Next]_vars
    PROVE  \/ \E t \in Tabs : Serves(t)
           \/ \E t \in Tabs, rd \in Dests : HandleLogin(t, rd)
           \/ \E t \in Tabs : Decline(t) \/ \E u \in Users : Authenticate(t, u)
           \/ \E t \in Tabs : Receive(t)
           \/ \E t \in Tabs : Lose(t)
           \/ Tick
           \/ UNCHANGED vars
  BY DEF Next, Serves

LEMMA CodeStep ==
    ASSUME TypeOK, TabInv, CodeInv, [Next]_vars
    PROVE  CodeInv' /\ code' \in [1..MaxLogins -> Code]
  <1>1. ASSUME UNCHANGED code PROVE CodeInv' /\ code' \in [1..MaxLogins -> Code]
    BY <1>1 DEF CodeInv, TypeOK
  <1>2. ASSUME NEW t \in Tabs, HandleCallback(t)
        PROVE  CodeInv' /\ code' \in [1..MaxLogins -> Code]
    <2>1. PICK x \in {"spent", code[tab[t].n].at} : code' = [code EXCEPT ![tab[t].n].at = x]
      BY <1>2 DEF HandleCallback
    <2>2. tab[t].n \in 1..MaxLogins
      BY <1>2, ClockAssumption DEF HandleCallback, TabInv, TypeOK
    <2>3. x \in {"none", "issued", "spent"}
      BY <2>2 DEF TypeOK, Code
    <2>4. x = "issued" => code[tab[t].n].at = "issued"
      BY <2>1
    <2>5. x = "none" \/ code[tab[t].n].at # "none"
      BY <1>2, <2>1, <2>2 DEF HandleCallback, Exchanged, TypeOK, Code
    <2> QED BY <2>1, <2>2, <2>3, <2>4, <2>5 DEF CodeInv, TypeOK, Code
  <1>3. ASSUME NEW t \in Tabs, Decline(t) \/ \E u \in Users : Authenticate(t, u)
        PROVE  CodeInv' /\ code' \in [1..MaxLogins -> Code]
    <2>1. CASE UNCHANGED code
      BY <1>1, <2>1
    <2>2. ASSUME NEW c \in Code, c.user \in Users, UsePKCE => c.challenge = tab[t].n,
                 code' = [code EXCEPT ![tab[t].n] = c]
          PROVE  CodeInv' /\ code' \in [1..MaxLogins -> Code]
      <3>1. tab[t].n \in 1..MaxLogins
        BY <1>3, ProviderOutcome
      <3>2. code' \in [1..MaxLogins -> Code]
        BY <2>2, <3>1 DEF TypeOK
      <3>3. \A m \in 1..MaxLogins : code'[m] = IF m = tab[t].n THEN c ELSE code[m]
        BY <2>2, <3>1 DEF TypeOK
      <3> QED BY <2>2, <3>2, <3>3 DEF CodeInv
    <2> QED BY <1>3, <2>1, <2>2, ProviderOutcome
  <1>4. ASSUME NEW t \in Tabs, Visit(t) \/ HandleLogout(t) \/ InvalidState(t)
        PROVE  UNCHANGED code
    BY <1>4 DEF Visit, HandleLogout, InvalidState
  <1>5. ASSUME NEW t \in Tabs, NEW rd \in Dests, HandleLogin(t, rd) PROVE UNCHANGED code
    BY <1>5 DEF HandleLogin
  <1>6. ASSUME NEW t \in Tabs, Receive(t) \/ Lose(t) PROVE UNCHANGED code
    BY <1>6 DEF Receive, Lose
  <1>7. CASE Tick \/ UNCHANGED vars
    BY <1>1, <1>7 DEF Tick, vars
  <1> QED BY <1>1, <1>2, <1>3, <1>4, <1>5, <1>6, <1>7, NextCases DEF Serves

LEMMA TypeStep ==
    ASSUME TypeOK, TabInv, CodeInv, [Next]_vars
    PROVE  TypeOK'
  <1>1. code' \in [1..MaxLogins -> Code]
    BY CodeStep
  <1>2. ASSUME NEW t \in Tabs, Serves(t) PROVE TypeOK'
    <2>1. tab' \in [Tabs -> Tab]
      BY <1>2, ServesOutcome DEF Moves, TypeOK
    <2>2. answer' \in [Tabs -> Answers \cup {None}]
      <3>1. answer'[t] \in Answers /\ answer' = [answer EXCEPT ![t] = answer'[t]]
        BY <1>2, ServesOutcome
      <3> QED BY <3>1 DEF TypeOK
    <2>3. UNCHANGED <<now, jar, logins, seen, signedIn, crossed>>
      BY <1>2, ServesOutcome
    <2> QED BY <1>1, <2>1, <2>2, <2>3 DEF TypeOK
  <1>3. ASSUME NEW t \in Tabs, NEW rd \in Dests, HandleLogin(t, rd) PROVE TypeOK'
    <2>1. tab' \in [Tabs -> Tab] /\ jar' \in Jar /\ UNCHANGED <<now, answer, seen, signedIn>>
      BY <1>3, LoginOutcome
    <2>2. logins' \in 0..MaxLogins /\ crossed' \subseteq 0..MaxLogins
      <3>1. /\ logins + 1 \in 1..MaxLogins /\ logins' = logins + 1
            /\ crossed' \subseteq crossed \cup {logins + 1}
        BY <1>3, LoginOutcome
      <3> QED BY <3>1, ClockAssumption DEF TypeOK
    <2> QED BY <1>1, <2>1, <2>2 DEF TypeOK
  <1>4. ASSUME NEW t \in Tabs, Decline(t) \/ \E u \in Users : Authenticate(t, u)
        PROVE  TypeOK'
    BY <1>1, <1>4, ProviderOutcome DEF TypeOK, Moves
  <1>5. ASSUME NEW t \in Tabs, Receive(t) PROVE TypeOK'
    <2>1. tab' \in [Tabs -> Tab] /\ jar' \in Jar /\ UNCHANGED <<now, logins>>
      BY <1>5, ReceiveOutcome
    <2>2. answer' \in [Tabs -> Answers \cup {None}]
      BY <1>5, ReceiveOutcome DEF TypeOK
    <2>3. seen' \in 0..MaxTime /\ signedIn' \in BOOLEAN
      BY <1>5 DEF Receive, TypeOK, Answers
    <2>4. crossed' \subseteq crossed \cup {0}
      BY <1>5 DEF Receive
    <2>5. crossed' \subseteq 0..MaxLogins
      BY <2>4, ClockAssumption DEF TypeOK
    <2> QED BY <1>1, <2>1, <2>2, <2>3, <2>5 DEF TypeOK
  <1>6. ASSUME NEW t \in Tabs, Lose(t) PROVE TypeOK'
    <2>1. answer' \in [Tabs -> Answers \cup {None}] /\ tab' \in [Tabs -> Tab]
      BY <1>6, LoseOutcome DEF TypeOK, Moves
    <2> QED BY <1>1, <1>6, <2>1, LoseOutcome DEF TypeOK
  <1>7. CASE Tick
    <2>1. now' \in 0..MaxTime
      BY <1>7, ClockAssumption DEF Tick, TypeOK
    <2> QED BY <1>1, <1>7, <2>1 DEF Tick, TypeOK
  <1>8. CASE UNCHANGED vars
    BY <1>8 DEF vars, TypeOK
  <1> QED BY <1>2, <1>3, <1>4, <1>5, <1>6, <1>7, <1>8, NextCases

(* Moving keeps the login, and with it whose login is whose.               *)
LEMMA MovesKeepLogins ==
    ASSUME TabInv, NEW t \in Tabs, NEW at, Moves(t, at)
    PROVE  \A u \in Tabs : tab'[u].n = tab[u].n /\ (u # t => tab'[u] = tab[u])
  BY DEF Moves

LEMMA TabStep ==
    ASSUME TypeOK, TabInv, CodeInv, [Next]_vars
    PROVE  TabInv'
  <1>1. ASSUME NEW t \in Tabs, Serves(t) PROVE TabInv'
    <2>1. /\ answer'[t] # None /\ answer' = [answer EXCEPT ![t] = answer'[t]]
          /\ answer'[t].to = "callback" <=> tab[t].at = "back"
          /\ logins' = logins
      BY <1>1, ServesOutcome
    <2>2. \A u \in Tabs \ {t} : answer'[u] = answer[u]
      BY <2>1 DEF TypeOK
    <2>3. \/ tab[t].at = "back" /\ Moves(t, "waiting")
          \/ tab[t].at \in {"page", "error"} /\ UNCHANGED tab
      BY <1>1, ServesOutcome
    <2>4. CASE tab[t].at = "back" /\ Moves(t, "waiting")
      <3>1. tab'[t].at = "waiting"
        BY <2>4 DEF Moves
      <3> QED BY <2>1, <2>2, <2>4, <3>1, MovesKeepLogins DEF TabInv
    <2>5. CASE tab[t].at \in {"page", "error"} /\ UNCHANGED tab
      BY <2>1, <2>2, <2>5 DEF TabInv
    <2> QED BY <2>3, <2>4, <2>5
  <1>2. ASSUME NEW t \in Tabs, NEW rd \in Dests, HandleLogin(t, rd) PROVE TabInv'
    <2>1. /\ answer[t] = None /\ answer' = answer /\ logins' = logins + 1
          /\ tab'[t] = [at |-> "provider", n |-> logins + 1, rd |-> rd, begun |-> now]
          /\ \A u \in Tabs \ {t} : tab'[u] = tab[u]
      BY <1>2, LoginOutcome
    <2>2. tab'[t].at = "provider" /\ tab'[t].n = logins + 1 /\ logins \in Nat
      BY <2>1 DEF TypeOK
    <2>3. \A u \in Tabs : tab[u].n \in 0..logins
      BY <2>2 DEF TabInv
    <2> QED BY <2>1, <2>2, <2>3 DEF TabInv
  <1>3. ASSUME NEW t \in Tabs, Decline(t) \/ \E u \in Users : Authenticate(t, u)
        PROVE  TabInv'
    <2>1. tab[t].at = "provider" /\ Moves(t, "back") /\ UNCHANGED <<answer, logins>>
      BY <1>3, ProviderOutcome
    <2>2. tab'[t].at = "back"
      BY <2>1 DEF Moves
    <2> QED BY <2>1, <2>2, MovesKeepLogins DEF TabInv
  <1>4. ASSUME NEW t \in Tabs, Receive(t) PROVE TabInv'
    <2>1. /\ answer' = [answer EXCEPT ![t] = None] /\ logins' = logins
          /\ tab'[t].at \in {"page", "error"} /\ tab'[t].n = 0
          /\ \A u \in Tabs \ {t} : tab'[u] = tab[u]
      BY <1>4, ReceiveOutcome
    <2>2. answer'[t] = None /\ \A u \in Tabs \ {t} : answer'[u] = answer[u]
      BY <2>1 DEF TypeOK
    <2> QED BY <2>1, <2>2 DEF TabInv
  <1>5. ASSUME NEW t \in Tabs, Lose(t) PROVE TabInv'
    <2>1. answer' = [answer EXCEPT ![t] = None] /\ answer[t] # None /\ logins' = logins
      BY <1>5, LoseOutcome
    <2>2. answer'[t] = None /\ \A u \in Tabs \ {t} : answer'[u] = answer[u]
      BY <2>1 DEF TypeOK
    <2>3. CASE tab[t].at = "waiting" /\ Moves(t, "back")
      <3>1. tab'[t].at = "back"
        BY <2>3 DEF Moves
      <3> QED BY <2>1, <2>2, <2>3, <3>1, MovesKeepLogins DEF TabInv
    <2>4. CASE tab[t].at # "waiting" /\ UNCHANGED tab
      BY <2>1, <2>2, <2>4 DEF TabInv
    <2> QED BY <1>5, <2>3, <2>4, LoseOutcome
  <1>6. CASE Tick \/ UNCHANGED vars
    BY <1>6 DEF Tick, vars, TabInv
  <1> QED BY <1>1, <1>2, <1>3, <1>4, <1>5, <1>6, NextCases

(* The answers of other tabs stay, and so does the time.                   *)
LEMMA AnswerStep ==
    ASSUME TypeOK, TabInv, CodeInv, AnswerInv, [Next]_vars
    PROVE  AnswerInv'
  <1> DEFINE Fine(a, time) ==
        a # None =>
            /\ a.to = "logout" => a.drop
            /\ a.drop => a.to = "logout"
            /\ a.clear => a.to = "callback"
            /\ a.to = "callback" /\ a.ok => a.set # None
            /\ a.set # None => a.set.iat = a.at
            /\ a.at <= time /\ time <= a.at + MaxDelay
  <1>1. AnswerInv <=> \A t \in Tabs : Fine(answer[t], now)
    BY DEF AnswerInv
  <1>2. AnswerInv' <=> \A t \in Tabs : Fine(answer'[t], now')
    BY DEF AnswerInv
  <1>3. ASSUME UNCHANGED now, \A t \in Tabs : answer'[t] = answer[t] \/ Fine(answer'[t], now)
        PROVE  AnswerInv'
    BY <1>1, <1>2, <1>3
  <1>4. ASSUME NEW t \in Tabs, Serves(t) PROVE AnswerInv'
    <2>1. LET a == answer'[t] IN
          /\ answer' = [answer EXCEPT ![t] = a]
          /\ a.at = now
          /\ a.drop <=> a.to = "logout"
          /\ a.clear => HandleCallback(t)
          /\ a.to = "callback" <=> tab[t].at = "back"
          /\ Completed(a) => a.set = [user |-> code[tab[t].n].user, iat |-> now] /\ a.set # None
          /\ ~Completed(a) => a.set = Renewed(jar.session)
          /\ UNCHANGED now
          /\ a \in Answers
      BY <1>4, ServesOutcome
    <2>2. Renewed(jar.session) # None => Renewed(jar.session).iat = now
      BY RenewedTyped
    <2>3. now \in Nat /\ MaxDelay \in Nat
      BY ClockAssumption DEF TypeOK
    <2>4. Completed(answer'[t]) => answer'[t].set # None /\ answer'[t].set.iat = now
      BY <2>1
    <2>5. Fine(answer'[t], now)
      <3>1. HandleCallback(t) => tab[t].at = "back"
        BY DEF HandleCallback
      <3>2. answer'[t].clear => answer'[t].to = "callback"
        BY <2>1, <3>1
      <3>3. answer'[t].set # None => answer'[t].set.iat = answer'[t].at
        BY <2>1, <2>2, <2>4
      <3> QED BY <2>1, <2>3, <2>4, <3>2, <3>3 DEF Completed
    <2>6. \A u \in Tabs \ {t} : answer'[u] = answer[u]
      BY <2>1 DEF TypeOK
    <2> HIDE DEF Fine
    <2> QED BY <1>3, <2>1, <2>5, <2>6
  <1> HIDE DEF Fine
  <1>5. ASSUME NEW t \in Tabs, answer' = [answer EXCEPT ![t] = None], UNCHANGED now
        PROVE  AnswerInv'
    <2>1. Fine(None, now)
      BY DEF Fine
    <2>2. \A u \in Tabs : answer'[u] \in {answer[u], None}
      BY <1>5 DEF TypeOK
    <2> QED BY <1>3, <1>5, <2>1, <2>2
  <1>6. ASSUME NEW t \in Tabs, Receive(t) \/ Lose(t) PROVE AnswerInv'
    BY <1>5, <1>6, ReceiveOutcome, LoseOutcome
  <1>7. ASSUME UNCHANGED <<now, answer>> PROVE AnswerInv'
    BY <1>3, <1>7
  <1>8. ASSUME NEW t \in Tabs, NEW rd \in Dests, HandleLogin(t, rd) PROVE AnswerInv'
    BY <1>7, <1>8, LoginOutcome
  <1>9. ASSUME NEW t \in Tabs, Decline(t) \/ \E u \in Users : Authenticate(t, u)
        PROVE  AnswerInv'
    BY <1>7, <1>9, ProviderOutcome
  <1>10. CASE Tick
    <2>1. now' = now + 1 /\ answer' = answer /\ now \in Nat /\ MaxDelay \in Nat
      BY <1>10, ClockAssumption DEF Tick, TypeOK
    <2>2. ASSUME NEW t \in Tabs PROVE Fine(answer'[t], now')
      <3>1. answer[t] # None => answer[t].at \in Nat /\ now - answer[t].at < MaxDelay
        BY <1>10 DEF Tick, TypeOK, Answers
      <3> QED BY <1>1, <2>1, <3>1 DEF Fine
    <2> QED BY <1>2, <2>2
  <1>11. CASE UNCHANGED vars
    BY <1>7, <1>11 DEF vars
  <1> QED BY <1>4, <1>6, <1>8, <1>9, <1>10, <1>11, NextCases

(* Whose answer it is does not change: others have other logins.           *)
LEMMA OwnStep ==
    ASSUME TypeOK, TabInv, CodeInv, OwnLogin, [Next]_vars
    PROVE  OwnLogin'
  <1> DEFINE Own(t) == LET a == answer[t] IN
                       a # None /\ Completed(a) =>
                           /\ a.dest = safeRedirectPath(tab[t].rd)
                           /\ a.set.user = code[tab[t].n].user
  <1>1. (OwnLogin <=> \A t \in Tabs : Own(t)) /\ (OwnLogin' <=> \A t \in Tabs : Own(t)')
    BY DEF OwnLogin, Completed
  <1>2. ASSUME NEW u \in Tabs, answer[u] # None, Completed(answer[u])
        PROVE  tab[u].at = "waiting" /\ tab[u].n \in 1..MaxLogins
    BY <1>2, ClockAssumption DEF TabInv, Completed, TypeOK
  <1>3. ASSUME NEW u \in Tabs, UNCHANGED <<answer[u], tab[u]>>,
               \A n \in 1..MaxLogins : n = tab[u].n => code'[n].user = code[n].user
        PROVE  Own(u)'
    BY <1>1, <1>2, <1>3 DEF Completed
  <1>4. ASSUME NEW u \in Tabs, answer'[u] = None PROVE Own(u)'
    BY <1>4
  <1>5. ASSUME NEW t \in Tabs, Serves(t) PROVE OwnLogin'
    <2>1. LET a == answer'[t] IN
          /\ answer' = [answer EXCEPT ![t] = a] /\ a # None
          /\ Completed(a) => /\ a.set = [user |-> code[tab[t].n].user, iat |-> now]
                             /\ a.dest = safeRedirectPath(tab[t].rd)
          /\ a.to = "callback" <=> tab[t].at = "back"
          /\ \A n \in 1..MaxLogins : code'[n].user = code[n].user
      BY <1>5, ServesOutcome
    <2>2. /\ tab'[t].n = tab[t].n /\ tab'[t].rd = tab[t].rd
          /\ \A u \in Tabs \ {t} : tab'[u] = tab[u]
      BY <1>5, ServesOutcome DEF Moves
    <2>3. Own(t)'
      <3>1. Completed(answer'[t]) => tab[t].n \in 1..MaxLogins
        BY <2>1, ClockAssumption DEF TabInv, Completed, TypeOK
      <3> QED BY <2>1, <2>2, <3>1 DEF Completed, safeRedirectPath
    <2>4. \A u \in Tabs \ {t} : answer'[u] = answer[u]
      BY <2>1 DEF TypeOK
    <2>5. \A u \in Tabs \ {t} : Own(u)'
      BY <1>3, <2>1, <2>2, <2>4
    <2> QED BY <1>1, <2>3, <2>5
  <1>6. ASSUME NEW t \in Tabs, NEW rd \in Dests, HandleLogin(t, rd) PROVE OwnLogin'
    <2>1. /\ answer' = answer /\ answer[t] = None /\ code' = code
          /\ \A u \in Tabs \ {t} : tab'[u] = tab[u]
      BY <1>6, LoginOutcome
    <2> QED BY <1>1, <1>3, <1>4, <2>1
  <1>7. ASSUME NEW t \in Tabs, Decline(t) \/ \E u \in Users : Authenticate(t, u)
        PROVE  OwnLogin'
    <2>1. /\ tab[t].at = "provider" /\ tab[t].n \in 1..MaxLogins
          /\ Moves(t, "back") /\ answer' = answer
          /\ UNCHANGED code \/ \E c : code' = [code EXCEPT ![tab[t].n] = c]
      BY <1>7, ProviderOutcome
    <2>2. answer'[t] = None
      BY <2>1 DEF TabInv
    <2>3. ASSUME NEW u \in Tabs \ {t} PROVE Own(u)'
      <3>1. tab'[u] = tab[u] /\ answer'[u] = answer[u]
        BY <2>1 DEF Moves
      <3>2. tab[u].n # tab[t].n
        BY <2>1 DEF TabInv
      <3>3. \A n \in 1..MaxLogins : n # tab[t].n => code'[n].user = code[n].user
        BY <2>1 DEF TypeOK
      <3> QED BY <1>3, <3>1, <3>2, <3>3
    <2> QED BY <1>1, <1>4, <2>2, <2>3
  <1>8. ASSUME NEW t \in Tabs, Receive(t) \/ Lose(t) PROVE OwnLogin'
    <2>1. /\ answer' = [answer EXCEPT ![t] = None] /\ code' = code
          /\ \A u \in Tabs \ {t} : tab'[u] = tab[u]
      BY <1>8, ReceiveOutcome, LoseOutcome DEF Moves
    <2>2. answer'[t] = None /\ \A u \in Tabs \ {t} : answer'[u] = answer[u]
      BY <2>1 DEF TypeOK
    <2> QED BY <1>1, <1>3, <1>4, <2>1, <2>2
  <1>9. CASE Tick \/ UNCHANGED vars
    BY <1>9 DEF Tick, vars, OwnLogin
  <1> QED BY <1>5, <1>6, <1>7, <1>8, <1>9, NextCases

(* While nobody is logged in no request gets a session but a callback.     *)
LEMMA LogoutStep ==
    ASSUME TypeOK, TabInv, CodeInv, AnswerInv, LogoutInv, [Next]_vars
    PROVE  LogoutInv'
  <1>1. SUFFICES ASSUME ~signedIn', 0 \notin crossed'
                 PROVE  /\ jar'.session = None
                        /\ \A u \in Tabs : answer'[u] # None /\ answer'[u].set # None =>
                                              Completed(answer'[u])
    BY DEF LogoutInv, Completed
  <1> DEFINE Out == /\ jar.session = None
                    /\ \A u \in Tabs : answer[u] # None /\ answer[u].set # None =>
                                          Completed(answer[u])
  <1>2. ASSUME ~signedIn, 0 \notin crossed PROVE Out
    BY <1>2 DEF LogoutInv, Completed
  <1>3. ASSUME NEW t \in Tabs, Serves(t) PROVE Out'
    <2>1. /\ answer' = [answer EXCEPT ![t] = answer'[t]]
          /\ ~Completed(answer'[t]) => answer'[t].set = Renewed(jar.session)
          /\ UNCHANGED <<jar, signedIn, crossed>>
      BY <1>3, ServesOutcome
    <2>2. Out
      BY <1>1, <1>2, <2>1
    <2>3. Renewed(jar.session) = None
      BY <2>2 DEF Renewed, Valid
    <2>4. \A u \in Tabs \ {t} : answer'[u] = answer[u]
      BY <2>1 DEF TypeOK
    <2> QED BY <2>1, <2>2, <2>3, <2>4 DEF Completed
  <1>4. ASSUME NEW t \in Tabs, NEW rd \in Dests, HandleLogin(t, rd) PROVE Out'
    <2>1. /\ jar'.session = jar.session \/ jar.session # None
          /\ UNCHANGED <<answer, signedIn>>
      BY <1>4, LoginOutcome
    <2>2. crossed \subseteq crossed'
      BY <1>4 DEF HandleLogin
    <2> QED BY <1>1, <1>2, <2>1, <2>2 DEF Completed
  <1>5. ASSUME NEW t \in Tabs, Receive(t) PROVE Out'
    <2> DEFINE a == answer[t]
    <2>1. /\ a # None /\ answer' = [answer EXCEPT ![t] = None]
          /\ jar'.session = SessionAfter(a)
      BY <1>5, ReceiveOutcome
    <2>2. answer'[t] = None /\ \A u \in Tabs \ {t} : answer'[u] = answer[u]
      BY <2>1 DEF TypeOK
    <2>3. ~Completed(a)
      BY <1>1, <1>5 DEF Receive, Completed
    <2>4. CASE a.to = "logout"
      <3>1. \A u \in Tabs \ {t} : answer[u] = None
        BY <1>1, <1>5, <2>3, <2>4 DEF Receive, Completed
      <3>2. jar'.session = None
        BY <2>1, <2>4 DEF AnswerInv, SessionAfter
      <3> QED BY <2>2, <3>1, <3>2
    <2>5. CASE a.to # "logout"
      <3>1. UNCHANGED <<signedIn, crossed>>
        BY <1>5, <2>3, <2>5 DEF Receive, Completed
      <3>2. Out
        BY <1>1, <1>2, <3>1
      <3>3. jar'.session = None
        BY <2>1, <2>3, <3>2 DEF SessionAfter
      <3> QED BY <2>2, <3>2, <3>3 DEF Completed
    <2> QED BY <2>4, <2>5
  <1>6. ASSUME NEW t \in Tabs, Lose(t) PROVE Out'
    <2>1. answer' = [answer EXCEPT ![t] = None] /\ UNCHANGED <<jar, signedIn, crossed>>
      BY <1>6, LoseOutcome
    <2>2. answer'[t] = None /\ \A u \in Tabs \ {t} : answer'[u] = answer[u]
      BY <2>1 DEF TypeOK
    <2> QED BY <1>1, <1>2, <2>1, <2>2 DEF Completed
  <1>7. ASSUME UNCHANGED <<jar, answer, signedIn, crossed>> PROVE Out'
    BY <1>1, <1>2, <1>7 DEF Completed
  <1>8. ASSUME NEW t \in Tabs, Decline(t) \/ \E u \in Users : Authenticate(t, u)
        PROVE  Out'
    BY <1>7, <1>8, ProviderOutcome
  <1>9. CASE Tick \/ UNCHANGED vars
    BY <1>7, <1>9 DEF Tick, vars
  <1> QED BY <1>3, <1>4, <1>5, <1>6, <1>8, <1>9, NextCases

(* A session that an answer brings was issued at most MaxDelay ago, and a  *)
(* request that brings none was served while the session was recent.       *)
LEMMA RecentStep ==
    ASSUME MaxDelay <= RenewalDelay, TypeOK, TabInv, CodeInv, AnswerInv, RecentInv,
           [Next]_vars
    PROVE  RecentInv'
  <1>1. /\ now \in Nat /\ seen \in Nat /\ MaxDelay \in Nat /\ RenewalDelay \in Nat
        /\ jar.session # None => jar.session.iat \in Nat
        /\ \A u \in Tabs : answer[u] # None => answer[u].at \in Nat
    BY ClockAssumption, SessionAssumption DEF TypeOK, Jar, Session, Answers
  <1>2. \A u \in Tabs : answer[u] # None => answer[u].at <= now
    BY DEF AnswerInv
  <1>3. ASSUME NEW t \in Tabs, Serves(t) PROVE RecentInv'
    <2>1. LET a == answer'[t] IN
          /\ answer' = [answer EXCEPT ![t] = a]
          /\ a.at = now /\ a.authed = Valid(jar.session)
          /\ Completed(a) => a.set # None
          /\ ~Completed(a) => a.set = Renewed(jar.session)
          /\ UNCHANGED <<now, jar, seen, signedIn>>
      BY <1>3, ServesOutcome
    <2>2. ASSUME Valid(jar.session), Renewed(jar.session) = None
          PROVE  now <= jar.session.iat + RenewalDelay
      <3>1. issueSessionCookie(jar.session.user) # None
        BY <1>1, <2>2, NoneAssumption DEF issueSessionCookie, Valid, TypeOK, Jar, Session
      <3>2. ~(now - jar.session.iat > RenewalDelay) /\ jar.session # None
        BY <2>2, <3>1 DEF Renewed, Valid
      <3> QED BY <1>1, <3>2
    <2>3. answer'[t].authed /\ answer'[t].set = None =>
             answer'[t].at <= jar.session.iat + RenewalDelay
      BY <2>1, <2>2
    <2>4. \A u \in Tabs \ {t} : answer'[u] = answer[u]
      BY <2>1 DEF TypeOK
    <2> QED BY <2>1, <2>3, <2>4 DEF RecentInv
  <1>4. ASSUME NEW t \in Tabs, NEW rd \in Dests, HandleLogin(t, rd) PROVE RecentInv'
    <2>1. /\ UNCHANGED <<now, answer, seen, signedIn>>
          /\ \/ jar'.session = jar.session
             \/ jar.session # None /\ jar'.session # None /\ jar'.session.iat = now
      BY <1>4, LoginOutcome
    <2>2. CASE jar'.session = jar.session
      BY <2>1, <2>2 DEF RecentInv
    <2>3. CASE jar'.session # None /\ jar'.session.iat = now
      BY <1>1, <1>2, <2>1, <2>3 DEF RecentInv
    <2> QED BY <2>1, <2>2, <2>3
  <1>5. ASSUME NEW t \in Tabs, Receive(t) PROVE RecentInv'
    <2> DEFINE a == answer[t]
    <2>1. /\ a # None /\ answer' = [answer EXCEPT ![t] = None]
          /\ jar'.session = SessionAfter(a) /\ now' = now
      BY <1>5, ReceiveOutcome
    <2>2. answer'[t] = None /\ \A u \in Tabs \ {t} : answer'[u] = answer[u]
      BY <2>1 DEF TypeOK
    <2>3. /\ a.drop <=> a.to = "logout"
          /\ Completed(a) => a.set # None
          /\ a.set # None => a.set.iat = a.at
          /\ a.at \in Nat /\ a.at <= now /\ now <= a.at + MaxDelay
      BY <1>1, <2>1 DEF AnswerInv, Completed
    <2>4. /\ seen' = seen \/ (seen' = a.at /\ (a.authed \/ Completed(a)))
          /\ signedIn' => ~a.drop /\ (signedIn \/ Completed(a))
      BY <1>5, <2>3 DEF Receive, Completed
    <2>5. seen' <= now /\ seen' \in Nat
      BY <1>1, <2>3, <2>4 DEF RecentInv
    <2>6. CASE a.drop
      BY <2>1, <2>4, <2>5, <2>6 DEF RecentInv, SessionAfter
    <2>7. CASE ~a.drop /\ a.set # None
      <3>1. jar'.session # None /\ jar'.session.iat = a.at
        BY <2>1, <2>3, <2>7 DEF SessionAfter
      <3>2. now <= jar'.session.iat + RenewalDelay
        BY <1>1, <2>3, <3>1
      <3>3. \A u \in Tabs : answer'[u] # None => answer'[u].at \in Nat /\ answer'[u].at <= now
        BY <1>1, <1>2, <2>2
      <3>4. seen' <= jar'.session.iat + RenewalDelay
            /\ \A u \in Tabs : answer'[u] # None => answer'[u].at <= jar'.session.iat + RenewalDelay
        BY <1>1, <2>3, <2>5, <3>1, <3>2, <3>3
      <3> QED BY <2>1, <2>3, <2>5, <3>1, <3>4 DEF RecentInv
    <2>8. CASE ~a.drop /\ a.set = None
      <3>1. jar'.session = jar.session
        BY <2>1, <2>8 DEF SessionAfter
      <3>2. (signedIn' => signedIn) /\ (seen' = seen \/ (seen' = a.at /\ a.authed))
        BY <2>3, <2>4, <2>8
      <3> QED BY <2>1, <2>2, <2>5, <2>8, <3>1, <3>2 DEF RecentInv
    <2> QED BY <2>6, <2>7, <2>8
  <1>6. ASSUME NEW t \in Tabs, Lose(t) PROVE RecentInv'
    <2>1. answer' = [answer EXCEPT ![t] = None] /\ UNCHANGED <<now, jar, seen, signedIn>>
      BY <1>6, LoseOutcome
    <2>2. answer'[t] = None /\ \A u \in Tabs \ {t} : answer'[u] = answer[u]
      BY <2>1 DEF TypeOK
    <2> QED BY <2>1, <2>2 DEF RecentInv
  <1>7. ASSUME NEW t \in Tabs, Decline(t) \/ \E u \in Users : Authenticate(t, u)
        PROVE  RecentInv'
    <2>1. UNCHANGED <<now, jar, answer, seen, signedIn>>
      BY <1>7, ProviderOutcome
    <2> QED BY <2>1 DEF RecentInv
  <1>8. CASE Tick
    <2>1. now' = now + 1 /\ UNCHANGED <<jar, answer, seen, signedIn>>
      BY <1>8 DEF Tick
    <2> QED BY <1>1, <2>1 DEF RecentInv
  <1>9. CASE UNCHANGED vars
    BY <1>9 DEF vars, RecentInv
  <1> QED BY <1>3, <1>4, <1>5, <1>6, <1>7, <1>8, <1>9, NextCases

(* Only a callback that shows the state of the cookies has them cleared,   *)
(* and that is the callback of the login they belong to.                   *)
LEMMA CookieStep ==
    ASSUME Lossy = {}, TypeOK, TabInv, CodeInv, CookieInv, [Next]_vars
    PROVE  CookieInv'
  <1> DEFINE Mine(t) ==
        /\ jar.state = StateParam(t)
        /\ jar.nonce = tab[t].n
        /\ UsePKCE => jar.verifier = tab[t].n
        /\ jar.till = tab[t].begun + CookieMaxAge
        /\ \A u \in Tabs : u # t /\ answer[u] # None => ~answer[u].clear
  <1>1. SUFFICES ASSUME NEW t \in Tabs, tab'[t].n = logins', tab'[t].n \notin crossed',
                        tab'[t].n # 0
                 PROVE  Mine(t)'
    BY DEF CookieInv
  <1>2. ASSUME tab[t].n = tab'[t].n, UNCHANGED logins, tab[t].n \notin crossed PROVE Mine(t)
    BY <1>1, <1>2 DEF CookieInv
  <1>3. ASSUME Mine(t), UNCHANGED jar, tab'[t].n = tab[t].n, tab'[t].rd = tab[t].rd,
               tab'[t].begun = tab[t].begun,
               \A u \in Tabs : u # t /\ answer'[u] # None => ~answer'[u].clear
        PROVE  Mine(t)'
    BY <1>3 DEF StateParam, safeRedirectPath
  <1>4. ASSUME NEW o \in Tabs, NEW at, Moves(o, at)
        PROVE  tab'[t].n = tab[t].n /\ tab'[t].rd = tab[t].rd /\ tab'[t].begun = tab[t].begun
    BY <1>4 DEF Moves
  <1>5. ASSUME NEW o \in Tabs, Serves(o) PROVE Mine(t)'
    <2>1. /\ answer' = [answer EXCEPT ![o] = answer'[o]]
          /\ answer'[o].clear => HandleCallback(o)
          /\ UNCHANGED <<jar, logins, crossed>>
          /\ UNCHANGED tab \/ Moves(o, "waiting")
      BY <1>5, ServesOutcome
    <2>2. tab'[t].n = tab[t].n /\ tab'[t].rd = tab[t].rd /\ tab'[t].begun = tab[t].begun
      BY <1>4, <2>1
    <2>3. Mine(t)
      BY <1>1, <1>2, <2>1, <2>2
    <2>4. HandleCallback(o) => o = t
      <3>1. SUFFICES ASSUME HandleCallback(o) PROVE o = t
        OBVIOUS
      <3>2. StateParam(o) = StateParam(t)
        BY <2>3, <3>1 DEF HandleCallback
      <3>3. tab[o].n = tab[t].n
        BY <3>2 DEF StateParam
      <3> QED BY <1>1, <2>2, <3>3 DEF TabInv
    <2>5. \A u \in Tabs \ {o} : answer'[u] = answer[u]
      BY <2>1 DEF TypeOK
    <2> HIDE DEF Mine
    <2>6. \A u \in Tabs : u # t /\ answer[u] # None => ~answer[u].clear
      BY <2>3 DEF Mine
    <2>7. \A u \in Tabs : u # t /\ answer'[u] # None => ~answer'[u].clear
      BY <2>1, <2>4, <2>5, <2>6
    <2> QED BY <1>3, <2>1, <2>2, <2>3, <2>7
  <1>6. ASSUME NEW o \in Tabs, NEW rd \in Dests, HandleLogin(o, rd) PROVE Mine(t)'
    <2> DEFINE n == logins + 1
    <2>1. /\ logins' = n
          /\ tab'[o] = [at |-> "provider", n |-> n, rd |-> rd, begun |-> now]
          /\ \A u \in Tabs \ {o} : tab'[u] = tab[u]
          /\ n \notin crossed' => \A u \in Tabs : answer[u] = None
          /\ answer' = answer
      BY <1>6, LoginOutcome
    <2>2. /\ jar'.state = CookieValue([n |-> n, rd |-> safeRedirectPath(rd)])
          /\ jar'.nonce = n /\ (UsePKCE => jar'.verifier = n)
          /\ jar'.till = now + CookieMaxAge
      BY <1>6, LoginOutcome
    <2>3. tab[t].n \in 0..logins /\ logins \in Nat
      BY DEF TabInv, TypeOK
    <2>4. t = o
      BY <1>1, <2>1, <2>3
    <2>5. tab'[t].n = n /\ tab'[t].rd = rd /\ tab'[t].begun = now
      BY <2>1, <2>4
    <2>6. jar'.state = [n |-> n, rd |-> safeRedirectPath(rd)]
      BY <2>2 DEF CookieValue
    <2>7. jar'.state = StateParam(t)'
      BY <2>5, <2>6 DEF StateParam, safeRedirectPath
    <2>8. \A u \in Tabs : answer'[u] = None
      BY <1>1, <2>1
    <2> QED BY <2>2, <2>5, <2>7, <2>8
  <1>7. ASSUME NEW o \in Tabs, Decline(o) \/ \E u \in Users : Authenticate(o, u)
        PROVE  Mine(t)'
    <2>1. Moves(o, "back") /\ UNCHANGED <<jar, answer, logins, crossed>>
      BY <1>7, ProviderOutcome
    <2> QED BY <1>1, <1>2, <1>3, <1>4, <2>1
  <1>8. ASSUME NEW o \in Tabs, Receive(o) PROVE Mine(t)'
    <2>1. /\ answer' = [answer EXCEPT ![o] = None] /\ logins' = logins
          /\ ~answer[o].clear => /\ jar'.state = jar.state /\ jar'.nonce = jar.nonce
                                 /\ jar'.verifier = jar.verifier /\ jar'.till = jar.till
          /\ tab'[o].n = 0 /\ answer[o] # None
          /\ \A u \in Tabs \ {o} : tab'[u] = tab[u]
      BY <1>8, ReceiveOutcome
    <2>2. o # t /\ tab'[t] = tab[t]
      BY <1>1, <2>1
    <2>3. crossed \subseteq crossed' \cup {0}
      BY <1>8 DEF Receive
    <2>4. Mine(t)
      BY <1>1, <1>2, <2>1, <2>2, <2>3
    <2>5. \A u \in Tabs : answer'[u] \in {None, answer[u]}
      BY <2>1 DEF TypeOK
    <2> QED BY <2>1, <2>2, <2>4, <2>5 DEF StateParam, safeRedirectPath
  <1>9. ASSUME NEW o \in Tabs, Lose(o) PROVE Mine(t)'
    <2>1. /\ answer' = [answer EXCEPT ![o] = None] /\ UNCHANGED <<jar, logins, crossed>>
          /\ UNCHANGED tab \/ Moves(o, "back")
      BY <1>9, LoseOutcome
    <2>2. tab'[t].n = tab[t].n /\ tab'[t].rd = tab[t].rd /\ tab'[t].begun = tab[t].begun
      BY <1>4, <2>1
    <2>3. \A u \in Tabs : answer'[u] \in {None, answer[u]}
      BY <2>1 DEF TypeOK
    <2> QED BY <1>1, <1>2, <1>3, <2>1, <2>2, <2>3
  <1>10. CASE Tick \/ UNCHANGED vars
    <2>1. UNCHANGED <<jar, tab, answer, logins, crossed>>
      BY <1>10 DEF Tick, vars
    <2> QED BY <1>1, <1>2, <1>3, <2>1
  <1> QED BY <1>5, <1>6, <1>7, <1>8, <1>9, <1>10, NextCases

-----------------------------------------------------------------------------

LEMMA InitTyped == Init => TypeOK
  <1> SUFFICES ASSUME Init PROVE TypeOK
    OBVIOUS
  <1>1. 0 \in 0..MaxTime /\ 0 \in 0..MaxLogins /\ Home \in Dests
    BY ClockAssumption, DestsAssumption
  <1>2. jar \in Jar
    BY <1>1 DEF Init, Jar
  <1>3. tab \in [Tabs -> Tab]
    BY <1>1 DEF Init, OnPage, Tab
  <1>4. code \in [1..MaxLogins -> Code]
    BY <1>1 DEF Init, NoCode, Code
  <1>5. answer \in [Tabs -> Answers \cup {None}]
    BY DEF Init
  <1> QED BY <1>1, <1>2, <1>3, <1>4, <1>5 DEF Init, TypeOK

LEMMA LoginInvariant == Spec => []Inv
  <1>1. Init => Inv
    <2> SUFFICES ASSUME Init PROVE Inv
      OBVIOUS
    <2>1. TypeOK
      BY InitTyped
    <2>2. \A t \in Tabs : /\ answer[t] = None
                          /\ tab[t].at = "page" /\ tab[t].n = 0
      BY DEF Init, OnPage
    <2>3. \A n \in 1..MaxLogins : code[n].at = "none"
      BY DEF Init, NoCode
    <2>4. jar.session = None
      BY DEF Init
    <2> QED BY <2>1, <2>2, <2>3, <2>4 DEF Inv, TabInv, CodeInv, AnswerInv, OwnLogin, LogoutInv
  <1>2. Inv /\ [Next]_vars => Inv'
    BY TypeStep, TabStep, CodeStep, AnswerStep, OwnStep, LogoutStep DEF Inv
  <1> QED BY <1>1, <1>2, PTL DEF Spec

(* Cookies, tabs, codes and answers keep their types; in particular a      *)
(* callback that sets a session has the user of a code that was issued.    *)
THEOREM LoginTypes == Spec => []TypeOK
  <1>1. Inv => TypeOK
    BY DEF Inv
  <1> QED BY <1>1, LoginInvariant, PTL

(* However many tabs share the cookies, a login that completes is the      *)
(* tab's own: its destination, and the user who logged in there.           *)
THEOREM LoginsAreOwn == Spec => []OwnLogin
  <1>1. Inv => OwnLogin
    BY DEF Inv
  <1> QED BY <1>1, LoginInvariant, PTL

(* After a logout that no other answer crossed, the browser has no session *)
(* until the next login completes.                                         *)
THEOREM LogoutsHold == Spec => []LogoutHolds
  <1>1. Inv => LogoutHolds
    BY DEF Inv, LogoutInv, LogoutHolds
  <1> QED BY <1>1, LoginInvariant, PTL

(* Whoever keeps making requests stays logged in, if an answer takes no    *)
(* longer than renewal_delay: a later one could bring back a session that  *)
(* is older than the one in the jar by more than that.                     *)
THEOREM ActiveUsersStay ==
    ASSUME MaxDelay <= RenewalDelay
    PROVE  Spec => []ActiveStays
  <1>1. Init => RecentInv
    <2> SUFFICES ASSUME Init PROVE RecentInv
      OBVIOUS
    <2> QED BY DEF Init, RecentInv
  <1>2. Inv /\ RecentInv /\ [Next]_vars => RecentInv'
    BY RecentStep DEF Inv
  <1>3. Inv /\ RecentInv => ActiveStays
    <2> SUFFICES ASSUME Inv, RecentInv, signedIn, now - seen < TTL - RenewalDelay
                 PROVE  Valid(jar.session)
      BY DEF ActiveStays
    <2>1. jar.session # None /\ seen <= jar.session.iat + RenewalDelay
      BY DEF RecentInv
    <2>2. /\ now \in Nat /\ seen \in Nat /\ TTL \in Nat /\ RenewalDelay \in Nat
          /\ jar.session.iat \in Nat
      BY <2>1, SessionAssumption, ClockAssumption DEF Inv, TypeOK, Jar, Session
    <2> QED BY <2>1, <2>2 DEF Valid
  <1> QED BY <1>1, <1>2, <1>3, LoginInvariant, PTL DEF Spec

(* The login begun last completes when its user comes back in time,        *)
(* whatever older logins do, if no destination loses bytes in a cookie.    *)
THEOREM LastLoginsComplete ==
    ASSUME Lossy = {}
    PROVE  Spec => LastLoginCompletes
  <1> DEFINE Ends == \A t \in Tabs :
                        tab[t].at = "back" /\ tab'[t].at = "waiting" /\ Completes(t) =>
                            answer'[t].ok
  <1>1. Init => CookieInv
    BY DEF Init, CookieInv, OnPage
  <1>2. Inv /\ CookieInv /\ [Next]_vars => CookieInv'
    BY CookieStep DEF Inv
  <1>3. Inv /\ CookieInv /\ [Next]_vars => [Ends]_vars
    <2> SUFFICES ASSUME Inv, CookieInv, [Next]_vars, NEW t \in Tabs,
                        tab[t].at = "back", tab'[t].at = "waiting", Completes(t)
                 PROVE  answer'[t].ok
      OBVIOUS
    <2> DEFINE n == tab[t].n
    <2> USE DEF Inv
    <2>1. n \in 1..MaxLogins
      BY ClockAssumption DEF TabInv, TypeOK
    <2>2. /\ jar.state = StateParam(t) /\ jar.nonce = n
          /\ UsePKCE => jar.verifier = n
          /\ jar.till = tab[t].begun + CookieMaxAge
      BY <2>1 DEF Completes, CookieInv
    <2>3. Flow
      <3>1. now < jar.till
        BY <2>2 DEF Completes
      <3>2. tab[t] \in Tab
        BY DEF TypeOK
      <3>3. StateParam(t) \in State
        BY <2>1, <3>2, Redirect DEF StateParam, State, Tab
      <3> QED BY <2>2, <3>1, <3>3, NoneAssumption DEF Flow
    <2>4. Exchanged(n)
      BY <2>1, <2>2 DEF Completes, CodeInv, Exchanged
    <2>5. Serves(t)
      <3>1. ASSUME NEW o \in Tabs, Serves(o) PROVE o = t
        BY ZenonT(40), <3>1, ServesOutcome DEF Moves
      <3>2. ASSUME NEW o \in Tabs, NEW rd \in Dests, HandleLogin(o, rd) PROVE FALSE
        <4>1. /\ tab[o].at \in {"page", "error"}
              /\ \A u \in Tabs \ {o} : tab'[u] = tab[u]
          BY <3>2, LoginOutcome
        <4> QED BY <4>1
      <3>3. ASSUME NEW o \in Tabs, Decline(o) \/ \E u \in Users : Authenticate(o, u)
            PROVE  FALSE
        BY <3>3, ProviderOutcome DEF Moves
      <3>4. ASSUME NEW o \in Tabs, Receive(o) PROVE FALSE
        <4>1. /\ tab'[o].at \in {"page", "error"}
              /\ \A u \in Tabs \ {o} : tab'[u] = tab[u]
          BY <3>4, ReceiveOutcome
        <4> QED BY <4>1
      <3>5. ASSUME NEW o \in Tabs, Lose(o) PROVE FALSE
        BY <3>5, LoseOutcome DEF Moves
      <3>6. ~Tick /\ ~UNCHANGED vars
        BY DEF Tick, vars
      <3> QED BY <3>1, <3>2, <3>3, <3>4, <3>5, <3>6, NextCases
    <2>6. HandleCallback(t)
      BY <2>2, <2>3, <2>5 DEF Serves, Visit, HandleLogout, InvalidState
    <2>7. answer' = [answer EXCEPT ![t] =
                       [to |-> "callback", ok |-> Exchanged(n) /\ n = jar.nonce,
                        dest |-> IF Exchanged(n) /\ n = jar.nonce
                                   THEN safeRedirectPath(jar.state.rd) ELSE Home,
                        clear |-> TRUE,
                        set |-> IF Exchanged(n) /\ n = jar.nonce
                                  THEN issueSessionCookie(code[n].user)
                                  ELSE Renewed(jar.session),
                        drop |-> FALSE, authed |-> Valid(jar.session), at |-> now]]
      BY <2>6 DEF HandleCallback, Answer
    <2>8. answer'[t].ok = (Exchanged(n) /\ n = jar.nonce)
      BY <2>7 DEF TypeOK
    <2> QED BY <2>2, <2>4, <2>8
  <1>4. LastLoginCompletes <=> [][Ends]_vars
    BY DEF LastLoginCompletes
  <1> QED BY <1>1, <1>2, <1>3, <1>4, LoginInvariant, PTL DEF Spec
=============================================================================
