------------------------------- MODULE Login --------------------------------
(***************************************************************************)
(* Logging in with OpenID Connect (package auth: oidc.go, jwt.go). The     *)
(* server keeps nothing between two requests: a login under way and a      *)
(* session live in the cookies of one browser, which all its tabs share.   *)
(*                                                                         *)
(* A request takes the cookies of the moment it is sent, and its answer    *)
(* sets cookies when it arrives: answers of two tabs may cross. Sending a  *)
(* request and serving it is one step, receiving the answer another.       *)
(***************************************************************************)
EXTENDS Naturals

CONSTANTS
    Tabs,
    Users,          \* who the user can be at the identity provider
    Dests,          \* what ?rd= asks for
    Unsafe,         \* the ones that safeRedirectPath turns down
    Lossy,          \* the ones with bytes that a cookie loses, such as ";"
    Home,           \* "/"
    UsePKCE,
    TTL, RenewalDelay,  \* of SessionConfig
    CookieMaxAge,   \* oidcCookieMaxAge
    MaxDelay,       \* an answer that takes longer is lost
    MaxLogins, MaxTime,  \* bounds of the model
    None

ASSUME DestsAssumption   == Unsafe \cup Lossy \subseteq Dests /\ Home \in Dests \ (Unsafe \cup Lossy)
ASSUME PKCEAssumption    == UsePKCE \in BOOLEAN
(* validate: renewal_delay is not negative and less than ttl.              *)
ASSUME SessionAssumption == TTL \in Nat /\ RenewalDelay \in Nat /\ RenewalDelay < TTL
ASSUME ClockAssumption   == {CookieMaxAge, MaxDelay, MaxLogins, MaxTime} \subseteq Nat

VARIABLES
    now,
    jar,      \* the cookies: state, nonce and verifier of a login, the session
    tab,      \* tab[t]: where t is, and the login it made last
    code,     \* external: code[n], the provider's code for login n
    answer,   \* answer[t]: the answer on its way to t, or None
    logins,   \* how many logins were begun; numbers their random values
    seen,     \* history: when the last request was served whose answer,
              \* for someone logged in, has arrived
    signedIn, \* history: a login has completed since the last logout
    crossed   \* history: login n or a logout met an answer under way

vars == <<now, jar, tab, code, answer, logins, seen, signedIn, crossed>>

(* A state parameter: the random part and the destination.                 *)
State   == [n : 1..MaxLogins, rd : Dests \cup {"stripped"}]
Session == [user : Users, iat : 0..MaxTime]
Jar     == [state : State \cup {None}, nonce : 0..MaxLogins, verifier : 0..MaxLogins,
            till : Nat, session : Session \cup {None}]
Tab     == [at : {"page", "provider", "back", "waiting", "error"}, n : 0..MaxLogins,
            rd : Dests, begun : 0..MaxTime]
Code    == [at : {"none", "issued", "spent"}, user : Users \cup {None},
            challenge : 0..MaxLogins]
Answers == [to : {"callback", "page", "logout"}, ok : BOOLEAN, dest : Dests,
            clear : BOOLEAN, set : Session \cup {None}, drop : BOOLEAN, authed : BOOLEAN,
            at : 0..MaxTime]

ASSUME NoneAssumption == None \notin Users \cup State \cup Session \cup Answers

TypeOK ==
    /\ now \in 0..MaxTime
    /\ jar \in Jar
    /\ tab \in [Tabs -> Tab]
    /\ code \in [1..MaxLogins -> Code]
    /\ answer \in [Tabs -> Answers \cup {None}]
    /\ logins \in 0..MaxLogins
    /\ seen \in 0..MaxTime /\ signedIn \in BOOLEAN
    /\ crossed \subseteq 0..MaxLogins

OnPage == [at |-> "page", n |-> 0, rd |-> Home, begun |-> 0]
NoCode == [at |-> "none", user |-> None, challenge |-> 0]

Init ==
    /\ now = 0
    /\ jar = [state |-> None, nonce |-> 0, verifier |-> 0, till |-> 0, session |-> None]
    /\ tab = [t \in Tabs |-> OnPage]
    /\ code = [n \in 1..MaxLogins |-> NoCode]
    /\ answer = [t \in Tabs |-> None]
    /\ logins = 0
    /\ seen = 0 /\ signedIn = FALSE /\ crossed = {}

-----------------------------------------------------------------------------
(* Sessions.                                                               *)

(* parseSessionCookie: the token is valid before its expiry, when the      *)
(* browser drops the cookie too.                                           *)
Valid(s) == s # None /\ now < s.iat + TTL

issueSessionCookie(u) == [user |-> u, iat |-> now]

(* Mutant: the token is renewed one unit of time too late.                 *)
RenewedLate(s) ==
    IF Valid(s) /\ now - s.iat > RenewalDelay + 1 THEN issueSessionCookie(s.user) ELSE None

(* OIDCMiddleware, on every request: the cookie it adds to the answer.     *)
Renewed(s) ==
    IF Valid(s) /\ now - s.iat > RenewalDelay THEN issueSessionCookie(s.user) ELSE None

(* The answer to t: set, drop and clear are what it does to the cookies,   *)
(* in the order in which the handlers add the headers.                     *)
Answer(t, to, ok, dest, clear, set, drop) ==
    answer' = [answer EXCEPT ![t] =
                 [to |-> to, ok |-> ok, dest |-> dest, clear |-> clear, set |-> set,
                  drop |-> drop, authed |-> Valid(jar.session), at |-> now]]

(* A request to any other route, by someone logged in or not.              *)
Visit(t) ==
    /\ tab[t].at \in {"page", "error"} /\ answer[t] = None
    /\ Answer(t, "page", TRUE, Home, FALSE, Renewed(jar.session), FALSE)
    /\ UNCHANGED <<now, jar, tab, code, logins, seen, signedIn, crossed>>

(* clearSessionCookie goes last, after a renewal.                          *)
HandleLogout(t) ==
    /\ tab[t].at \in {"page", "error"} /\ answer[t] = None
    /\ Answer(t, "logout", TRUE, Home, FALSE, Renewed(jar.session), TRUE)
    /\ UNCHANGED <<now, jar, tab, code, logins, seen, signedIn, crossed>>

-----------------------------------------------------------------------------
(* Logging in.                                                             *)

safeRedirectPath(rd) == IF rd \in Unsafe THEN Home ELSE rd

(* What a cookie keeps of a value: bytes it must not have are dropped.     *)
CookieValue(state) ==
    IF state.rd \in Lossy THEN [state EXCEPT !.rd = "stripped"] ELSE state

(* The answer sets the three cookies and sends the tab to the provider,    *)
(* with the state, the nonce and the challenge. What it does to the        *)
(* cookies counts from when it arrives, and so the login begins then.      *)
HandleLogin(t, rd) ==
    LET n == logins + 1 IN
    /\ tab[t].at \in {"page", "error"} /\ answer[t] = None
    /\ n <= MaxLogins
    /\ logins' = n
    /\ tab' = [tab EXCEPT ![t] = [at |-> "provider", n |-> n, rd |-> rd, begun |-> now]]
    /\ jar' = [jar EXCEPT !.state = CookieValue([n |-> n, rd |-> safeRedirectPath(rd)]),
                          !.nonce = n,
                          !.verifier = IF UsePKCE THEN n ELSE @,
                          !.till = now + CookieMaxAge,
                          !.session = IF Renewed(@) # None THEN Renewed(@) ELSE @]
    /\ crossed' = IF \E o \in Tabs : answer[o] # None THEN crossed \cup {n} ELSE crossed
    /\ UNCHANGED <<now, code, answer, seen, signedIn>>

(* External: the provider asks who the user is and sends the tab back with *)
(* a code ...                                                              *)
Authenticate(t, u) ==
    LET n == tab[t].n IN
    /\ tab[t].at = "provider"
    /\ tab' = [tab EXCEPT ![t].at = "back"]
    /\ code' = [code EXCEPT ![n] = [at |-> "issued", user |-> u,
                                    challenge |-> IF UsePKCE THEN n ELSE 0]]
    /\ UNCHANGED <<now, jar, answer, logins, seen, signedIn, crossed>>

(* ... or without one, or with one whose claims are turned down later: no  *)
(* email, or one that is not verified.                                     *)
Decline(t) ==
    /\ tab[t].at = "provider"
    /\ tab' = [tab EXCEPT ![t].at = "back"]
    /\ UNCHANGED <<now, jar, code, answer, logins, seen, signedIn, crossed>>

(* What the state parameter of t's callback says, and the cookies that are *)
(* still there.                                                            *)
StateParam(t) == [n |-> tab[t].n, rd |-> safeRedirectPath(tab[t].rd)]
Flow == now < jar.till /\ jar.state # None

(* External: the provider exchanges a code once, for whoever has the       *)
(* verifier of its challenge.                                              *)
Exchanged(n) ==
    /\ code[n].at = "issued"
    /\ UsePKCE => jar.verifier = code[n].challenge

(* Mutant: the cookies are cleared before the state is compared.           *)
InvalidStateClears(t) ==
    /\ tab[t].at = "back"
    /\ ~(Flow /\ jar.state = StateParam(t))
    /\ tab' = [tab EXCEPT ![t].at = "waiting"]
    /\ Answer(t, "callback", FALSE, Home, TRUE, Renewed(jar.session), FALSE)
    /\ UNCHANGED <<now, jar, code, logins, seen, signedIn, crossed>>

(* HandleCallback, of a state that is not the cookie's: 400 at once.       *)
InvalidState(t) ==
    /\ tab[t].at = "back"
    /\ ~(Flow /\ jar.state = StateParam(t))
    /\ tab' = [tab EXCEPT ![t].at = "waiting"]
    /\ Answer(t, "callback", FALSE, Home, FALSE, Renewed(jar.session), FALSE)
    /\ UNCHANGED <<now, jar, code, logins, seen, signedIn, crossed>>

(* Mutant: the outcome of the exchange is not looked at.                   *)
HandleCallbackTrusting(t) ==
    LET n == tab[t].n IN
    /\ tab[t].at = "back"
    /\ Flow /\ jar.state = StateParam(t)
    /\ code' = [code EXCEPT ![n].at = IF Exchanged(n) THEN "spent" ELSE @]
    /\ tab' = [tab EXCEPT ![t].at = "waiting"]
    /\ Answer(t, "callback", TRUE, safeRedirectPath(jar.state.rd), TRUE,
              issueSessionCookie(code[n].user), FALSE)
    /\ UNCHANGED <<now, jar, logins, seen, signedIn, crossed>>

(* Mutant: whoever is logged in already stays it.                          *)
HandleCallbackKeepsUser(t) ==
    LET n  == tab[t].n
        ok == Exchanged(n) /\ n = jar.nonce
        u  == IF Valid(jar.session) THEN jar.session.user ELSE code[n].user
    IN
    /\ tab[t].at = "back"
    /\ Flow /\ jar.state = StateParam(t)
    /\ code' = [code EXCEPT ![n].at = IF Exchanged(n) THEN "spent" ELSE @]
    /\ tab' = [tab EXCEPT ![t].at = "waiting"]
    /\ Answer(t, "callback", ok, IF ok THEN safeRedirectPath(jar.state.rd) ELSE Home, TRUE,
              IF ok THEN issueSessionCookie(u) ELSE Renewed(jar.session), FALSE)
    /\ UNCHANGED <<now, jar, logins, seen, signedIn, crossed>>

(* HandleCallback: the code is exchanged, then the nonce is checked. (It   *)
(* also records the user, Upsert of module Handlers; if that fails the     *)
(* login goes on.)                                                         *)
HandleCallback(t) ==
    LET n  == tab[t].n
        ok == Exchanged(n) /\ n = jar.nonce
    IN
    /\ tab[t].at = "back"
    /\ Flow /\ jar.state = StateParam(t)
    /\ code' = [code EXCEPT ![n].at = IF Exchanged(n) THEN "spent" ELSE @]
    /\ tab' = [tab EXCEPT ![t].at = "waiting"]
    /\ Answer(t, "callback", ok, IF ok THEN safeRedirectPath(jar.state.rd) ELSE Home, TRUE,
              IF ok THEN issueSessionCookie(code[n].user) ELSE Renewed(jar.session), FALSE)
    /\ UNCHANGED <<now, jar, logins, seen, signedIn, crossed>>

-----------------------------------------------------------------------------
(* The browser. *)

(* Mutant: the header that clears the session is before a renewal's.       *)
SessionAfterSwapped(a) ==
    IF a.set # None THEN a.set ELSE IF a.drop THEN None ELSE jar.session

(* The session cookie once the headers of a are applied in their order.    *)
SessionAfter(a) ==
    IF a.drop THEN None ELSE IF a.set # None THEN a.set ELSE jar.session

Receive(t) ==
    LET a == answer[t] IN
    /\ a # None
    /\ answer' = [answer EXCEPT ![t] = None]
    /\ jar' = IF a.clear
                THEN [jar EXCEPT !.state = None, !.nonce = 0, !.verifier = 0,
                                 !.session = SessionAfter(a)]
                ELSE [jar EXCEPT !.session = SessionAfter(a)]
    /\ tab' = [tab EXCEPT ![t] = IF a.ok THEN OnPage ELSE [OnPage EXCEPT !.at = "error"]]
    /\ seen' = IF (a.authed \/ (a.to = "callback" /\ a.ok)) /\ a.at > seen THEN a.at ELSE seen
    /\ signedIn' = CASE a.to = "callback" /\ a.ok -> TRUE
                     [] a.to = "logout"           -> FALSE
                     [] OTHER                     -> signedIn
    /\ crossed' = CASE a.to = "callback" /\ a.ok -> crossed \ {0}
                    [] a.to = "logout"           ->
                         IF \E o \in Tabs \ {t} : answer[o] # None THEN crossed \cup {0}
                         ELSE crossed \ {0}
                    [] OTHER                     -> crossed
    /\ UNCHANGED <<now, code, logins>>

(* The connection breaks; the user reloads a callback.                     *)
Lose(t) ==
    /\ answer[t] # None
    /\ answer' = [answer EXCEPT ![t] = None]
    /\ tab' = [tab EXCEPT ![t].at = IF @ = "waiting" THEN "back" ELSE @]
    /\ UNCHANGED <<now, jar, code, logins, seen, signedIn, crossed>>

Tick ==
    /\ now < MaxTime
    /\ \A t \in Tabs : answer[t] # None => now - answer[t].at < MaxDelay
    /\ now' = now + 1
    /\ UNCHANGED <<jar, tab, code, answer, logins, seen, signedIn, crossed>>

Next ==
    \/ \E t \in Tabs :
          \/ Visit(t) \/ HandleLogout(t) \/ Decline(t)
          \/ \E rd \in Dests : HandleLogin(t, rd)
          \/ \E u \in Users : Authenticate(t, u)
          \/ InvalidState(t) \/ HandleCallback(t)
          \/ Receive(t) \/ Lose(t)
    \/ Tick

Spec == Init /\ [][Next]_vars

-----------------------------------------------------------------------------

(* A login that completes ends in its own tab's destination and in a       *)
(* session of the user who logged in there, whatever other tabs do with    *)
(* the cookies. (State, nonce and verifier in HandleCallback.)             *)
OwnLogin ==
    \A t \in Tabs :
        LET a == answer[t] IN
        a # None /\ a.to = "callback" /\ a.ok =>
            /\ a.dest = safeRedirectPath(tab[t].rd)
            /\ a.set.user = code[tab[t].n].user

(* The login begun last completes when its user comes back in time: those  *)
(* that it replaced do not take its cookies away. (InvalidState keeps the  *)
(* cookies; "so it survives the round-trip to the OIDC provider".) Left    *)
(* out are logins begun while an answer was under way.                     *)
Completes(t) ==
    LET n == tab[t].n IN
    /\ n = logins /\ n \notin crossed
    /\ code[n].at = "issued"
    /\ now < tab[t].begun + CookieMaxAge

LastLoginCompletes ==
    [][\A t \in Tabs :
          tab[t].at = "back" /\ tab'[t].at = "waiting" /\ Completes(t) => answer'[t].ok]_vars

(* After a logout nobody is logged in until the next login, unless an      *)
(* answer was on its way to another tab at that moment.                    *)
(* (HandleLogout: "clears the session cookie", after a renewal.)           *)
LogoutHolds == ~signedIn /\ 0 \notin crossed => jar.session = None

(* Whoever keeps making requests stays logged in: the session outlives any *)
(* pause shorter than ttl less renewal_delay. (SessionConfig: "keeping     *)
(* active users logged in indefinitely".)                                  *)
ActiveStays == signedIn /\ now - seen < TTL - RenewalDelay => Valid(jar.session)
=============================================================================
