---------------------------- MODULE AccessProofs ----------------------------
(***************************************************************************)
(* Proofs about Access, for any configuration files, ways through proxies, *)
(* headers, hosts and number of redirects.                                 *)
(*                                                                         *)
(* What the server concludes from a request depends on who connected, and  *)
(* PreserveRemoteAddr has kept that before TrustedRealIP replaces it. What *)
(* a handler may rely on is what the stages before it have left behind:    *)
(* the invariant says, for each place of a request, what that is.          *)
(***************************************************************************)
EXTENDS Access, WellFoundedInduction, TLAPS

(* What validate guarantees of the configuration of a process.             *)
Sound(c) ==
    /\ \A n \in c.trustedProxy : n # {} /\ n \subseteq Addrs
    /\ c.tailscale \/ c.proxyAuth => c.trustedProxy # {}
    /\ c.oidc => c.jwtSecret \notin Short
    /\ c.canonical # None => [scheme |-> c.canonical.scheme, host |-> c.canonical.host] \in URLs
    /\ c.schemes \subseteq [name : STRING, upper : {FALSE}, padded : {FALSE}]
    /\ \A s \in c.schemes : s.name \notin dangerousSchemes
    /\ c.anonymousAdmin \in BOOLEAN

ConfigInv ==
    /\ cfg = None => req = Idle
    /\ cfg # None => Sound(cfg)

(* Who connected. *)
PeerInv ==
    /\ req.at = "PreserveRemoteAddr" => req.orig = None
    /\ req.at \in {"PreserveRemoteAddr", "TrustedRealIP"} => req.remote = Last(req.path)
    /\ req.at \notin {"idle", "PreserveRemoteAddr"} => req.orig = Last(req.path)

(* Whom the request is charged to once TrustedRealIP is done.              *)
LastUntrusted(path) == SelectLastInSeq(path, LAMBDA a : ~IPInRanges(a))

ChargedInv ==
    req.at \notin {"idle", "PreserveRemoteAddr", "TrustedRealIP"}
    /\ LastUntrusted(req.path) # 0 => req.remote = req.path[LastUntrusted(req.path)]

(* Browsers ask first, and only extensions are told yes.                   *)
BrowserInv ==
    /\ ~req.preflight /\ Preflighted(req) => req.origin = Extension
    /\ req.preflight /\ req.origin = Extension =>
         \/ req.at \in {"PreserveRemoteAddr", "TrustedRealIP", "cors"}
         \/ req.at = "answered" /\ req.answer = "204"
    /\ req.hops > 0 => cfg.canonical # None /\ req.url = Browsed(Canonical)

(* What an answer says. *)
AnswerInv ==
    /\ req.at # "answered" => req.answer = ""
    /\ req.answer = "204" => req.origin = Extension
    /\ req.answer = "301" => cfg.canonical # None
    /\ req.answer = "no header" => ~req.header
    /\ req.answer = "bad origin" => req.origin # Extension

(* What the checks of a route leave behind.                                *)
RouteInv ==
    /\ req.at \in {"admin", "limit", "auth", "mutation", "origin", "handler"} =>
         ~req.preflight /\ req.route \in Routes /\ req.route.method = req.method
    /\ req.at = "limit" => req.route.group = "view"
    /\ req.at = "auth" => req.route.group \in {"view", "auth"}
    /\ req.at = "mutation" => req.id # None
    /\ req.at \in {"origin", "handler"} /\ req.method # "GET" => req.id # None /\ req.header

Inv == /\ TypeOK /\ ConfigInv /\ PeerInv /\ ChargedInv /\ BrowserInv /\ AnswerInv /\ RouteInv
       /\ IdentityVouched /\ RedirectedOnce /\ SourceIsSafe

-----------------------------------------------------------------------------
(* The operators that the model is built from.                             *)

(* The middleware in its order.                                            *)
LEMMA ChainOrder ==
    /\ Len(Chain) = 9
    /\ Chain[1] = "PreserveRemoteAddr" /\ Chain[2] = "TrustedRealIP" /\ Chain[3] = "cors"
    /\ Chain[4] = "DomainRedirect" /\ Chain[5] = "tailscale" /\ Chain[6] = "proxyAuth"
    /\ Chain[7] = "oidc" /\ Chain[8] = "anonymous" /\ Chain[9] = "route"
  BY DEF Chain

LEMMA AfterIs ==
    ASSUME NEW k \in 2..9
    PROVE  After(Chain[k - 1]) = Chain[k]
  <1>1. \A i \in 2..9 : Chain[i - 1] = Chain[k - 1] => i = k
    <2>1. \A i, j \in 1..8 : Chain[i] = Chain[j] => i = j
      BY ChainOrder
    <2> QED BY <2>1
  <1>2. \A i \in 2..9 : Chain[i - 1] = Chain[k - 1] <=> i = k
    BY <1>1
  <1>3. (CHOOSE i \in 2..Len(Chain) : Chain[i - 1] = Chain[k - 1]) = k
    BY <1>2, ChainOrder
  <1> QED BY <1>3 DEF After

LEMMA AfterStages ==
    /\ After("PreserveRemoteAddr") = "TrustedRealIP"
    /\ After("TrustedRealIP") = "cors"
    /\ After("cors") = "DomainRedirect"
    /\ After("DomainRedirect") = "tailscale"
    /\ After("tailscale") = "proxyAuth"
    /\ After("proxyAuth") = "oidc"
    /\ After("oidc") = "anonymous"
    /\ After("anonymous") = "route"
  <1>1. /\ 2 \in 2..9 /\ 3 \in 2..9 /\ 4 \in 2..9 /\ 5 \in 2..9 /\ 6 \in 2..9
        /\ 7 \in 2..9 /\ 8 \in 2..9 /\ 9 \in 2..9
        /\ 2 - 1 = 1 /\ 3 - 1 = 2 /\ 4 - 1 = 3 /\ 5 - 1 = 4 /\ 6 - 1 = 5 /\ 7 - 1 = 6
        /\ 8 - 1 = 7 /\ 9 - 1 = 8
    OBVIOUS
  <1>2. /\ After(Chain[2 - 1]) = Chain[2] /\ After(Chain[3 - 1]) = Chain[3]
        /\ After(Chain[4 - 1]) = Chain[4] /\ After(Chain[5 - 1]) = Chain[5]
        /\ After(Chain[6 - 1]) = Chain[6] /\ After(Chain[7 - 1]) = Chain[7]
        /\ After(Chain[8 - 1]) = Chain[8] /\ After(Chain[9 - 1]) = Chain[9]
    BY <1>1, AfterIs
  <1> QED BY <1>1, <1>2, ChainOrder

Stages == {"PreserveRemoteAddr", "TrustedRealIP", "cors", "DomainRedirect", "tailscale",
           "proxyAuth", "oidc", "anonymous", "route", "idle", "admin", "limit", "auth",
           "mutation", "origin", "handler", "answered"}

LEMMA StagesAre ==
    ToSet(Chain) \cup {"idle", "admin", "limit", "auth", "mutation", "origin", "handler",
                       "answered"} = Stages
  <1>1. ToSet(Chain) = {"PreserveRemoteAddr", "TrustedRealIP", "cors", "DomainRedirect",
                        "tailscale", "proxyAuth", "oidc", "anonymous", "route"}
    <2>1. ToSet(Chain) = {Chain[i] : i \in 1..9}
      BY ChainOrder DEF ToSet, Chain
    <2>2. \A i \in 1..9 : i = 1 \/ i = 2 \/ i = 3 \/ i = 4 \/ i = 5 \/ i = 6 \/ i = 7
                          \/ i = 8 \/ i = 9
      OBVIOUS
    <2> QED BY <2>1, <2>2, ChainOrder
  <1> QED BY <1>1 DEF Stages

(* The last element of a sequence that passes a test is the one after      *)
(* which none does.                                                        *)
LEMMA GreatestIndex ==
    ASSUME NEW I, NEW n \in Nat, I \subseteq 1..n, I # {}
    PROVE  Max(I) \in I /\ \A i \in I : i <= Max(I)
  <1> DEFINE R == OpToRel(<, Nat)
             T == {n - i : i \in I}
  <1>1. IsWellFoundedOn(R, Nat)
    BY NatLessThanWellFounded
  <1>2. \A i, j \in Nat : <<i, j>> \in R <=> i < j
    BY DEF OpToRel
  <1> HIDE DEF R
  <1>3. T \subseteq Nat /\ T # {}
    <2>1. \A i \in I : i \in 1..n /\ n - i \in Nat
      OBVIOUS
    <2> QED BY <2>1
  <1>4. PICK x \in T : \A y \in T : ~(<<y, x>> \in R)
    <2> HIDE DEF T
    <2> QED BY <1>1, <1>3, WFMin
  <1>5. \A y \in T : ~(y < x)
    BY <1>2, <1>3, <1>4
  <1>6. PICK m \in I : x = n - m
    BY <1>4
  <1>7. \A i \in I : m >= i
    <2>1. SUFFICES ASSUME NEW i \in I PROVE m >= i
      OBVIOUS
    <2>2. ~(n - i < n - m)
      BY <1>5, <1>6
    <2>3. i \in Nat /\ m \in Nat
      BY <1>6
    <2> QED BY <2>2, <2>3
  <1>8. Max(I) \in I /\ \A i \in I : Max(I) >= i
    BY <1>7 DEF Max
  <1>9. \A i \in I : i \in Nat
    OBVIOUS
  <1> QED BY <1>8, <1>9

(* Connections and paths. *)
LEMMA PathFacts ==
    ASSUME NEW p \in Paths
    PROVE  /\ p \in Seq(Addrs) /\ Len(p) \in Nat \ {0}
           /\ Last(p) = p[Len(p)] /\ Last(p) \in Addrs /\ Last(p) # None
           /\ \A i \in 1..Len(p) : p[i] \in Addrs /\ p[i] # None /\ p[i] # "malformed"
  <1>1. p \in Seq(Addrs) /\ p # << >>
    BY PathsAssumption
  <1>2. Len(p) \in Nat \ {0}
    BY <1>1
  <1>3. \A i \in 1..Len(p) : p[i] \in Addrs
    BY <1>1
  <1> QED BY <1>1, <1>2, <1>3, PathsAssumption DEF Last

LEMMA LastUntrustedIs ==
    ASSUME NEW p \in Paths, LastUntrusted(p) # 0
    PROVE  /\ LastUntrusted(p) \in 1..Len(p)
           /\ ~IPInRanges(p[LastUntrusted(p)])
           /\ \A i \in 1..Len(p) : ~IPInRanges(p[i]) => i <= LastUntrusted(p)
  <1> DEFINE I == {i \in 1..Len(p) : ~IPInRanges(p[i])}
  <1>1. LastUntrusted(p) = IF I # {} THEN Max(I) ELSE 0
    BY DEF LastUntrusted, SelectLastInSeq
  <1>2. I # {} /\ LastUntrusted(p) = Max(I)
    BY <1>1
  <1>3. Len(p) \in Nat /\ I \subseteq 1..Len(p)
    BY PathFacts
  <1> HIDE DEF I
  <1>4. Max(I) \in I /\ \A i \in I : i <= Max(I)
    BY <1>2, <1>3, GreatestIndex
  <1> QED BY <1>2, <1>4 DEF I

LEMMA FrontIs ==
    ASSUME NEW p \in Paths
    PROVE  /\ Front(p) \in Seq(Addrs) /\ Len(Front(p)) = Len(p) - 1
           /\ \A i \in 1..(Len(p) - 1) : Front(p)[i] = p[i]
  <1>1. p \in Seq(Addrs) /\ Len(p) \in Nat \ {0}
    BY PathFacts
  <1> DEFINE m == Len(p) - 1
  <1>2. m \in 0..Len(p) /\ m \in Nat
    BY <1>1
  <1> HIDE DEF m
  <1>3. SubSeq(p, 1, m) \in Seq(Addrs)
    BY <1>1, <1>2
  <1>4. Len(SubSeq(p, 1, m)) = m
    BY <1>1, <1>2
  <1>5. \A i \in 1..m : SubSeq(p, 1, m)[i] = p[i]
    BY <1>1, <1>2
  <1> QED BY <1>3, <1>4, <1>5 DEF Front, m

LEMMA ConcatIs ==
    ASSUME NEW S, NEW s \in Seq(S), NEW t \in Seq(S)
    PROVE  /\ s \o t \in Seq(S) /\ Len(s \o t) = Len(s) + Len(t)
           /\ \A i \in 1..Len(t) : (s \o t)[Len(s) + i] = t[i]
  OBVIOUS

(* What extractForwardedIP looks for is there, or other is taken.          *)
LEMMA ForwardedIs ==
    ASSUME NEW x \in Seq(Addrs), NEW other
    PROVE  \/ \E m \in 1..Len(x) :
                 /\ x[m] # "malformed" /\ ~IPInRanges(x[m])
                 /\ \A i \in 1..Len(x) : x[i] # "malformed" /\ ~IPInRanges(x[i]) => i <= m
                 /\ extractForwardedIP(x, other) = x[m]
           \/ /\ \A i \in 1..Len(x) : x[i] = "malformed" \/ IPInRanges(x[i])
              /\ extractForwardedIP(x, other) = other
  <1> DEFINE I == {i \in 1..Len(x) : x[i] # "malformed" /\ ~IPInRanges(x[i])}
             j == SelectLastInSeq(x, LAMBDA a : a # "malformed" /\ ~IPInRanges(a))
  <1>1. j = IF I # {} THEN Max(I) ELSE 0
    BY DEF SelectLastInSeq
  <1>2. extractForwardedIP(x, other) = IF j # 0 THEN x[j] ELSE other
    BY DEF extractForwardedIP
  <1>3. I \subseteq 1..Len(x) /\ Len(x) \in Nat
    OBVIOUS
  <1> HIDE DEF I, j
  <1>4. CASE I # {}
    <2>1. Max(I) \in I /\ \A i \in I : i <= Max(I)
      BY <1>3, <1>4, GreatestIndex
    <2>2. Max(I) \in 1..Len(x) /\ j = Max(I)
      BY <1>1, <1>3, <1>4, <2>1
    <2>3. Max(I) # 0
      BY <1>3, <2>2
    <2>4. extractForwardedIP(x, other) = x[Max(I)]
      BY <1>2, <2>2, <2>3
    <2> QED BY <2>1, <2>2, <2>4 DEF I
  <1>5. CASE I = {}
    <2>1. extractForwardedIP(x, other) = other
      BY <1>1, <1>2, <1>5
    <2> QED BY <1>5, <2>1 DEF I
  <1> QED BY <1>4, <1>5

(* The address that extractForwardedIP finds, whatever the client claimed, *)
(* when the proxies appended whom they were called by.                     *)
LEMMA ForwardedIsSender ==
    ASSUME NEW p \in Paths, NEW claim \in Claims, NEW other, IPInRanges(Last(p)),
           LastUntrusted(p) # 0
    PROVE  extractForwardedIP(claim \o Front(p), other) = p[LastUntrusted(p)]
  <1> DEFINE k == LastUntrusted(p)
             x == claim \o Front(p)
             c == Len(claim)
  <1>1. /\ p \in Seq(Addrs) /\ Len(p) \in Nat \ {0} /\ claim \in Seq(Addrs) /\ c \in Nat
        /\ Last(p) = p[Len(p)]
        /\ \A i \in 1..Len(p) : p[i] # "malformed"
    BY PathFacts, PathsAssumption
  <1>2. /\ k \in 1..Len(p) /\ ~IPInRanges(p[k])
        /\ \A i \in 1..Len(p) : ~IPInRanges(p[i]) => i <= k
    BY LastUntrustedIs
  <1>3. /\ x \in Seq(Addrs) /\ Len(x) = c + (Len(p) - 1)
        /\ \A i \in 1..(Len(p) - 1) : x[c + i] = p[i]
    <2> DEFINE f == Front(p)
    <2>1. /\ f \in Seq(Addrs) /\ Len(f) = Len(p) - 1
          /\ \A i \in 1..(Len(p) - 1) : f[i] = p[i]
      BY FrontIs
    <2> HIDE DEF f
    <2>2. claim \in Seq(Addrs) /\ f \in Seq(Addrs)
      BY <1>1, <2>1
    <2>3. claim \o f \in Seq(Addrs) /\ Len(claim \o f) = c + Len(f)
      BY <2>2
    <2>4. \A i \in 1..Len(f) : (claim \o f)[c + i] = f[i]
      BY <2>2
    <2> QED BY <2>1, <2>3, <2>4 DEF f
  <1> HIDE DEF k, x, c
  <1>4. k # Len(p)
    BY <1>1, <1>2
  <1>5. k \in 1..(Len(p) - 1)
    BY <1>1, <1>2, <1>4
  <1>6. c + k \in 1..Len(x) /\ x[c + k] = p[k] /\ x[c + k] # "malformed" /\ ~IPInRanges(x[c + k])
    BY <1>1, <1>2, <1>3, <1>5
  <1>7. PICK m \in 1..Len(x) :
          /\ x[m] # "malformed" /\ ~IPInRanges(x[m])
          /\ \A i \in 1..Len(x) : x[i] # "malformed" /\ ~IPInRanges(x[i]) => i <= m
          /\ extractForwardedIP(x, other) = x[m]
    BY <1>3, <1>6, ForwardedIs
  <1>8. m \in Nat /\ c + k <= m
    BY <1>3, <1>6, <1>7
  <1>9. m - c \in 1..(Len(p) - 1) /\ m = c + (m - c)
    BY <1>1, <1>3, <1>5, <1>7, <1>8
  <1>10. x[m] = p[m - c]
    BY <1>3, <1>9
  <1>11. m - c <= k
    BY <1>1, <1>2, <1>7, <1>9, <1>10
  <1>12. m = c + k
    BY <1>1, <1>5, <1>8, <1>9, <1>11
  <1> QED BY <1>6, <1>7, <1>12 DEF x, k

(* A forwarded address is an address.                                      *)
LEMMA ForwardedTyped ==
    ASSUME NEW p \in Paths, NEW claim \in Claims, NEW other \in Addrs \cup {None}
    PROVE  extractForwardedIP(claim \o Front(p), other) \in Addrs \cup {None}
  <1>1. p \in Seq(Addrs) /\ claim \in Seq(Addrs) /\ Front(p) \in Seq(Addrs)
    BY PathFacts, FrontIs, PathsAssumption
  <1> DEFINE x == claim \o Front(p)
  <1>2. x \in Seq(Addrs)
    BY <1>1, ConcatIs, Zenon
  <1> HIDE DEF x
  <1>3. \A m \in 1..Len(x) : x[m] \in Addrs
    BY <1>2
  <1>4. extractForwardedIP(x, other) \in Addrs \cup {None}
    BY <1>2, <1>3, ForwardedIs
  <1> QED BY <1>4 DEF x

-----------------------------------------------------------------------------
(* The configuration. *)

(* Load changes the secrets, the address and the schemes of a file.        *)
LEMMA LoadKeeps ==
    ASSUME NEW f \in File
    PROVE  /\ \A k \in {"trustedProxy", "tailscale", "proxyAuth", "oidc", "anonymousAdmin"} :
                 resolveSecrets(f)[k] = f[k] /\ Load(f)[k] = f[k]
           /\ resolveSecrets(f).canonical = f.canonical
           /\ resolveSecrets(f).schemes = f.schemes
           /\ Load(f).jwtSecret = resolveSecrets(f).jwtSecret
           /\ Load(f).canonical =
                IF f.canonical # None /\ f.canonical.path = "/"
                  THEN [f.canonical EXCEPT !.path = ""] ELSE f.canonical
           /\ Load(f).schemes = {Normalized(s) : s \in f.schemes}
  <1>1. {"trustedProxy", "tailscale", "proxyAuth", "oidc", "anonymousAdmin", "canonical",
         "schemes", "jwtSecret", "clientSecret", "dsn"} \subseteq DOMAIN f
    BY DEF File
  <1> DEFINE r == resolveSecrets(f)
  <1>2. /\ DOMAIN r = DOMAIN f
        /\ \A k \in DOMAIN f : k \notin {"jwtSecret", "clientSecret", "dsn"} => r[k] = f[k]
    BY DEF resolveSecrets
  <1> HIDE DEF r
  <1>3. /\ DOMAIN Adjusted(r) = DOMAIN r
        /\ \A k \in DOMAIN r : k \notin {"canonical", "schemes"} => Adjusted(r)[k] = r[k]
    BY DEF Adjusted
  <1>4. /\ Adjusted(r).canonical = IF r.canonical # None /\ r.canonical.path = "/"
                                     THEN [r.canonical EXCEPT !.path = ""] ELSE r.canonical
        /\ Adjusted(r).schemes = {Normalized(s) : s \in r.schemes}
    BY <1>1, <1>2 DEF Adjusted
  <1> QED BY <1>1, <1>2, <1>3, <1>4 DEF Load, r

(* A file that loads makes a sound configuration: validate looks at the    *)
(* settings once the secrets are resolved, and what Load changes after     *)
(* that takes nothing back.                                                *)
LEMMA LoadSound ==
    ASSUME NEW f \in Files, Loads(f)
    PROVE  Sound(Load(f))
  <1>1. f \in File
    BY FilesAssumption
  <1> DEFINE r == resolveSecrets(f)
             l == Load(f)
  <1>2. /\ r.trustedProxy = f.trustedProxy /\ l.trustedProxy = f.trustedProxy
        /\ r.tailscale = f.tailscale /\ l.tailscale = f.tailscale
        /\ r.proxyAuth = f.proxyAuth /\ l.proxyAuth = f.proxyAuth
        /\ r.oidc = f.oidc /\ l.oidc = f.oidc
        /\ l.anonymousAdmin = f.anonymousAdmin
        /\ r.canonical = f.canonical /\ r.schemes = f.schemes
        /\ l.jwtSecret = r.jwtSecret
        /\ l.schemes = {Normalized(s) : s \in f.schemes}
    BY <1>1, LoadKeeps
  <1>3. l.canonical = IF f.canonical # None /\ f.canonical.path = "/"
                        THEN [f.canonical EXCEPT !.path = ""] ELSE f.canonical
    BY <1>1, LoadKeeps
  <1>4. AddressesValid(r) /\ ProvidersValid(r) /\ SessionsValid(r) /\ SchemesValid(r)
    BY DEF Loads, validate
  <1> HIDE DEF r, l
  <1>5. /\ f.trustedProxy \subseteq SUBSET Addrs /\ f.anonymousAdmin \in BOOLEAN
        /\ f.schemes \subseteq SourceScheme
        /\ f.canonical \in Address \cup {None}
    BY <1>1 DEF File
  <1>6. \A n \in l.trustedProxy : n # {} /\ n \subseteq Addrs
    BY <1>2, <1>4, <1>5 DEF AddressesValid
  <1>7. /\ l.tailscale \/ l.proxyAuth => l.trustedProxy # {}
        /\ l.oidc => l.jwtSecret \notin Short
    BY <1>2, <1>4 DEF ProvidersValid, SessionsValid
  <1>8. l.canonical # None => [scheme |-> l.canonical.scheme, host |-> l.canonical.host] \in URLs
    <2>1. f.canonical # None =>
            f.canonical \in Address /\ f.canonical.host \in Hosts
            /\ f.canonical.scheme \in {"http", "https"}
      BY <1>2, <1>4, <1>5 DEF AddressesValid, Address
    <2>2. CASE f.canonical = None
      BY <1>3, <2>2
    <2>3. CASE f.canonical # None
      <3>1. l.canonical.scheme = f.canonical.scheme /\ l.canonical.host = f.canonical.host
        BY <1>3, <2>1, <2>3 DEF Address
      <3> QED BY <2>1, <2>3, <3>1 DEF URLs
    <2> QED BY <2>2, <2>3
  <1>9. \A s \in f.schemes : /\ Normalized(s) \in [name : STRING, upper : {FALSE}, padded : {FALSE}]
                             /\ Normalized(s).name \notin dangerousSchemes
    <2>1. \A s \in f.schemes : Normalized(s).name \notin dangerousSchemes
      BY <1>2, <1>4 DEF SchemesValid
    <2>2. \A s \in f.schemes : Normalized(s) \in [name : STRING, upper : {FALSE}, padded : {FALSE}]
      BY <1>5 DEF Normalized, SourceScheme
    <2> QED BY <2>1, <2>2
  <1>10. /\ l.schemes \subseteq [name : STRING, upper : {FALSE}, padded : {FALSE}]
         /\ \A s \in l.schemes : s.name \notin dangerousSchemes
    BY <1>2, <1>9
  <1>11. l.anonymousAdmin \in BOOLEAN
    BY <1>2, <1>5
  <1>12. Sound(l)
    BY <1>6, <1>7, <1>8, <1>10, <1>11 DEF Sound
  <1> QED BY <1>12 DEF l

(* No request. *)
LEMMA IdleTyped == Idle \in Request
  <1> DEFINE u == CHOOSE x \in URLs : TRUE
             p == CHOOSE x \in Paths : TRUE
  <1>1. u \in URLs
    <2>1. PICK h \in Hosts : TRUE
      BY HostsAssumption
    <2>2. [scheme |-> "http", host |-> h] \in URLs
      BY DEF URLs
    <2> QED BY <2>2
  <1>2. p \in Paths
    BY PathsAssumption
  <1>3. "idle" \in ToSet(Chain) \cup {"idle", "admin", "limit", "auth", "mutation", "origin",
                                      "handler", "answered"}
    BY DEF Chain
  <1>4. 0 \in 0..MaxHops
    BY HopsAssumption
  <1>5. None \in Origins
    BY DEF Origins
  <1>6. NoRoute \in Routes \cup {NoRoute} /\ "" \in Status
    BY DEF Status
  <1> HIDE DEF u, p
  <1>7. [at |-> "idle", method |-> "GET", header |-> FALSE, preflight |-> FALSE,
         reports |-> FALSE, url |-> u, origin |-> None, path |-> p,
         hops |-> 0, orig |-> None, remote |-> None, id |-> None, route |-> NoRoute,
         answer |-> "", source |-> None] \in Request
    BY <1>1, <1>2, <1>3, <1>4, <1>5, <1>6 DEF Request
  <1> QED BY <1>7 DEF Idle, u, p

(* A request by its fields. *)
LEMMA RequestIs ==
    ASSUME NEW r \in Request
    PROVE  /\ r.at \in Stages /\ r.method \in {"GET", "POST", "PATCH", "DELETE"}
           /\ r.header \in BOOLEAN /\ r.preflight \in BOOLEAN /\ r.reports \in BOOLEAN
           /\ r.url \in URLs /\ r.origin \in Origins /\ r.path \in Paths
           /\ r.hops \in 0..MaxHops
           /\ r.orig \in Addrs \cup {None} /\ r.remote \in Addrs \cup {None}
           /\ r.id \in Identity \cup {None} /\ r.route \in Routes \cup {NoRoute}
           /\ r.source \in Sources \cup {None}
           /\ r.answer \in Status
  BY StagesAre DEF Request

-----------------------------------------------------------------------------
(* What the steps of the server have in common.                            *)

(* The server leaves alone what was sent, and the configuration.           *)
Kept ==
    /\ cfg' = cfg
    /\ req'.method = req.method /\ req'.header = req.header
    /\ req'.preflight = req.preflight /\ req'.reports = req.reports
    /\ req'.url = req.url /\ req'.origin = req.origin
    /\ req'.path = req.path /\ req'.hops = req.hops

(* It is past the proxies. *)
Inside == {"cors", "DomainRedirect", "tailscale", "proxyAuth", "oidc", "anonymous", "route",
           "admin", "limit", "auth", "mutation", "origin", "handler"}

LEMMA MoveOutcome ==
    ASSUME req \in Request, cfg' = cfg, NEW x \in Stages, req' = [req EXCEPT !.at = x]
    PROVE  /\ Kept /\ req' \in Request /\ req'.at = x
           /\ req'.orig = req.orig /\ req'.remote = req.remote /\ req'.id = req.id
           /\ req'.route = req.route /\ req'.source = req.source /\ req'.answer = req.answer
  BY StagesAre DEF Kept, Request

LEMMA SettleOutcome ==
    ASSUME req \in Request, cfg' = cfg,
           NEW a \in Status,
           NEW s \in Sources \cup {None},
           \/ Answer(a) /\ s = req.source
           \/ req' = [req EXCEPT !.at = "answered", !.answer = a, !.source = s]
    PROVE  /\ Kept /\ req' \in Request /\ req'.at = "answered" /\ req'.answer = a
           /\ req'.orig = req.orig /\ req'.remote = req.remote /\ req'.id = req.id
           /\ req'.route = req.route /\ req'.source = s
  <1>1. "answered" \in Stages
    BY DEF Stages
  <1>2. CASE Answer(a) /\ s = req.source
    BY <1>1, <1>2, StagesAre DEF Kept, Request, Answer
  <1>3. CASE req' = [req EXCEPT !.at = "answered", !.answer = a, !.source = s]
    BY <1>1, <1>3, StagesAre DEF Kept, Request
  <1> QED BY <1>2, <1>3

LEMMA IdentityOutcome ==
    ASSUME req \in Request, cfg' = cfg, NEW x \in Stages, NEW d \in Identity,
           req' = [req EXCEPT !.at = x, !.id = d]
    PROVE  /\ Kept /\ req' \in Request /\ req'.at = x /\ req'.id = d
           /\ req'.orig = req.orig /\ req'.remote = req.remote
           /\ req'.route = req.route /\ req'.source = req.source /\ req'.answer = req.answer
  BY StagesAre DEF Kept, Request

LEMMA AddressOutcome ==
    ASSUME req \in Request, cfg' = cfg, NEW x \in Stages, NEW o \in Addrs \cup {None},
           NEW m \in Addrs \cup {None},
           \/ req' = [req EXCEPT !.at = x, !.orig = o] /\ m = req.remote
           \/ req' = [req EXCEPT !.at = x, !.remote = m] /\ o = req.orig
    PROVE  /\ Kept /\ req' \in Request /\ req'.at = x /\ req'.orig = o /\ req'.remote = m
           /\ req'.id = req.id
           /\ req'.route = req.route /\ req'.source = req.source /\ req'.answer = req.answer
  <1>1. CASE req' = [req EXCEPT !.at = x, !.orig = o] /\ m = req.remote
    BY <1>1, StagesAre DEF Kept, Request
  <1>2. CASE req' = [req EXCEPT !.at = x, !.remote = m] /\ o = req.orig
    BY <1>2, StagesAre DEF Kept, Request
  <1> QED BY <1>1, <1>2

LEMMA RouteOutcome ==
    ASSUME req \in Request, cfg' = cfg, NEW x \in Stages, NEW rt \in Routes,
           req' = [req EXCEPT !.route = rt, !.at = x]
    PROVE  /\ Kept /\ req' \in Request /\ req'.at = x /\ req'.route = rt
           /\ req'.orig = req.orig /\ req'.remote = req.remote /\ req'.id = req.id
           /\ req'.source = req.source /\ req'.answer = req.answer
  BY StagesAre DEF Kept, Request

(* Who is trusted is a matter of the configuration.                        *)
LEMMA TrustKept ==
    ASSUME Kept
    PROVE  /\ \A a : IPInRanges(a)' <=> IPInRanges(a)
           /\ LastUntrusted(req.path)' = LastUntrusted(req.path)
           /\ SchemeKnown' <=> SchemeKnown
           /\ CanonicalAsBrowsed' <=> CanonicalAsBrowsed
  <1>1. \A a : IPInRanges(a)' <=> IPInRanges(a)
    BY DEF Kept, IPInRanges, TrustedProxyNets
  <1>2. LastUntrusted(req.path)' = LastUntrusted(req.path)
    BY DEF Kept, LastUntrusted, IPInRanges, TrustedProxyNets, SelectLastInSeq
  <1>3. SchemeKnown' <=> SchemeKnown
    BY DEF Kept, SchemeKnown, IPInRanges, TrustedProxyNets
  <1>4. CanonicalAsBrowsed' <=> CanonicalAsBrowsed
    BY DEF Kept, CanonicalAsBrowsed, Canonical, Browsed
  <1> QED BY <1>1, <1>2, <1>3, <1>4

(* A request that is somewhere is a request to a process.                  *)
LEMMA Running ==
    ASSUME Inv, req.at # "idle"
    PROVE  cfg # None /\ Sound(cfg) /\ req \in Request
  <1>1. Idle.at = "idle"
    BY DEF Idle
  <1>2. cfg # None /\ Sound(cfg)
    BY <1>1 DEF Inv, ConfigInv
  <1>3. req \in Request
    BY DEF Inv, TypeOK
  <1> QED BY <1>2, <1>3

LEMMA TypesKept ==
    ASSUME Inv, req.at # "idle", cfg' = cfg, req' \in Request
    PROVE  TypeOK' /\ ConfigInv'
  <1>1. cfg # None /\ Sound(cfg)
    BY Running
  <1>2. TypeOK'
    BY <1>1 DEF TypeOK, Sound
  <1>3. ConfigInv'
    BY <1>1 DEF ConfigInv, Sound
  <1> QED BY <1>2, <1>3

LEMMA PeerKept ==
    ASSUME Inv, Kept, req.at \in Inside, req'.at \in Inside \cup {"answered"},
           req'.orig = req.orig, req'.remote = req.remote
    PROVE  PeerInv' /\ ChargedInv'
  <1>1. req.orig = Last(req.path) /\ req'.path = req.path
    BY DEF Inv, PeerInv, Inside, Kept
  <1>2. PeerInv'
    BY <1>1 DEF PeerInv, Inside
  <1>3. LastUntrusted(req.path)' = LastUntrusted(req.path)
    BY TrustKept
  <1>4. LastUntrusted(req.path) # 0 => req.remote = req.path[LastUntrusted(req.path)]
    BY DEF Inv, ChargedInv, Inside
  <1>5. ChargedInv'
    BY <1>1, <1>3, <1>4 DEF ChargedInv
  <1> QED BY <1>2, <1>5

LEMMA BrowserKept ==
    ASSUME Inv, Kept,
           req.preflight /\ req.origin = Extension =>
             \/ req'.at \in {"PreserveRemoteAddr", "TrustedRealIP", "cors"}
             \/ req'.at = "answered" /\ req'.answer = "204"
    PROVE  BrowserInv'
  BY DEF Inv, BrowserInv, Kept, Preflighted, CrossOrigin, Canonical, Browsed

LEMMA VouchedKept ==
    ASSUME Inv, Kept, req'.id = req.id
    PROVE  IdentityVouched'
  <1>1. IPInRanges(Last(req.path))' <=> IPInRanges(Last(req.path))
    BY DEF Kept, IPInRanges, TrustedProxyNets
  <1> QED BY <1>1 DEF Inv, IdentityVouched, Kept

(* From one stage to another. *)
LEMMA MoveKeeps ==
    ASSUME Inv, req.at \in Inside, cfg' = cfg, NEW x \in Inside,
           req' = [req EXCEPT !.at = x],
           req.preflight /\ req.origin = Extension => x = "cors",
           RouteInv'
    PROVE  Inv'
  <1>1. req.at # "idle" /\ req.at # "answered" /\ x \in Stages /\ x # "answered" /\ x # "idle"
    BY DEF Inside, Stages
  <1>2. req \in Request
    BY <1>1, Running
  <1>3. /\ Kept /\ req' \in Request /\ req'.at = x
        /\ req'.orig = req.orig /\ req'.remote = req.remote /\ req'.id = req.id
        /\ req'.route = req.route /\ req'.source = req.source /\ req'.answer = req.answer
    BY <1>1, <1>2, MoveOutcome
  <1>4. TypeOK' /\ ConfigInv'
    BY <1>1, <1>3, TypesKept
  <1>5. PeerInv' /\ ChargedInv'
    BY <1>3, PeerKept
  <1>6. BrowserInv'
    BY <1>3, BrowserKept
  <1>7. AnswerInv'
    BY <1>1, <1>3 DEF Inv, AnswerInv, Kept
  <1>8. IdentityVouched'
    BY <1>3, VouchedKept
  <1>9. RedirectedOnce' /\ SourceIsSafe'
    BY <1>1, <1>3 DEF Inv, RedirectedOnce, SourceIsSafe
  <1> QED BY <1>4, <1>5, <1>6, <1>7, <1>8, <1>9 DEF Inv

(* To an answer. *)
LEMMA SettleKeeps ==
    ASSUME Inv, req.at \in Inside, cfg' = cfg,
           NEW a \in Status,
           NEW s \in Sources \cup {None},
           \/ Answer(a) /\ s = req.source
           \/ req' = [req EXCEPT !.at = "answered", !.answer = a, !.source = s],
           req.preflight /\ req.origin = Extension => a = "204",
           a = "204" => req.origin = Extension,
           a = "301" => cfg.canonical # None /\ (SchemeKnown /\ CanonicalAsBrowsed => req.hops = 0),
           a = "no header" => ~req.header,
           a = "bad origin" => req.origin # Extension,
           s # None => s.name \notin dangerousSchemes
    PROVE  Inv'
  <1>1. req.at # "idle" /\ req.at # "answered"
    BY DEF Inside
  <1>2. req \in Request
    BY <1>1, Running
  <1>3. /\ Kept /\ req' \in Request /\ req'.at = "answered" /\ req'.answer = a
        /\ req'.orig = req.orig /\ req'.remote = req.remote /\ req'.id = req.id
        /\ req'.route = req.route /\ req'.source = s
    BY <1>2, SettleOutcome
  <1>4. TypeOK' /\ ConfigInv'
    BY <1>1, <1>3, TypesKept
  <1>5. PeerInv' /\ ChargedInv'
    BY <1>3, PeerKept
  <1>6. BrowserInv'
    BY <1>3, BrowserKept
  <1>7. AnswerInv'
    BY <1>3 DEF AnswerInv, Kept
  <1>8. IdentityVouched'
    BY <1>3, VouchedKept
  <1>9. (SchemeKnown' <=> SchemeKnown) /\ (CanonicalAsBrowsed' <=> CanonicalAsBrowsed)
    BY <1>3, TrustKept
  <1>10. RedirectedOnce'
    BY <1>3, <1>9 DEF RedirectedOnce, Kept
  <1>11. SourceIsSafe' /\ RouteInv'
    BY <1>3 DEF SourceIsSafe, RouteInv
  <1> QED BY <1>4, <1>5, <1>6, <1>7, <1>8, <1>10, <1>11 DEF Inv

-----------------------------------------------------------------------------
(* The process and the browser. *)

LEMMA IdleIs ==
    /\ Idle.at = "idle" /\ ~Idle.preflight /\ Idle.origin = None /\ Idle.hops = 0
    /\ Idle.id = None /\ Idle.source = None /\ Idle.answer = ""
    /\ Idle \in Request
  BY IdleTyped DEF Idle

(* No request, and a sound configuration or none.                          *)
LEMMA IdleKeeps ==
    ASSUME req' = Idle, cfg' = None \/ Sound(cfg')
    PROVE  Inv'
  <1>1. TypeOK'
    BY IdleIs DEF TypeOK, Sound
  <1>2. ConfigInv'
    BY DEF ConfigInv, Sound
  <1>3. PeerInv' /\ ChargedInv' /\ AnswerInv' /\ RouteInv'
    BY IdleIs DEF PeerInv, ChargedInv, AnswerInv, RouteInv
  <1>4. BrowserInv'
    <2>1. ~(Idle.origin \notin {None, Idle.url})
      BY IdleIs
    <2>2. ~(Idle.hops > 0)
      <3>1. Idle.hops = 0
        BY IdleIs
      <3> QED BY <3>1
    <2> QED BY <2>1, <2>2, IdleIs DEF BrowserInv, Preflighted, CrossOrigin
  <1>5. IdentityVouched' /\ RedirectedOnce' /\ SourceIsSafe'
    BY IdleIs DEF IdentityVouched, RedirectedOnce, SourceIsSafe
  <1> QED BY <1>1, <1>2, <1>3, <1>4, <1>5 DEF Inv

LEMMA InitInv == Init => Inv
  <1>1. SUFFICES ASSUME Init PROVE Inv
    OBVIOUS
  <1> USE <1>1 DEF Init
  <1>2. TypeOK
    BY IdleIs DEF TypeOK
  <1>3. ConfigInv
    BY DEF ConfigInv
  <1>4. PeerInv /\ ChargedInv /\ AnswerInv /\ RouteInv
    BY IdleIs DEF PeerInv, ChargedInv, AnswerInv, RouteInv
  <1>5. BrowserInv
    <2>1. ~(Idle.origin \notin {None, Idle.url})
      BY IdleIs
    <2>2. ~(Idle.hops > 0)
      <3>1. Idle.hops = 0
        BY IdleIs
      <3> QED BY <3>1
    <2> QED BY <2>1, <2>2, IdleIs DEF BrowserInv, Preflighted, CrossOrigin
  <1>6. IdentityVouched /\ RedirectedOnce /\ SourceIsSafe
    BY IdleIs DEF IdentityVouched, RedirectedOnce, SourceIsSafe
  <1> QED BY <1>2, <1>3, <1>4, <1>5, <1>6 DEF Inv

LEMMA ProcessKeeps == Inv /\ (Start \/ Stop \/ End) => Inv'
  <1>1. ASSUME Inv, Start PROVE Inv'
    <2>1. PICK f \in Files : Loads(f) /\ cfg' = Load(f)
      BY <1>1 DEF Start
    <2>2. Sound(cfg')
      BY <2>1, LoadSound
    <2>3. req' = Idle
      BY <1>1 DEF Start, Inv, ConfigInv
    <2> QED BY <2>2, <2>3, IdleKeeps
  <1>2. ASSUME Inv, Stop PROVE Inv'
    BY <1>2, IdleKeeps DEF Stop
  <1>3. ASSUME Inv, End PROVE Inv'
    <2>1. req' = Idle /\ cfg' = cfg /\ req.at # "idle"
      BY <1>3 DEF End
    <2>2. Sound(cfg')
      BY <1>3, <2>1, Running
    <2> QED BY <2>1, <2>2, IdleKeeps
  <1> QED BY <1>1, <1>2, <1>3

(* A request as it gets to the server.                                     *)
LEMMA ArriveOutcome ==
    ASSUME NEW r \in Request, NEW path \in Paths, NEW reports \in BOOLEAN,
           Arrive(r, path, reports)
    PROVE  /\ req' \in Request /\ req'.at = "PreserveRemoteAddr"
           /\ req'.method = r.method /\ req'.header = r.header /\ req'.url = r.url
           /\ req'.origin = r.origin /\ req'.hops = r.hops /\ req'.path = path
           /\ req'.preflight <=> Preflighted(r)
           /\ req'.orig = None /\ req'.remote = Last(path) /\ req'.id = None
           /\ req'.route = NoRoute /\ req'.answer = "" /\ req'.source = None
  <1> DEFINE b == Preflighted(r)
             m == Last(path)
  <1>1. b \in BOOLEAN
    BY DEF Preflighted, CrossOrigin
  <1>2. m \in Addrs
    BY PathFacts
  <1>3. /\ Chain[1] = "PreserveRemoteAddr" /\ "PreserveRemoteAddr" \in Stages
        /\ "" \in Status
    BY ChainOrder DEF Stages, Status
  <1>4. req' = [r EXCEPT !.at = "PreserveRemoteAddr", !.preflight = b, !.path = path,
                         !.reports = reports, !.orig = None, !.remote = m,
                         !.id = None, !.route = NoRoute, !.answer = "", !.source = None]
    BY <1>3 DEF Arrive
  <1> HIDE DEF b, m
  <1>5. r = [at |-> r.at, method |-> r.method, header |-> r.header, preflight |-> r.preflight,
             reports |-> r.reports, url |-> r.url, origin |-> r.origin, path |-> r.path,
             hops |-> r.hops, orig |-> r.orig, remote |-> r.remote, id |-> r.id,
             route |-> r.route, source |-> r.source, answer |-> r.answer]
    BY DEF Request
  <1>6. req' = [at |-> "PreserveRemoteAddr", method |-> r.method, header |-> r.header,
                preflight |-> b, reports |-> reports, url |-> r.url, origin |-> r.origin,
                path |-> path, hops |-> r.hops, orig |-> None, remote |-> m, id |-> None,
                route |-> NoRoute, source |-> None, answer |-> ""]
    BY <1>4, <1>5
  <1>7. req' \in Request
    BY <1>1, <1>2, <1>3, <1>6, RequestIs, StagesAre DEF Request
  <1> QED BY <1>6, <1>7 DEF b, m

LEMMA ArriveKeeps ==
    ASSUME Inv, cfg # None, cfg' = cfg, NEW r \in Request, NEW path \in Paths,
           NEW reports \in BOOLEAN, Arrive(r, path, reports),
           r.hops > 0 => cfg.canonical # None /\ r.url = Browsed(Canonical)
    PROVE  Inv'
  <1>1. /\ req' \in Request /\ req'.at = "PreserveRemoteAddr"
        /\ req'.method = r.method /\ req'.header = r.header /\ req'.url = r.url
        /\ req'.origin = r.origin /\ req'.hops = r.hops /\ req'.path = path
        /\ req'.preflight <=> Preflighted(r)
        /\ req'.orig = None /\ req'.remote = Last(path) /\ req'.id = None
        /\ req'.route = NoRoute /\ req'.answer = "" /\ req'.source = None
    BY ArriveOutcome
  <1>2. TypeOK' /\ ConfigInv'
    <2>1. Sound(cfg)
      BY DEF Inv, ConfigInv
    <2> QED BY <1>1, <2>1 DEF TypeOK, ConfigInv, Sound
  <1>3. PeerInv' /\ ChargedInv' /\ AnswerInv' /\ RouteInv'
    BY <1>1 DEF PeerInv, ChargedInv, AnswerInv, RouteInv
  <1>4. BrowserInv'
    BY <1>1 DEF BrowserInv, Preflighted, CrossOrigin, Canonical, Browsed
  <1>5. IdentityVouched' /\ RedirectedOnce' /\ SourceIsSafe'
    BY <1>1 DEF IdentityVouched, RedirectedOnce, SourceIsSafe
  <1> QED BY <1>1, <1>2, <1>3, <1>4, <1>5 DEF Inv

LEMMA SendKeeps == Inv /\ Send => Inv'
  <1>1. SUFFICES ASSUME Inv, Send PROVE Inv'
    OBVIOUS
  <1>2. PICK method \in {"GET", "POST", "PATCH", "DELETE"}, header \in BOOLEAN, url \in URLs,
             origin \in Origins \ {Null}, path \in Paths, reports \in BOOLEAN :
             /\ method = "GET" => ~header /\ origin = None
             /\ origin # None => url = Browsed(url)
             /\ origin \in URLs => origin = url
             /\ Arrive([Idle EXCEPT !.method = method, !.header = header, !.url = url,
                                    !.origin = origin], path, reports)
    BY <1>1, Zenon DEF Send
  <1> DEFINE m == method
             h == header
             o == origin
             u == url
             r == [Idle EXCEPT !.method = m, !.header = h, !.url = u, !.origin = o]
  <1>3. Arrive(r, path, reports) /\ cfg # None /\ cfg' = cfg
    BY <1>1, <1>2 DEF Send
  <1>4. /\ m \in {"GET", "POST", "PATCH", "DELETE"} /\ h \in BOOLEAN /\ u \in URLs
        /\ o \in Origins /\ Idle \in Request
    BY IdleIs
  <1> HIDE DEF m, h, o, u
  <1>5. r \in Request
    BY ZenonT(40), <1>4 DEF Request
  <1>6. r.hops = 0
    <2>1. r.hops = Idle.hops
      BY <1>4 DEF Request
    <2> HIDE DEF r
    <2> QED BY <2>1, IdleIs
  <1> HIDE DEF r
  <1> QED BY <1>1, <1>3, <1>5, <1>6, ArriveKeeps

LEMMA FollowKeeps ==
    ASSUME Inv, NEW path \in Paths, NEW reports \in BOOLEAN, Follow(path, reports)
    PROVE  Inv'
  <1> DEFINE c == Browsed(Canonical)
             m == IF req.method = "POST" THEN "GET" ELSE req.method
             o == IF CrossOrigin(req) /\ req.url # c THEN Null ELSE req.origin
             h == req.hops + 1
             r == [req EXCEPT !.url = c, !.hops = h, !.method = m, !.origin = o]
  <1>1. req.at # "idle" /\ req.answer = "301" /\ req.hops < MaxHops /\ cfg' = cfg
    BY DEF Follow
  <1>2. cfg # None /\ Sound(cfg) /\ req \in Request /\ cfg.canonical # None
    BY <1>1, Running DEF Inv, AnswerInv
  <1>3. c \in URLs
    <2>1. Canonical \in URLs
      BY <1>2 DEF Sound, Canonical
    <2> HIDE DEF Canonical
    <2> QED BY <2>1, SpelledAssumption DEF Browsed, URLs
  <1>4. m \in {"GET", "POST", "PATCH", "DELETE"} /\ o \in Origins
    BY <1>2, RequestIs DEF Origins
  <1>5. h \in 0..MaxHops
    <2>1. req.hops \in 0..MaxHops
      BY <1>2, RequestIs
    <2> QED BY <1>1, <2>1, HopsAssumption
  <1>6. Arrive(r, path, reports)
    BY DEF Follow
  <1> HIDE DEF c, m, o, h
  <1>7. r \in Request /\ r.url = c
    BY ZenonT(40), <1>2, <1>3, <1>4, <1>5 DEF Request
  <1> HIDE DEF r
  <1> QED BY <1>1, <1>2, <1>6, <1>7, ArriveKeeps DEF c

LEMMA SendPreflightedKeeps == Inv /\ SendPreflighted => Inv'
  <1>1. SUFFICES ASSUME Inv, SendPreflighted PROVE Inv'
    OBVIOUS
  <1> USE <1>1
  <1>2. req.at # "idle" /\ req.answer = "204" /\ cfg' = cfg /\ req \in Request
    BY Running DEF SendPreflighted
  <1> DEFINE m == Last(req.path)
  <1>3. m \in Addrs
    BY <1>2, RequestIs, PathFacts
  <1>4. /\ Chain[1] = "PreserveRemoteAddr" /\ "PreserveRemoteAddr" \in Stages
        /\ "" \in Status
    BY ChainOrder DEF Stages, Status
  <1>5. req' = [req EXCEPT !.at = "PreserveRemoteAddr", !.preflight = FALSE, !.orig = None,
                           !.remote = m, !.answer = ""]
    BY <1>4 DEF SendPreflighted
  <1>6. req.origin = Extension
    BY <1>2 DEF Inv, AnswerInv
  <1> HIDE DEF m
  <1>7. /\ req' \in Request /\ req'.at = "PreserveRemoteAddr" /\ req'.preflight = FALSE
        /\ req'.origin = req.origin /\ req'.url = req.url /\ req'.hops = req.hops
        /\ req'.path = req.path /\ req'.orig = None /\ req'.remote = m /\ req'.answer = ""
        /\ req'.id = req.id /\ req'.source = req.source
    BY <1>2, <1>3, <1>4, <1>5, StagesAre DEF Request
  <1>8. TypeOK' /\ ConfigInv'
    BY <1>2, <1>7, TypesKept
  <1>9. PeerInv' /\ ChargedInv' /\ AnswerInv' /\ RouteInv'
    BY <1>7 DEF PeerInv, ChargedInv, AnswerInv, RouteInv, m
  <1>10. BrowserInv'
    BY <1>2, <1>6, <1>7 DEF Inv, BrowserInv, Canonical, Browsed
  <1>11. IPInRanges(Last(req.path))' <=> IPInRanges(Last(req.path))
    BY <1>2, <1>7 DEF IPInRanges, TrustedProxyNets
  <1>12. IdentityVouched'
    BY <1>2, <1>7, <1>11 DEF Inv, IdentityVouched
  <1>13. RedirectedOnce' /\ SourceIsSafe'
    BY <1>7 DEF Inv, RedirectedOnce, SourceIsSafe
  <1> QED BY <1>8, <1>9, <1>10, <1>12, <1>13 DEF Inv

-----------------------------------------------------------------------------
(* The middleware. *)

LEMMA PreserveKeeps == Inv /\ PreserveRemoteAddr => Inv'
  <1>1. SUFFICES ASSUME Inv, PreserveRemoteAddr PROVE Inv'
    OBVIOUS
  <1> USE <1>1
  <1>2. req.at = "PreserveRemoteAddr" /\ req.at # "idle" /\ cfg' = cfg
    BY DEF PreserveRemoteAddr
  <1>3. /\ req \in Request /\ req.remote = Last(req.path)
        /\ req.remote \in Addrs \cup {None} /\ "TrustedRealIP" \in Stages
    BY <1>2, Running, RequestIs DEF Inv, PeerInv, Stages
  <1>4. req' = [req EXCEPT !.at = "TrustedRealIP", !.orig = req.remote]
    BY <1>2, AfterStages DEF PreserveRemoteAddr
  <1>5. /\ Kept /\ req' \in Request /\ req'.at = "TrustedRealIP"
        /\ req'.orig = req.remote /\ req'.remote = req.remote /\ req'.id = req.id
        /\ req'.route = req.route /\ req'.source = req.source /\ req'.answer = req.answer
    BY ZenonT(40), <1>2, <1>3, <1>4, AddressOutcome
  <1>6. TypeOK' /\ ConfigInv'
    BY <1>2, <1>5, TypesKept
  <1>7. PeerInv' /\ ChargedInv'
    BY <1>3, <1>5 DEF PeerInv, ChargedInv, Kept
  <1>8. BrowserInv' /\ IdentityVouched'
    BY <1>5, BrowserKept, VouchedKept
  <1>9. AnswerInv' /\ RouteInv' /\ RedirectedOnce' /\ SourceIsSafe'
    BY <1>2, <1>5 DEF Inv, AnswerInv, RouteInv, RedirectedOnce, SourceIsSafe
  <1> QED BY <1>6, <1>7, <1>8, <1>9 DEF Inv

(* The address that the rest of the chain sees is the nearest that is not  *)
(* a proxy's: the peer's own, or the one that the proxies wrote last.      *)
LEMMA RealIPKeeps ==
    ASSUME Inv, NEW claim \in Claims, NEW other \in Addrs \cup {None},
           TrustedRealIP(claim, other)
    PROVE  Inv'
  <1> DEFINE ip == extractForwardedIP(claim \o Front(req.path), other)
             m  == IF IPInRanges(PeerIP) /\ ip # None THEN ip ELSE req.remote
  <1>1. req.at = "TrustedRealIP" /\ req.at # "idle" /\ cfg' = cfg
    BY DEF TrustedRealIP
  <1>2. /\ req \in Request /\ req.path \in Paths /\ req.remote = Last(req.path)
        /\ req.orig = Last(req.path) /\ "cors" \in Stages
        /\ req.remote \in Addrs \cup {None} /\ req.orig \in Addrs \cup {None}
    BY <1>1, Running, RequestIs DEF Inv, PeerInv, Stages
  <1>3. ip \in Addrs \cup {None}
    BY <1>2, ForwardedTyped
  <1>4. Last(req.path) \in Addrs /\ Last(req.path) # None
    BY <1>2, PathFacts
  <1>5. PeerIP = Last(req.path)
    BY <1>2, <1>4 DEF PeerIP
  <1>6. req' = [req EXCEPT !.at = "cors", !.remote = m]
    BY <1>1, AfterStages DEF TrustedRealIP
  <1>7. LastUntrusted(req.path) # 0 => m = req.path[LastUntrusted(req.path)]
    <2>1. SUFFICES ASSUME LastUntrusted(req.path) # 0
                   PROVE  m = req.path[LastUntrusted(req.path)]
      OBVIOUS
    <2>2. /\ LastUntrusted(req.path) \in 1..Len(req.path)
          /\ ~IPInRanges(req.path[LastUntrusted(req.path)])
          /\ \A i \in 1..Len(req.path) : ~IPInRanges(req.path[i]) => i <= LastUntrusted(req.path)
      BY <1>2, <2>1, LastUntrustedIs
    <2>3. CASE IPInRanges(Last(req.path))
      <3>1. ip = req.path[LastUntrusted(req.path)]
        BY <1>2, <2>1, <2>3, ForwardedIsSender
      <3>2. ip # None
        BY <1>2, <2>2, <3>1, PathFacts
      <3> HIDE DEF ip
      <3> QED BY <1>5, <2>3, <3>1, <3>2
    <2>4. CASE ~IPInRanges(Last(req.path))
      <3>1. Len(req.path) \in Nat \ {0} /\ Last(req.path) = req.path[Len(req.path)]
        BY <1>2, PathFacts
      <3>2. LastUntrusted(req.path) = Len(req.path)
        BY <2>2, <2>4, <3>1
      <3> HIDE DEF ip
      <3> QED BY <1>2, <1>5, <2>4, <3>1, <3>2
    <2> QED BY <2>3, <2>4
  <1> HIDE DEF ip
  <1>8. m \in Addrs \cup {None}
    BY <1>2, <1>3
  <1> HIDE DEF m
  <1>9. /\ Kept /\ req' \in Request /\ req'.at = "cors"
        /\ req'.orig = req.orig /\ req'.remote = m /\ req'.id = req.id
        /\ req'.route = req.route /\ req'.source = req.source /\ req'.answer = req.answer
    BY ZenonT(40), <1>1, <1>2, <1>6, <1>8, AddressOutcome
  <1>10. TypeOK' /\ ConfigInv'
    BY <1>1, <1>9, TypesKept
  <1>11. PeerInv'
    BY <1>2, <1>9 DEF PeerInv, Kept
  <1>12. ChargedInv'
    <2>1. LastUntrusted(req.path)' = LastUntrusted(req.path) /\ req'.path = req.path
      BY <1>9, TrustKept DEF Kept
    <2> QED BY <1>7, <1>9, <2>1 DEF ChargedInv
  <1>13. BrowserInv' /\ IdentityVouched'
    BY <1>9, BrowserKept, VouchedKept
  <1>14. AnswerInv' /\ RouteInv' /\ RedirectedOnce' /\ SourceIsSafe'
    BY <1>1, <1>9 DEF Inv, AnswerInv, RouteInv, RedirectedOnce, SourceIsSafe
  <1> QED BY <1>10, <1>11, <1>12, <1>13, <1>14 DEF Inv

(* A request that is inside was not the preflight of an extension, unless  *)
(* cors has still to look at it.                                           *)
LEMMA NoPreflight ==
    ASSUME Inv, req.at \in Inside, req.at # "cors"
    PROVE  ~(req.preflight /\ req.origin = Extension)
  BY DEF Inv, BrowserInv, Inside

LEMMA PassKeeps ==
    ASSUME Inv, cfg' = cfg, Pass, ~(req.preflight /\ req.origin = Extension),
           req.at \in {"cors", "DomainRedirect", "tailscale", "proxyAuth", "oidc", "anonymous"}
    PROVE  Inv'
  <1> DEFINE x == After(req.at)
  <1>1. /\ x \in {"DomainRedirect", "tailscale", "proxyAuth", "oidc", "anonymous", "route"}
        /\ x \in Inside /\ req.at \in Inside /\ req.at # "idle"
    BY AfterStages DEF Inside
  <1>2. req' = [req EXCEPT !.at = x]
    BY DEF Pass
  <1> HIDE DEF x
  <1>3. req'.at = x
    BY <1>1, <1>2, Running DEF Request
  <1>4. RouteInv'
    BY <1>1, <1>3 DEF RouteInv
  <1> QED BY <1>1, <1>2, <1>4, MoveKeeps

LEMMA IdentifyKeeps ==
    ASSUME Inv, cfg' = cfg, NEW d \in Identity,
           req.at \in {"tailscale", "proxyAuth", "oidc", "anonymous"},
           req' = [req EXCEPT !.at = After(@), !.id = d],
           d.source \in {"tailscale", "proxy"} => IPInRanges(Last(req.path)),
           d.source = "oidc" => cfg.jwtSecret \notin Short
    PROVE  Inv'
  <1> DEFINE x == After(req.at)
  <1>1. /\ x \in {"proxyAuth", "oidc", "anonymous", "route"}
        /\ x \in Inside /\ x \in Stages /\ x # "answered"
        /\ req.at \in Inside /\ req.at # "idle" /\ req.at # "cors" /\ req.at # "answered"
    BY AfterStages DEF Inside, Stages
  <1>2. req' = [req EXCEPT !.at = x, !.id = d] /\ req \in Request
    BY <1>1, Running
  <1> HIDE DEF x
  <1>3. /\ Kept /\ req' \in Request /\ req'.at = x /\ req'.id = d
        /\ req'.orig = req.orig /\ req'.remote = req.remote
        /\ req'.route = req.route /\ req'.source = req.source /\ req'.answer = req.answer
    BY <1>1, <1>2, IdentityOutcome
  <1>4. TypeOK' /\ ConfigInv'
    BY <1>1, <1>3, TypesKept
  <1>5. PeerInv' /\ ChargedInv'
    BY <1>1, <1>3, PeerKept
  <1>6. BrowserInv'
    BY <1>1, <1>3, NoPreflight, BrowserKept
  <1>7. AnswerInv' /\ RouteInv' /\ RedirectedOnce' /\ SourceIsSafe'
    BY <1>1, <1>3 DEF Inv, AnswerInv, RouteInv, RedirectedOnce, SourceIsSafe
  <1>8. IPInRanges(Last(req.path))' <=> IPInRanges(Last(req.path))
    BY <1>3 DEF Kept, IPInRanges, TrustedProxyNets
  <1>9. IdentityVouched'
    BY <1>3, <1>8 DEF IdentityVouched
  <1> QED BY <1>4, <1>5, <1>6, <1>7, <1>9 DEF Inv

LEMMA CorsKeeps == Inv /\ corsMiddleware => Inv'
  <1>1. SUFFICES ASSUME Inv, corsMiddleware PROVE Inv'
    OBVIOUS
  <1> USE <1>1
  <1>2. req.at = "cors" /\ req.at \in Inside /\ cfg' = cfg /\ req.at # "idle"
    BY DEF corsMiddleware, Inside
  <1>3. CASE req.origin = Extension /\ req.preflight
    <2>1. Answer("204") /\ "204" \in Status
      BY <1>3 DEF corsMiddleware, IsExtensionOrigin, Status
    <2>2. req.source \in Sources \cup {None}
      BY <1>2, Running, RequestIs
    <2>3. req.source # None => req.source.name \notin dangerousSchemes
      BY DEF Inv, SourceIsSafe
    <2> QED BY <1>2, <1>3, <2>1, <2>2, <2>3, SettleKeeps
  <1>4. CASE ~(req.origin = Extension /\ req.preflight)
    <2>1. Pass
      BY <1>4 DEF corsMiddleware, IsExtensionOrigin
    <2> QED BY <1>2, <1>4, <2>1, PassKeeps
  <1> QED BY <1>3, <1>4

(* An answer of a stage that is past cors.                                 *)
LEMMA RefuseKeeps ==
    ASSUME Inv, cfg' = cfg, req.at \in Inside, req.at # "cors", NEW a \in Status, Answer(a),
           a # "204",
           a = "301" => cfg.canonical # None /\ (SchemeKnown /\ CanonicalAsBrowsed => req.hops = 0),
           a = "no header" => ~req.header,
           a = "bad origin" => req.origin # Extension
    PROVE  Inv'
  <1>1. req.at # "idle"
    BY DEF Inside
  <1>2. req.source \in Sources \cup {None}
    BY <1>1, Running, RequestIs
  <1>3. req.source # None => req.source.name \notin dangerousSchemes
    BY DEF Inv, SourceIsSafe
  <1> QED BY <1>2, <1>3, NoPreflight, SettleKeeps

LEMMA PeerIs ==
    ASSUME Inv, req.at \in Inside
    PROVE  PeerIP = Last(req.path)
  <1>1. req.at # "idle" /\ req.at # "PreserveRemoteAddr"
    BY DEF Inside
  <1>2. req.path \in Paths /\ req.orig = Last(req.path)
    BY <1>1, Running, RequestIs DEF Inv, PeerInv
  <1> QED BY <1>2, PathFacts DEF PeerIP

(* A browser that was redirected is on the canonical address.              *)
LEMMA RedirectKeeps ==
    ASSUME Inv, NEW noRedirect \in BOOLEAN, DomainRedirect(noRedirect)
    PROVE  Inv'
  <1>1. /\ req.at = "DomainRedirect" /\ req.at \in Inside /\ req.at # "cors" /\ cfg' = cfg
        /\ req.at # "idle"
    BY DEF DomainRedirect, Inside
  <1>2. CASE RedirectToCanonical(noRedirect)
    <2>1. Answer("301") /\ "301" \in Status
      BY <1>2 DEF DomainRedirect, Status
    <2>2. cfg.canonical # None
      BY <1>2 DEF RedirectToCanonical
    <2>3. SchemeKnown /\ CanonicalAsBrowsed => req.hops = 0
      <3>1. SUFFICES ASSUME SchemeKnown, CanonicalAsBrowsed, req.hops # 0 PROVE FALSE
        OBVIOUS
      <3>2. req.hops \in 0..MaxHops
        BY <1>1, Running, RequestIs
      <3>3. req.hops > 0
        BY <3>1, <3>2, HopsAssumption
      <3>4. req.url.scheme = cfg.canonical.scheme /\ req.url.host = cfg.canonical.host
        BY <3>1, <3>3 DEF Inv, BrowserInv, CanonicalAsBrowsed, Canonical
      <3>5. PeerIP = Last(req.path)
        BY <1>1, PeerIs
      <3>6. reqScheme = req.url.scheme
        BY <3>1, <3>5 DEF reqScheme, SchemeKnown
      <3> QED BY <1>2, <3>4, <3>6 DEF RedirectToCanonical
    <2> QED BY <1>1, <2>1, <2>2, <2>3, RefuseKeeps
  <1>3. CASE ~RedirectToCanonical(noRedirect)
    <2>1. Pass
      BY <1>3 DEF DomainRedirect
    <2> QED BY <1>1, <2>1, NoPreflight, PassKeeps
  <1> QED BY <1>2, <1>3

(* Where a provider is on, some proxy is trusted.                          *)
LEMMA ProxiesTrusted ==
    ASSUME Inv, cfg # None, cfg.tailscale \/ cfg.proxyAuth
    PROVE  TrustedProxyNets # {}
  <1>1. /\ cfg.trustedProxy # {}
        /\ \A n \in cfg.trustedProxy : n # {}
    BY DEF Inv, ConfigInv, Sound
  <1> QED BY <1>1 DEF TrustedProxyNets

LEMMA IdentityIs ==
    ASSUME NEW e \in Emails \cup {"anonymous@localhost"}, NEW g \in SUBSET Groups,
           NEW s \in {"tailscale", "proxy", "oidc", "anonymous"}, NEW b, b \in BOOLEAN
    PROVE  /\ [email |-> e, groups |-> g, source |-> s, isAdmin |-> b] \in Identity
           /\ [email |-> e, groups |-> g, source |-> s, isAdmin |-> b].source = s
  BY DEF Identity

LEMMA TailscaleKeeps ==
    ASSUME Inv, NEW login \in Emails \cup {None}, TailscaleMiddleware(login)
    PROVE  Inv'
  <1>1. /\ req.at = "tailscale" /\ req.at \in Inside /\ req.at # "cors" /\ cfg' = cfg
        /\ req.at # "idle"
    BY DEF TailscaleMiddleware, Inside
  <1>2. CASE cfg.tailscale /\ login # None /\ (TrustedProxyNets # {} => IPInRanges(PeerIP))
    <2> DEFINE b == isAdmin(login, {})
               d == [email |-> login, groups |-> {}, source |-> "tailscale", isAdmin |-> b]
    <2>1. req' = [req EXCEPT !.at = After(@), !.id = d]
      BY <1>2 DEF TailscaleMiddleware, Identify
    <2>2. b \in BOOLEAN
      BY DEF isAdmin
    <2> HIDE DEF b
    <2>3. d \in Identity /\ d.source = "tailscale"
      BY <1>2, <2>2, IdentityIs
    <2> HIDE DEF d
    <2>4. IPInRanges(Last(req.path))
      BY <1>1, <1>2, Running, ProxiesTrusted, PeerIs
    <2> QED BY <1>1, <2>1, <2>3, <2>4, IdentifyKeeps
  <1>3. CASE ~(cfg.tailscale /\ login # None /\ (TrustedProxyNets # {} => IPInRanges(PeerIP)))
    <2>1. Pass
      BY <1>3 DEF TailscaleMiddleware
    <2> QED BY <1>1, <2>1, NoPreflight, PassKeeps
  <1> QED BY <1>2, <1>3

LEMMA ProxyAuthKeeps ==
    ASSUME Inv, NEW email \in Emails \cup {None}, NEW groups \in SUBSET Groups,
           ProxyAuthMiddleware(email, groups)
    PROVE  Inv'
  <1>1. /\ req.at = "proxyAuth" /\ req.at \in Inside /\ req.at # "cors" /\ cfg' = cfg
    BY DEF ProxyAuthMiddleware, Inside
  <1>2. CASE cfg.proxyAuth /\ req.id = None /\ IPInRanges(PeerIP) /\ email # None
    <2> DEFINE b == isAdmin(email, groups)
               d == [email |-> email, groups |-> groups, source |-> "proxy", isAdmin |-> b]
    <2>1. req' = [req EXCEPT !.at = After(@), !.id = d]
      BY <1>2 DEF ProxyAuthMiddleware, Identify
    <2>2. b \in BOOLEAN
      BY DEF isAdmin
    <2> HIDE DEF b
    <2>3. d \in Identity /\ d.source = "proxy"
      BY <1>2, <2>2, IdentityIs
    <2> HIDE DEF d
    <2>4. IPInRanges(Last(req.path))
      BY <1>1, <1>2, PeerIs
    <2> QED BY <1>1, <2>1, <2>3, <2>4, IdentifyKeeps
  <1>3. CASE ~(cfg.proxyAuth /\ req.id = None /\ IPInRanges(PeerIP) /\ email # None)
    <2>1. Pass
      BY <1>3 DEF ProxyAuthMiddleware
    <2> QED BY <1>1, <2>1, NoPreflight, PassKeeps
  <1> QED BY <1>2, <1>3

LEMMA OIDCKeeps ==
    ASSUME Inv, NEW secret \in Secrets, NEW email \in Emails, NEW groups \in SUBSET Groups,
           OIDCMiddleware(secret, email, groups)
    PROVE  Inv'
  <1>1. /\ req.at = "oidc" /\ req.at \in Inside /\ req.at # "cors" /\ cfg' = cfg
        /\ req.at # "idle"
    BY DEF OIDCMiddleware, Inside
  <1>2. CASE cfg.oidc /\ req.id = None /\ secret = cfg.jwtSecret
    <2> DEFINE b == isAdmin(email, groups)
               d == [email |-> email, groups |-> groups, source |-> "oidc", isAdmin |-> b]
    <2>1. req' = [req EXCEPT !.at = After(@), !.id = d]
      BY <1>2 DEF OIDCMiddleware, Identify
    <2>2. b \in BOOLEAN
      BY DEF isAdmin
    <2> HIDE DEF b
    <2>3. d \in Identity /\ d.source = "oidc"
      BY <2>2, IdentityIs
    <2> HIDE DEF d
    <2>4. cfg.jwtSecret \notin Short
      BY <1>1, <1>2, Running DEF Sound
    <2> QED BY <1>1, <2>1, <2>3, <2>4, IdentifyKeeps
  <1>3. CASE ~(cfg.oidc /\ req.id = None /\ secret = cfg.jwtSecret)
    <2>1. Pass
      BY <1>3 DEF OIDCMiddleware
    <2> QED BY <1>1, <2>1, NoPreflight, PassKeeps
  <1> QED BY <1>2, <1>3

LEMMA AnonymousKeeps == Inv /\ AnonymousMiddleware => Inv'
  <1>1. SUFFICES ASSUME Inv, AnonymousMiddleware PROVE Inv'
    OBVIOUS
  <1> USE <1>1
  <1>2. /\ req.at = "anonymous" /\ req.at \in Inside /\ req.at # "cors" /\ cfg' = cfg
        /\ req.at # "idle"
    BY DEF AnonymousMiddleware, Inside
  <1>3. CASE cfg.anonymous /\ req.id = None
    <2> DEFINE b == cfg.anonymousAdmin
               d == [email |-> "anonymous@localhost", groups |-> {}, source |-> "anonymous",
                     isAdmin |-> b]
    <2>1. req' = [req EXCEPT !.at = After(@), !.id = d]
      BY <1>3 DEF AnonymousMiddleware
    <2>2. b \in BOOLEAN
      BY <1>2, Running DEF Sound
    <2> HIDE DEF b
    <2>3. d \in Identity /\ d.source = "anonymous"
      BY <2>2, IdentityIs
    <2> HIDE DEF d
    <2> QED BY <1>2, <2>1, <2>3, IdentifyKeeps
  <1>4. CASE ~(cfg.anonymous /\ req.id = None)
    <2>1. Pass
      BY <1>4 DEF AnonymousMiddleware
    <2> QED BY <1>2, <2>1, NoPreflight, PassKeeps
  <1> QED BY <1>3, <1>4

-----------------------------------------------------------------------------
(* The routes. *)

(* Only the groups admin and auth have routes that change something.       *)
LEMMA RouteFacts ==
    ASSUME NEW rt \in Routes
    PROVE  /\ rt.group \in {"open", "oidc", "admin", "view", "auth"}
           /\ rt.group \in {"open", "oidc", "view"} => rt.method = "GET"
  BY DEF Routes

LEMMA RouteKeeps ==
    ASSUME Inv, NEW rt \in Routes, Route(rt)
    PROVE  Inv'
  <1> DEFINE x == CASE rt.group \in {"open", "oidc"} -> "handler"
                    [] rt.group = "admin"            -> "admin"
                    [] rt.group = "view"             -> "limit"
                    [] rt.group = "auth"             -> "auth"
  <1>1. /\ req.at = "route" /\ req.at \in Inside /\ req.at # "cors" /\ cfg' = cfg
        /\ req.at # "idle" /\ ~req.preflight /\ rt.method = req.method
    BY DEF Route, Inside
  <1>2. req' = [req EXCEPT !.route = rt, !.at = x]
    BY DEF Route
  <1>3. /\ x \in {"handler", "admin", "limit", "auth"}
        /\ x = "handler" => rt.group \in {"open", "oidc"}
        /\ x = "limit" => rt.group = "view"
        /\ x = "auth" => rt.group = "auth"
    BY RouteFacts
  <1>4. x \in Inside /\ x \in Stages /\ x # "answered"
    BY <1>3 DEF Inside, Stages
  <1> HIDE DEF x
  <1>5. /\ Kept /\ req' \in Request /\ req'.at = x /\ req'.route = rt
        /\ req'.orig = req.orig /\ req'.remote = req.remote /\ req'.id = req.id
        /\ req'.source = req.source /\ req'.answer = req.answer
    BY <1>1, <1>2, <1>4, Running, RouteOutcome
  <1>6. TypeOK' /\ ConfigInv'
    BY <1>1, <1>5, TypesKept
  <1>7. PeerInv' /\ ChargedInv'
    BY <1>1, <1>4, <1>5, PeerKept
  <1>8. BrowserInv' /\ IdentityVouched'
    BY <1>1, <1>5, BrowserKept, VouchedKept
  <1>9. AnswerInv' /\ RedirectedOnce' /\ SourceIsSafe'
    BY <1>1, <1>4, <1>5 DEF Inv, AnswerInv, RedirectedOnce, SourceIsSafe
  <1>10. RouteInv'
    BY <1>1, <1>3, <1>5, RouteFacts DEF RouteInv, Kept
  <1> QED BY <1>6, <1>7, <1>8, <1>9, <1>10 DEF Inv

(* To the next check of a route, when it may rely on what it needs.        *)
LEMMA ToKeeps ==
    ASSUME Inv, cfg' = cfg, NEW x \in {"limit", "auth", "mutation", "origin", "handler"},
           To(x), req.at \in {"admin", "limit", "auth", "mutation", "origin"},
           x = "limit" => req.route.group = "view",
           x = "auth" => req.route.group \in {"view", "auth"},
           x = "mutation" => req.id # None,
           x \in {"origin", "handler"} /\ req.method # "GET" => req.id # None /\ req.header
    PROVE  Inv'
  <1>1. /\ x \in Inside /\ req.at \in Inside /\ req.at # "cors" /\ req.at # "idle"
        /\ x \in Stages
    BY DEF Inside, Stages
  <1>2. req' = [req EXCEPT !.at = x] /\ req \in Request
    BY <1>1, Running DEF To
  <1>3. Kept /\ req'.at = x /\ req'.id = req.id /\ req'.route = req.route
    BY <1>1, <1>2, MoveOutcome
  <1>4. ~req.preflight /\ req.route \in Routes /\ req.route.method = req.method
    BY DEF Inv, RouteInv
  <1>5. RouteInv'
    BY <1>3, <1>4 DEF RouteInv, Kept
  <1> QED BY <1>1, <1>2, <1>5, NoPreflight, MoveKeeps

LEMMA NotFoundKeeps == Inv /\ NotFound => Inv'
  <1>1. SUFFICES ASSUME Inv, NotFound PROVE Inv'
    OBVIOUS
  <1>2. /\ req.at \in Inside /\ req.at # "cors" /\ cfg' = cfg /\ Answer("404")
        /\ "404" \in Status
    BY <1>1 DEF NotFound, Inside, Status
  <1> QED BY <1>1, <1>2, RefuseKeeps

(* A plain refusal of a check. *)
LEMMA DenyKeeps ==
    ASSUME Inv, cfg' = cfg, req.at \in {"admin", "limit", "auth"},
           NEW a \in {"401", "403", "429", "login"}, Answer(a)
    PROVE  Inv'
  <1>1. req.at \in Inside /\ req.at # "cors" /\ a \in Status
    BY DEF Inside, Status
  <1> QED BY <1>1, RefuseKeeps

LEMMA AdminKeeps ==
    ASSUME Inv, NEW json \in BOOLEAN, RequireAdmin(json)
    PROVE  Inv'
  <1>1. req.at = "admin" /\ cfg' = cfg
    BY DEF RequireAdmin
  <1>2. CASE req.id # None /\ req.id.isAdmin
    <2>1. To("mutation")
      BY <1>2 DEF RequireAdmin
    <2> QED BY <1>1, <1>2, <2>1, ToKeeps
  <1>3. CASE ~(req.id # None /\ req.id.isAdmin)
    <2>1. \E a \in {"login", "403"} : Answer(a)
      BY <1>3 DEF RequireAdmin
    <2> QED BY <1>1, <2>1, DenyKeeps
  <1> QED BY <1>2, <1>3

LEMMA LimitKeeps ==
    ASSUME Inv, NEW allowed \in BOOLEAN, Limit(allowed)
    PROVE  Inv'
  <1>1. req.at = "limit" /\ cfg' = cfg
    BY DEF Limit
  <1>2. /\ req.route.group = "view" /\ req.route \in Routes
        /\ req.route.method = req.method
    BY <1>1 DEF Inv, RouteInv
  <1>3. req.method = "GET"
    BY <1>2, RouteFacts
  <1>4. Answer("429") \/ To("auth") \/ To("handler")
    BY DEF Limit
  <1> QED BY <1>1, <1>2, <1>3, <1>4, ToKeeps, DenyKeeps

LEMMA AuthKeeps ==
    ASSUME Inv, NEW json \in BOOLEAN, RequireAuth(json)
    PROVE  Inv'
  <1>1. req.at = "auth" /\ cfg' = cfg
    BY DEF RequireAuth
  <1>2. req.route \in Routes /\ req.route.method = req.method
    BY <1>1 DEF Inv, RouteInv
  <1>3. CASE req.id # None /\ req.route.group = "view"
    <2>1. To("handler")
      BY <1>3 DEF RequireAuth
    <2>2. req.method = "GET"
      BY <1>2, <1>3, RouteFacts
    <2> QED BY <1>1, <2>1, <2>2, ToKeeps
  <1>4. CASE req.id # None /\ req.route.group # "view"
    <2>1. To("mutation")
      BY <1>4 DEF RequireAuth
    <2> QED BY <1>1, <1>4, <2>1, ToKeeps
  <1>5. CASE req.id = None
    <2>1. \E a \in {"401", "login", "403"} : Answer(a)
      BY <1>5 DEF RequireAuth
    <2> QED BY <1>1, <2>1, DenyKeeps
  <1> QED BY <1>3, <1>4, <1>5

LEMMA MutationKeeps == Inv /\ RequireMutationHeader => Inv'
  <1>1. SUFFICES ASSUME Inv, RequireMutationHeader PROVE Inv'
    OBVIOUS
  <1> USE <1>1
  <1>2. req.at = "mutation" /\ cfg' = cfg
    BY DEF RequireMutationHeader
  <1>3. req.id # None
    BY <1>2 DEF Inv, RouteInv
  <1>4. CASE req.method = "GET" \/ req.header
    <2>1. To("origin") \/ To("handler")
      BY <1>4 DEF RequireMutationHeader, AfterMutation
    <2> QED BY <1>2, <1>3, <1>4, <2>1, ToKeeps
  <1>5. CASE ~(req.method = "GET" \/ req.header)
    <2>1. Answer("no header") /\ "no header" \in Status
      BY <1>5 DEF RequireMutationHeader, Status
    <2>2. req.at \in Inside /\ req.at # "cors"
      BY <1>2 DEF Inside
    <2> QED BY <1>2, <1>5, <2>1, <2>2, RefuseKeeps
  <1> QED BY <1>4, <1>5

LEMMA OriginKeeps == Inv /\ RequireSameOriginOrExtension => Inv'
  <1>1. SUFFICES ASSUME Inv, RequireSameOriginOrExtension PROVE Inv'
    OBVIOUS
  <1> USE <1>1
  <1>2. req.at = "origin" /\ cfg' = cfg
    BY DEF RequireSameOriginOrExtension
  <1>3. req.method # "GET" => req.id # None /\ req.header
    BY <1>2 DEF Inv, RouteInv
  <1>4. \/ To("handler")
        \/ Answer("bad origin") /\ req.origin # Extension
    BY DEF RequireSameOriginOrExtension, IsExtensionOrigin
  <1>5. req.at \in Inside /\ req.at # "cors" /\ "bad origin" \in Status
    BY <1>2 DEF Inside, Status
  <1> QED BY <1>2, <1>3, <1>4, <1>5, ToKeeps, RefuseKeeps

(* The allowed schemes are not dangerous, and spelling is not looked at.   *)
LEMMA SourceKeeps ==
    ASSUME Inv, NEW s \in Sources \cup {None}, HandleSource(s)
    PROVE  Inv'
  <1>1. /\ req.at = "handler" /\ cfg' = cfg /\ req.at \in Inside /\ req.at # "cors"
        /\ req.at # "idle"
    BY DEF HandleSource, Inside
  <1>2. "ok" \in Status /\ "400" \in Status
    BY DEF Status
  <1>3. CASE parseSourceURL(s)
    <2>1. req' = [req EXCEPT !.at = "answered", !.answer = "ok", !.source = s]
      BY <1>3 DEF HandleSource
    <2>2. s # None => s.name \notin dangerousSchemes
      <3>1. SUFFICES ASSUME s # None PROVE s.name \notin dangerousSchemes
        OBVIOUS
      <3>2. Normalized(s) \in cfg.schemes
        BY <1>3, <3>1 DEF parseSourceURL
      <3>3. Normalized(s).name \notin dangerousSchemes
        BY <1>1, <3>2, Running DEF Sound
      <3>4. s \in SourceScheme
        BY <3>1, SourcesAssumption
      <3>5. Normalized(s).name = s.name
        BY <3>4 DEF Normalized, SourceScheme
      <3> QED BY <3>3, <3>5
    <2> QED BY <1>1, <1>2, <2>1, <2>2, NoPreflight, SettleKeeps
  <1>4. CASE ~parseSourceURL(s)
    <2>1. Answer("ok") \/ Answer("400")
      BY <1>4 DEF HandleSource
    <2> QED BY <1>1, <1>2, <2>1, RefuseKeeps
  <1> QED BY <1>3, <1>4

LEMMA HandleKeeps == Inv /\ Handle => Inv'
  <1>1. SUFFICES ASSUME Inv, Handle PROVE Inv'
    OBVIOUS
  <1>2. /\ req.at \in Inside /\ req.at # "cors" /\ cfg' = cfg /\ Answer("ok")
        /\ "ok" \in Status
    BY <1>1 DEF Handle, Inside, Status
  <1> QED BY <1>1, <1>2, RefuseKeeps

-----------------------------------------------------------------------------

LEMMA NextInv == Inv /\ [Next]_vars => Inv'
  <1>1. SUFFICES ASSUME Inv, [Next]_vars PROVE Inv'
    OBVIOUS
  <1> USE <1>1
  <1>2. CASE Start \/ Stop \/ End
    BY <1>2, ProcessKeeps
  <1>3. CASE Send \/ SendPreflighted
    BY <1>3, SendKeeps, SendPreflightedKeeps
  <1>4. CASE \E path \in Paths, reports \in BOOLEAN : Follow(path, reports)
    BY <1>4, FollowKeeps
  <1>5. CASE PreserveRemoteAddr \/ corsMiddleware \/ AnonymousMiddleware
    BY <1>5, PreserveKeeps, CorsKeeps, AnonymousKeeps
  <1>6. CASE \E claim \in Claims, other \in Addrs \cup {None} : TrustedRealIP(claim, other)
    BY <1>6, RealIPKeeps
  <1>7. CASE \E noRedirect \in BOOLEAN : DomainRedirect(noRedirect)
    BY <1>7, RedirectKeeps
  <1>8. CASE \E login \in Emails \cup {None} : TailscaleMiddleware(login)
    BY <1>8, TailscaleKeeps
  <1>9. CASE \E email \in Emails \cup {None}, groups \in SUBSET Groups :
               ProxyAuthMiddleware(email, groups)
    BY <1>9, ProxyAuthKeeps
  <1>10. CASE \E secret \in Secrets, email \in Emails, groups \in SUBSET Groups :
                OIDCMiddleware(secret, email, groups)
    BY <1>10, OIDCKeeps
  <1>11. CASE \E rt \in Routes : Route(rt)
    BY <1>11, RouteKeeps
  <1>12. CASE NotFound \/ RequireMutationHeader \/ RequireSameOriginOrExtension \/ Handle
    BY <1>12, NotFoundKeeps, MutationKeeps, OriginKeeps, HandleKeeps
  <1>13. CASE \E json \in BOOLEAN : RequireAdmin(json) \/ RequireAuth(json)
    BY <1>13, AdminKeeps, AuthKeeps
  <1>14. CASE \E allowed \in BOOLEAN : Limit(allowed)
    BY <1>14, LimitKeeps
  <1>15. CASE \E s \in Sources \cup {None} : HandleSource(s)
    BY <1>15, SourceKeeps
  <1>16. CASE UNCHANGED vars
    <2>1. cfg' = cfg /\ req' = req
      BY <1>16 DEF vars
    <2>2. Kept
      BY <2>1 DEF Kept
    <2>3. /\ LastUntrusted(req.path)' = LastUntrusted(req.path)
          /\ SchemeKnown' <=> SchemeKnown
          /\ CanonicalAsBrowsed' <=> CanonicalAsBrowsed
      BY <2>2, TrustKept
    <2>4. TypeOK' /\ ConfigInv' /\ PeerInv' /\ AnswerInv' /\ RouteInv' /\ SourceIsSafe'
      <3>1. TypeOK'
        BY <2>1 DEF Inv, TypeOK
      <3>2. ConfigInv'
        BY <2>1 DEF Inv, ConfigInv, Sound
      <3>3. PeerInv' /\ AnswerInv'
        BY <2>1 DEF Inv, PeerInv, AnswerInv
      <3>4. RouteInv' /\ SourceIsSafe'
        BY <2>1 DEF Inv, RouteInv, SourceIsSafe
      <3> QED BY <3>1, <3>2, <3>3, <3>4
    <2>5. ChargedInv' /\ RedirectedOnce'
      BY <2>1, <2>3 DEF Inv, ChargedInv, RedirectedOnce
    <2>6. BrowserInv'
      BY <2>1 DEF Inv, BrowserInv, Preflighted, CrossOrigin, Canonical, Browsed
    <2>7. IdentityVouched'
      BY <2>1, <2>2, VouchedKept
    <2> QED BY <2>4, <2>5, <2>6, <2>7 DEF Inv
  <1> QED BY <1>2, <1>3, <1>4, <1>5, <1>6, <1>7, <1>8, <1>9, <1>10, <1>11, <1>12, <1>13,
             <1>14, <1>15, <1>16, Zenon DEF Next

LEMMA Invariant == Spec => []Inv
  BY InitInv, NextInv, PTL DEF Spec

(* Every request is well typed, and so is the configuration it meets:      *)
(* TrustedProxyNets never comes upon a CIDR that does not parse, and the   *)
(* schemes are spelled as parseSourceURL compares them, whatever file the  *)
(* process was started with.                                               *)
THEOREM AccessTypes == Spec => []TypeOK
  <1>1. Inv => TypeOK
    BY DEF Inv
  <1> QED BY <1>1, Invariant, PTL

(* Nobody is taken for someone that no trusted proxy and no session        *)
(* vouched for: the providers look at the peer that PreserveRemoteAddr     *)
(* kept, TailscaleMiddleware only ever runs with a proxy to trust, and     *)
(* sessions are signed with a secret that validate saw resolved.           *)
THEOREM IdentitiesVouched == Spec => []IdentityVouched
  <1>1. Inv => IdentityVouched
    BY DEF Inv
  <1> QED BY <1>1, Invariant, PTL

(* However many proxies there are and whatever a client claims in its      *)
(* headers, the limiter charges the nearest address on the request's way   *)
(* that is not a trusted proxy's (TrustedRealIP, extractForwardedIP).      *)
THEOREM SendersCharged == Spec => []ChargedToSender
  <1>1. Inv => ChargedToSender
    BY DEF Inv, ChargedInv, LastUntrusted, ChargedToSender
  <1> QED BY <1>1, Invariant, PTL

(* A handler that changes something runs for someone that was identified,  *)
(* at the request of the server's own page, of an extension or of no page: *)
(* the groups of server.New leave no way around RequireMutationHeader, and *)
(* a page elsewhere cannot set the header without a preflight, which       *)
(* corsMiddleware grants to extensions only.                               *)
THEOREM ChangesAsked == Spec => []ChangesAreAsked
  <1>1. Inv => ChangesAreAsked
    <2>1. SUFFICES ASSUME Inv, req.at = "handler", req.method # "GET"
                   PROVE  req.id # None /\ req.origin \in {None, Extension, req.url}
      BY DEF ChangesAreAsked
    <2>2. req.id # None /\ req.header /\ ~req.preflight
      BY <2>1 DEF Inv, RouteInv
    <2>3. Preflighted(req) => req.origin = Extension
      BY <2>1, <2>2 DEF Inv, BrowserInv
    <2> QED BY <2>2, <2>3 DEF Preflighted, CrossOrigin
  <1> QED BY <1>1, Invariant, PTL

(* The preflight of an extension is granted on every address of the server *)
(* and neither RequireMutationHeader nor RequireSameOriginOrExtension      *)
(* turns its upload down, because corsMiddleware comes before              *)
(* DomainRedirect.                                                         *)
THEOREM ExtensionsMayUpload == Spec => []ExtensionMayUpload
  <1>1. Inv => ExtensionMayUpload
    BY DEF Inv, BrowserInv, AnswerInv, ExtensionMayUpload
  <1> QED BY <1>1, Invariant, PTL

(* RedirectToCanonical redirects a browser once at most, provided that the *)
(* server learns which scheme the browser used and that the canonical host *)
(* is written as browsers send it: then, and for any number of redirects a *)
(* browser would follow, the request it makes next is recognised.          *)
THEOREM RedirectsEnd == Spec => []RedirectedOnce
  <1>1. Inv => RedirectedOnce
    BY DEF Inv
  <1> QED BY <1>1, Invariant, PTL

(* No dangerous source URL gets past parseSourceURL, whatever schemes the  *)
(* file allows and however they are spelled: validate refuses them after   *)
(* it has normalised them.                                                 *)
THEOREM SourcesAreSafe == Spec => []SourceIsSafe
  <1>1. Inv => SourceIsSafe
    BY DEF Inv
  <1> QED BY <1>1, Invariant, PTL
=============================================================================
