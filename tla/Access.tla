------------------------------- MODULE Access -------------------------------
(***************************************************************************)
(* From the network to a handler: the process starts with a configuration, *)
(* and a request goes through the middleware in the order in which         *)
(* server.New installs it, then through the checks of its route.           *)
(*                                                                         *)
(* Nothing is shared by two requests but the configuration (the limiter is *)
(* module RateLimit), so one is looked at at a time. Around it are a       *)
(* browser, which preflights and follows redirects, and the proxies, each  *)
(* of which appends the address it was called from to X-Forwarded-For.     *)
(* A header that is read in one place only is chosen there.                *)
(***************************************************************************)
EXTENDS Config, Sequences, SequencesExt

CONSTANTS
    Files,      \* configuration files, as Config has them
    Paths,      \* sequences of addresses: the client, then the proxies
    Claims,     \* sequences of what a client can put in X-Forwarded-For
    Hosts, Elsewhere,   \* names of the server; the host of another site
    Spelled,    \* the host as a browser sends it, in lower case without a default port
    Emails, Groups, Secrets,
    Sources,    \* schemes of source URLs, as Config has them
    MaxHops     \* redirects that a browser follows

ASSUME HostsAssumption == Elsewhere \notin Hosts /\ Hosts # {}
ASSUME HopsAssumption  == MaxHops \in Nat

VARIABLES
    cfg,   \* the configuration of the process, None if none is running
    req    \* the request and where it is

vars == <<cfg, req>>

URLs    == [scheme : {"http", "https"}, host : Hosts]
Addrs   == UNION {{p[i] : i \in 1..Len(p)} : p \in Paths \cup Claims}

ASSUME SpelledAssumption == Spelled \in [URLs -> Hosts]

(* Connections come from addresses, which are well formed.                 *)
ASSUME PathsAssumption ==
    /\ Paths # {} /\ << >> \notin Paths /\ Paths \cup Claims \subseteq Seq(Addrs)
    /\ \A p \in Paths : \A i \in 1..Len(p) : p[i] # "malformed"
    /\ None \notin Addrs

(* What a file can say, before any of it is checked.                       *)
SourceScheme == [name : STRING, upper : BOOLEAN, padded : BOOLEAN]
Secret       == [value : STRING, env : STRING]
Address      == [scheme : STRING, host : Hosts \cup {""}, path : STRING]
File ==
    [undecoded : SUBSET STRING, canonical : Address \cup {None},
     trustedProxy : SUBSET SUBSET Addrs, adminEmails : SUBSET Emails,
     adminGroups : SUBSET Groups, schemes : SUBSET SourceScheme,
     tailscale : BOOLEAN, proxyAuth : BOOLEAN, oidc : BOOLEAN, anonymous : BOOLEAN,
     anonymousAdmin : BOOLEAN, requireAuthToView : BOOLEAN,
     clientSecret : Secret, jwtSecret : Secret, dsn : Secret,
     issuer : STRING, clientID : STRING, storagePath : STRING, driver : STRING,
     logLevel : STRING, ttl : Int, renewalDelay : Int, maxUploadMB : Int, idLength : Int,
     cols : Int, pageSize : Int]

ASSUME FilesAssumption   == Files \subseteq File
ASSUME SourcesAssumption == Sources \subseteq SourceScheme

(* Origin headers: of a page, of an extension, of a redirected request.    *)
Extension == [scheme |-> "extension", host |-> ""]
Null      == [scheme |-> "null", host |-> ""]
Origins   == URLs \cup {[scheme |-> "https", host |-> Elsewhere], Extension, Null, None}

(* The order of r.Use in server.New; logging and headers are left out.     *)
ChainRedirectFirst == <<"PreserveRemoteAddr", "TrustedRealIP", "DomainRedirect", "cors",
                        "tailscale", "proxyAuth", "oidc", "anonymous", "route">>

Chain == <<"PreserveRemoteAddr", "TrustedRealIP", "cors", "DomainRedirect",
           "tailscale", "proxyAuth", "oidc", "anonymous", "route">>

(* The routes that have a handler, by the group they are in.               *)
Routes ==
    {[name |-> n, method |-> "GET", group |-> "open"] : n \in {"home", "assets", "favicon"}}
    \cup {[name |-> "login", method |-> "GET", group |-> "oidc"]}
    \cup {[name |-> "users", method |-> "GET", group |-> "admin"],
          [name |-> "deleteUser", method |-> "DELETE", group |-> "admin"],
          [name |-> "reassign", method |-> "POST", group |-> "admin"]}
    \cup {[name |-> n, method |-> "GET", group |-> "view"] : n \in {"view", "image"}}
    \cup {[name |-> "upload", method |-> "POST", group |-> "auth"],
          [name |-> "annotate", method |-> "POST", group |-> "auth"],
          [name |-> "update", method |-> "PATCH", group |-> "auth"],
          [name |-> "delete", method |-> "DELETE", group |-> "auth"],
          [name |-> "thumb", method |-> "GET", group |-> "auth"]}

NoRoute  == [name |-> "none", method |-> "GET", group |-> "none"]
Identity == [email : Emails \cup {"anonymous@localhost"}, groups : SUBSET Groups,
             isAdmin : BOOLEAN, source : {"tailscale", "proxy", "oidc", "anonymous"}]

(* Answers that are told apart, "" before there is one.                    *)
Status == {"", "204", "301", "400", "401", "403", "404", "429", "login", "no header",
           "bad origin", "ok"}

(* A request: as it was sent, where it is, and what was found out of it.   *)
Request ==
    [at : ToSet(Chain) \cup {"idle", "admin", "limit", "auth", "mutation", "origin", "handler",
                             "answered"},
     method : {"GET", "POST", "PATCH", "DELETE"}, header : BOOLEAN, preflight : BOOLEAN,
     reports : BOOLEAN, url : URLs, origin : Origins, path : Paths, hops : 0..MaxHops,
     orig : Addrs \cup {None}, remote : Addrs \cup {None}, id : Identity \cup {None},
     route : Routes \cup {NoRoute}, source : Sources \cup {None},
     answer : Status]

(* Every CIDR was parsed: TrustedProxyNets does not panic.                 *)
TypeOK ==
    /\ cfg # None => /\ \A n \in cfg.trustedProxy : n # {} /\ n \subseteq Addrs
                     /\ cfg.schemes \subseteq [name : STRING, upper : {FALSE}, padded : {FALSE}]
    /\ req \in Request

Idle ==
    [at |-> "idle", method |-> "GET", header |-> FALSE, preflight |-> FALSE, reports |-> FALSE,
     url |-> CHOOSE u \in URLs : TRUE, origin |-> None, path |-> CHOOSE p \in Paths : TRUE,
     hops |-> 0, orig |-> None, remote |-> None, id |-> None, route |-> NoRoute,
     answer |-> "", source |-> None]

Init == cfg = None /\ req = Idle

-----------------------------------------------------------------------------
(* The process.                                                            *)

(* run: the configuration, then database, storage and identity provider.   *)
(* A start that fails ends the process.                                    *)
Start ==
    /\ cfg = None
    /\ \E f \in Files : Loads(f) /\ cfg' = Load(f)
    /\ UNCHANGED req

Stop ==
    /\ cfg # None
    /\ cfg' = None
    /\ req' = Idle

-----------------------------------------------------------------------------
(* The browser (external).                                                 *)

(* The address as the browser writes it in Host and Origin.                *)
Browsed(u) == [u EXCEPT !.host = Spelled[u]]

(* Pages of another origin ask first, unless the request is one that a     *)
(* form could make.                                                        *)
CrossOrigin(r) == r.origin \notin {None, r.url}
Preflighted(r) == CrossOrigin(r) /\ (r.header \/ r.method \in {"PATCH", "DELETE"})

(* The request as it gets to the server. Only proxies speak TLS.           *)
Arrive(r, path, reports) ==
    /\ Len(path) = 1 => r.url.scheme = "http" /\ ~reports
    /\ req' = [r EXCEPT !.at = Chain[1], !.preflight = Preflighted(r), !.path = path,
                        !.reports = reports, !.orig = None, !.remote = Last(path),
                        !.id = None, !.route = NoRoute, !.answer = "", !.source = None]

Send ==
    /\ cfg # None /\ req.at = "idle"
    /\ \E method \in {"GET", "POST", "PATCH", "DELETE"}, header \in BOOLEAN, url \in URLs,
          origin \in Origins \ {Null}, path \in Paths, reports \in BOOLEAN :
          /\ method = "GET" => ~header /\ origin = None
          /\ origin # None => url = Browsed(url)
          /\ origin \in URLs => origin = url
          /\ Arrive([Idle EXCEPT !.method = method, !.header = header, !.url = url,
                                 !.origin = origin], path, reports)
    /\ UNCHANGED cfg

(* After a preflight that allows it: "POST, OPTIONS".                      *)
SendPreflighted ==
    /\ req.at = "answered" /\ req.answer = "204" /\ req.method = "POST"
    /\ req' = [req EXCEPT !.at = Chain[1], !.preflight = FALSE, !.orig = None,
                          !.remote = Last(req.path), !.answer = ""]
    /\ UNCHANGED cfg

Canonical == [scheme |-> cfg.canonical.scheme, host |-> cfg.canonical.host]

(* A preflight must not be redirected; a POST that is becomes a GET.       *)
Follow(path, reports) ==
    /\ req.at = "answered" /\ req.answer = "301" /\ ~req.preflight
    /\ req.hops < MaxHops
    /\ Arrive([req EXCEPT !.url = Browsed(Canonical), !.hops = @ + 1,
                          !.method = IF @ = "POST" THEN "GET" ELSE @,
                          !.origin = IF CrossOrigin(req) /\ req.url # Browsed(Canonical)
                                       THEN Null ELSE @], path, reports)
    /\ UNCHANGED cfg

End ==
    /\ req.at = "answered"
    /\ req' = Idle
    /\ UNCHANGED cfg

-----------------------------------------------------------------------------
(* The middleware.                                                         *)

After(s)  == Chain[CHOOSE i \in 2..Len(Chain) : Chain[i - 1] = s]
Answer(a) == req' = [req EXCEPT !.at = "answered", !.answer = a]
Pass      == req' = [req EXCEPT !.at = After(@)]

TrustedProxyNets == UNION cfg.trustedProxy
IPInRanges(a)    == a \in TrustedProxyNets
PeerIP           == IF req.orig # None THEN req.orig ELSE req.remote

PreserveRemoteAddr ==
    /\ req.at = "PreserveRemoteAddr"
    /\ req' = [req EXCEPT !.at = After(@), !.orig = req.remote]
    /\ UNCHANGED cfg

(* Mutant: the first address, the client's.                                *)
extractForwardedIPFirst(xff, other) ==
    LET i == SelectInSeq(xff, LAMBDA a : a # "malformed" /\ ~IPInRanges(a))
    IN  IF i # 0 THEN xff[i] ELSE other

(* The last address in X-Forwarded-For that is not a trusted proxy's, else *)
(* what the single-value headers say.                                      *)
extractForwardedIP(xff, other) ==
    LET i == SelectLastInSeq(xff, LAMBDA a : a # "malformed" /\ ~IPInRanges(a))
    IN  IF i # 0 THEN xff[i] ELSE other

(* The client sent claim; each proxy appended whom it was called by.       *)
TrustedRealIP(claim, other) ==
    LET ip == extractForwardedIP(claim \o Front(req.path), other) IN
    /\ req.at = "TrustedRealIP"
    /\ req' = [req EXCEPT !.at = After(@),
                          !.remote = IF IPInRanges(PeerIP) /\ ip # None THEN ip ELSE @]
    /\ UNCHANGED cfg

IsExtensionOrigin(o) == o = Extension

corsMiddleware ==
    /\ req.at = "cors"
    /\ IF IsExtensionOrigin(req.origin) /\ req.preflight THEN Answer("204") ELSE Pass
    /\ UNCHANGED cfg

(* Mutant: what the proxy reports is not looked at.                        *)
reqSchemeDirect == "http"

(* What RedirectToCanonical takes for the scheme: r.TLS is never set.      *)
reqScheme == IF IPInRanges(PeerIP) /\ req.reports THEN req.url.scheme ELSE "http"

RedirectToCanonical(noRedirect) ==
    /\ cfg.canonical # None
    /\ ~(reqScheme = cfg.canonical.scheme /\ req.url.host = cfg.canonical.host)
    /\ ~noRedirect

(* no_redirect=1 is in the query, which a redirect keeps.                  *)
DomainRedirect(noRedirect) ==
    /\ req.at = "DomainRedirect"
    /\ noRedirect => req.hops = 0
    /\ IF RedirectToCanonical(noRedirect) THEN Answer("301") ELSE Pass
    /\ UNCHANGED cfg

isAdmin(email, groups) == email \in cfg.adminEmails \/ groups \cap cfg.adminGroups # {}

Identify(source, email, groups) ==
    req' = [req EXCEPT !.at = After(@),
                       !.id = [email |-> email, groups |-> groups, source |-> source,
                               isAdmin |-> isAdmin(email, groups)]]

(* login is None if there is no such header.                               *)
TailscaleMiddleware(login) ==
    /\ req.at = "tailscale"
    /\ IF /\ cfg.tailscale /\ login # None
          /\ TrustedProxyNets # {} => IPInRanges(PeerIP)
         THEN Identify("tailscale", login, {})
         ELSE Pass
    /\ UNCHANGED cfg

(* email is that of EmailHeader, or else of UserHeader.                    *)
ProxyAuthMiddleware(email, groups) ==
    /\ req.at = "proxyAuth"
    /\ IF cfg.proxyAuth /\ req.id = None /\ IPInRanges(PeerIP) /\ email # None
         THEN Identify("proxy", email, groups)
         ELSE Pass
    /\ UNCHANGED cfg

(* A session cookie that has not expired, signed with secret; its renewal  *)
(* is in module Login.                                                     *)
OIDCMiddleware(secret, email, groups) ==
    /\ req.at = "oidc"
    /\ IF cfg.oidc /\ req.id = None /\ secret = cfg.jwtSecret
         THEN Identify("oidc", email, groups)
         ELSE Pass
    /\ UNCHANGED cfg

AnonymousMiddleware ==
    /\ req.at = "anonymous"
    /\ IF cfg.anonymous /\ req.id = None
         THEN req' = [req EXCEPT !.at = After(@),
                                 !.id = [email |-> "anonymous@localhost", groups |-> {},
                                         source |-> "anonymous",
                                         isAdmin |-> cfg.anonymousAdmin]]
         ELSE Pass
    /\ UNCHANGED cfg

-----------------------------------------------------------------------------
(* The routes.                                                             *)

To(at) == req' = [req EXCEPT !.at = at]

(* The group of a route says which check is the first.                     *)
Route(rt) ==
    /\ req.at = "route"
    /\ ~req.preflight /\ rt.method = req.method
    /\ rt.group = "oidc" => cfg.oidc
    /\ req' = [req EXCEPT !.route = rt,
                          !.at = CASE rt.group \in {"open", "oidc"} -> "handler"
                                   [] rt.group = "admin"            -> "admin"
                                   [] rt.group = "view"             -> "limit"
                                   [] rt.group = "auth"             -> "auth"]
    /\ UNCHANGED cfg

(* No route: also every OPTIONS that gets here.                            *)
NotFound ==
    /\ req.at = "route"
    /\ Answer("404")
    /\ UNCHANGED cfg

isAPIRequest(acceptsJSON) == acceptsJSON \/ req.method # "GET"

(* adminDenied answers what RequireAdmin does not.                         *)
RequireAdmin(acceptsJSON) ==
    /\ req.at = "admin"
    /\ CASE req.id # None /\ req.id.isAdmin -> To("mutation")
         [] OTHER -> Answer(IF ~isAPIRequest(acceptsJSON) /\ req.id = None /\ cfg.oidc
                              THEN "login" ELSE "403")
    /\ UNCHANGED cfg

(* The limiter charges req.remote and allows it or not.                    *)
Limit(allowed) ==
    /\ req.at = "limit"
    /\ CASE ~allowed                         -> Answer("429")
         [] allowed /\ cfg.requireAuthToView -> To("auth")
         [] OTHER                            -> To("handler")
    /\ UNCHANGED cfg

RequireAuth(acceptsJSON) ==
    /\ req.at = "auth"
    /\ CASE req.id # None             -> To(IF req.route.group = "view" THEN "handler"
                                                                        ELSE "mutation")
         [] req.id = None             ->
              Answer(CASE isAPIRequest(acceptsJSON) -> "401"
                       [] ~isAPIRequest(acceptsJSON) /\ cfg.oidc -> "login"
                       [] OTHER -> "403")
    /\ UNCHANGED cfg

AfterMutation == IF req.route.name = "upload" THEN "origin" ELSE "handler"

(* Mutant: only the methods that a form does not have need the header.     *)
RequireMutationHeaderForms ==
    /\ req.at = "mutation"
    /\ IF req.method \in {"GET", "POST"} \/ req.header THEN To(AfterMutation)
                                                       ELSE Answer("no header")
    /\ UNCHANGED cfg

RequireMutationHeader ==
    /\ req.at = "mutation"
    /\ IF req.method = "GET" \/ req.header THEN To(AfterMutation) ELSE Answer("no header")
    /\ UNCHANGED cfg

(* The address must be the origin as it is; hosts are compared if there is *)
(* none.                                                                   *)
RequireSameOriginOrExtension ==
    LET o == req.origin IN
    /\ req.at = "origin"
    /\ IF \/ IsExtensionOrigin(o)
          \/ /\ o \notin {None, Null}
             /\ IF cfg.canonical # None THEN o = Canonical /\ cfg.canonical.path = ""
                                        ELSE o.host = req.url.host
         THEN To("handler")
         ELSE Answer("bad origin")
    /\ UNCHANGED cfg

(* parseSourceURL lets s through; None is the empty URL, which it does     *)
(* too.                                                                    *)
parseSourceURL(s) == s = None \/ Normalized(s) \in cfg.schemes

(* Update refuses a source URL that is not allowed, Upload leaves it out.  *)
HandleSource(s) ==
    /\ req.at = "handler" /\ req.route.name \in {"upload", "update"}
    /\ IF parseSourceURL(s)
         THEN req' = [req EXCEPT !.at = "answered", !.answer = "ok", !.source = s]
         ELSE Answer(IF req.route.name = "upload" THEN "ok" ELSE "400")
    /\ UNCHANGED cfg

(* Any other handler.                                                      *)
Handle ==
    /\ req.at = "handler" /\ req.route.name \notin {"upload", "update"}
    /\ Answer("ok")
    /\ UNCHANGED cfg

-----------------------------------------------------------------------------

Next ==
    \/ Start \/ Stop
    \/ Send
    \/ SendPreflighted
    \/ \E path \in Paths, reports \in BOOLEAN : Follow(path, reports)
    \/ End
    \/ PreserveRemoteAddr
    \/ \E claim \in Claims, other \in Addrs \cup {None} : TrustedRealIP(claim, other)
    \/ corsMiddleware
    \/ \E noRedirect \in BOOLEAN : DomainRedirect(noRedirect)
    \/ \E login \in Emails \cup {None} : TailscaleMiddleware(login)
    \/ \E email \in Emails \cup {None}, groups \in SUBSET Groups :
          ProxyAuthMiddleware(email, groups)
    \/ \E secret \in Secrets, email \in Emails, groups \in SUBSET Groups :
          OIDCMiddleware(secret, email, groups)
    \/ AnonymousMiddleware
    \/ \E rt \in Routes : Route(rt)
    \/ NotFound
    \/ \E json \in BOOLEAN : RequireAdmin(json) \/ RequireAuth(json)
    \/ \E allowed \in BOOLEAN : Limit(allowed)
    \/ RequireMutationHeader
    \/ RequireSameOriginOrExtension
    \/ \E s \in Sources \cup {None} : HandleSource(s)
    \/ Handle

Spec == Init /\ [][Next]_vars

-----------------------------------------------------------------------------

(* Whoever a request is taken for was vouched for: by a proxy that is      *)
(* trusted and made the connection itself, or by a secret that is long     *)
(* enough. (TailscaleMiddleware does not look at the peer when no proxy is *)
(* trusted: "config validation guarantees that TrustedProxy is non-empty   *)
(* when Tailscale is enabled"; a secret is checked once it is resolved.)   *)
IdentityVouched ==
    req.id # None =>
        /\ req.id.source \in {"tailscale", "proxy"} => IPInRanges(Last(req.path))
        /\ req.id.source = "oidc" => cfg.jwtSecret \notin Short

(* A request is charged to the nearest address on its way that is not a    *)
(* trusted proxy's, whatever its client put in the headers.                *)
(* (extractForwardedIP: "unspoofable as long as every proxy hop's address  *)
(* is listed in trusted_proxy".)                                           *)
ChargedToSender ==
    LET i == SelectLastInSeq(req.path, LAMBDA a : ~IPInRanges(a)) IN
    req.at = "limit" /\ i # 0 => req.remote = req.path[i]

(* A handler that changes something runs for someone, at the request of a  *)
(* page of the server itself, of an extension or of no page at all: what   *)
(* preflights, the header and the Origin check let through together.       *)
(* (RequireMutationHeader, RequireSameOriginOrExtension, corsMiddleware.)  *)
ChangesAreAsked ==
    req.at = "handler" /\ req.method # "GET" =>
        /\ req.id # None
        /\ req.origin \in {None, Extension, req.url}

(* An extension may upload: its preflight is granted on whatever address   *)
(* it comes, and its request passes the checks of its origin.              *)
(* (server.New: "CORS before DomainRedirect"; IsExtensionOrigin.)          *)
ExtensionMayUpload ==
    req.origin = Extension /\ req.header /\ req.at = "answered" =>
        /\ req.preflight => req.answer = "204"
        /\ req.answer \notin {"no header", "bad origin"}

(* A browser that was redirected is not redirected again, on two           *)
(* conditions: the server can tell that the browser used https, and the    *)
(* host in canonical_address is written as browsers write it. Without      *)
(* either the redirect never ends, and validate asks for neither.          *)
(* (RedirectToCanonical, which compares hosts as strings; X-Forwarded-     *)
(* Proto counts from trusted proxies.)                                     *)
SchemeKnown == req.url.scheme = "http" \/ (req.reports /\ IPInRanges(Last(req.path)))

CanonicalAsBrowsed == Browsed(Canonical) = Canonical

RedirectedOnce ==
    req.at = "answered" /\ req.answer = "301" /\ SchemeKnown /\ CanonicalAsBrowsed
    => req.hops = 0

(* No source URL is stored whose scheme is dangerous, however the allowed  *)
(* schemes and the URL are spelled. ("those can never pass here regardless *)
(* of input", parseSourceURL.)                                             *)
SourceIsSafe == req.source # None => req.source.name \notin dangerousSchemes
=============================================================================
