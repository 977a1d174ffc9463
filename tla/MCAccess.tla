------------------------------ MODULE MCAccess ------------------------------
(* Instances of Access for TLC.                                            *)
EXTENDS Access, TLC

MCEnv == ("SECRET" :> "long" @@ "EMPTY" :> "")

MCPaths  == {<<"client">>, <<"client", "proxy">>, <<"client", "inner", "proxy">>}
MCClaims == {<< >>, <<"other">>, <<"proxy", "malformed">>}

(* Browsers leave out the port 443 of https. *)
MCSpelled == [u \in URLs |-> IF u = [scheme |-> "https", host |-> "main:443"] THEN "main"
                                                                           ELSE u.host]

Set(value) == [value |-> value, env |-> ""]
Var(name)  == [value |-> "", env |-> name]

Site(scheme, path) == [scheme |-> scheme, host |-> "main", path |-> path]

(* A file that loads: everything that is required, and OIDC.               *)
Base ==
    [defaults EXCEPT !.storagePath = "/data", !.dsn = Set("db"), !.ttl = 4,
                     !.canonical = Site("https", ""), !.oidc = TRUE,
                     !.issuer = "idp", !.clientID = "id", !.clientSecret = Var("SECRET"),
                     !.jwtSecret = Var("SECRET"),
                     !.adminEmails = {"alice"}, !.adminGroups = {"staff"}]

(* The providers, with and without the proxies that they need.             *)
ProviderFiles ==
    {[Base EXCEPT !.tailscale = t, !.proxyAuth = p, !.oidc = o,
                  !.anonymous = a # "off", !.anonymousAdmin = a = "admin",
                  !.trustedProxy = n, !.requireAuthToView = t] :
        t \in BOOLEAN, p \in BOOLEAN, o \in BOOLEAN, a \in {"off", "user", "admin"},
        n \in {{}, {{"proxy"}}}}

(* A server without OIDC, for what does not depend on the provider.        *)
Anon == [Base EXCEPT !.oidc = FALSE, !.anonymous = TRUE]

(* Addresses and proxies.                                                  *)
AddressFiles ==
    {[Anon EXCEPT !.canonical = c, !.trustedProxy = n] :
        c \in {None, Site("https", "/"), Site("http", "/shots"),
               Site("ftp", ""), [Site("http", "") EXCEPT !.host = ""],
               [Site("https", "") EXCEPT !.host = "main:443"]},
        n \in {{}, {{"proxy"}, {"inner"}}, {{"proxy"}, {}}}}
    \cup {[Anon EXCEPT !.canonical = None, !.trustedProxy = {{"proxy", "inner", "client"}}],
          [Base EXCEPT !.requireAuthToView = TRUE]}

(* Secrets and sessions, most of which are refused.                        *)
SecretFiles ==
    {[Base EXCEPT !.jwtSecret = s] :
        s \in {Unset, Set("long"), Set("brief"), Var("EMPTY"), Var("MISSING"),
               [value |-> "long", env |-> "SECRET"]}}
    \cup {[Base EXCEPT !.renewalDelay = r] : r \in {3, 4, -1}}

(* Schemes of source URLs, in several spellings.                           *)
SchemeFiles ==
    {[Anon EXCEPT !.schemes = ss] :
        ss \in {{}, {Scheme("")}, {Scheme("data")}} \cup
               {{[name |-> n, upper |-> u, padded |-> p], Scheme("https")} :
                    n \in {"javascript", "ftp"}, u \in BOOLEAN, p \in BOOLEAN}}

(* Keys, and sizes at and beyond their limits.                             *)
OtherFiles ==
    LET F == [Anon EXCEPT !.canonical = None] IN
    {[F EXCEPT !.undecoded = {"cors.extension_ids"}, !.cols = 10, !.idLength = 4],
     [F EXCEPT !.undecoded = {"titel"}], [F EXCEPT !.cols = 11], [F EXCEPT !.pageSize = 0],
     [F EXCEPT !.idLength = 3], [F EXCEPT !.maxUploadMB = 0], [F EXCEPT !.driver = "mysql"],
     [F EXCEPT !.logLevel = "trace"]}

MCFiles == ProviderFiles \cup AddressFiles \cup SecretFiles \cup SchemeFiles \cup OtherFiles

MCSources ==
    {[name |-> n, upper |-> u, padded |-> FALSE] :
        n \in {"https", "ftp", "javascript"}, u \in BOOLEAN}
=============================================================================
