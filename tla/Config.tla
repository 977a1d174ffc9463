------------------------------- MODULE Config -------------------------------
(***************************************************************************)
(* Loading the configuration (package config). A file is a record of the   *)
(* settings, the defaults where it sets none; Load makes the configuration *)
(* of it that the server runs with, or refuses it.                         *)
(*                                                                         *)
(* Settings that only change what pages look like are left out. A setting  *)
(* whose text has a form that matters is a record of what it says:         *)
(*   a secret        [value, env], "" where it is not set                  *)
(*   an address      [scheme, host, path], or None where it is not set     *)
(*   a CIDR          the set of its addresses, {} if it does not parse     *)
(*   a URL's scheme  [name, upper, padded]: with capitals, with blanks     *)
(***************************************************************************)
EXTENDS Integers

CONSTANTS
    Env,    \* the environment: a function from variables to their values
    Short,  \* the secrets of less than 32 characters
    None

ASSUME ShortAssumption == "" \in Short

Unset == [value |-> "", env |-> ""]

Scheme(name) == [name |-> name, upper |-> FALSE, padded |-> FALSE]

defaults ==
    [undecoded |-> {},  \* the keys of the file that no setting has
     canonical |-> None, trustedProxy |-> {},
     tailscale |-> FALSE, proxyAuth |-> FALSE, oidc |-> FALSE,
     anonymous |-> FALSE, anonymousAdmin |-> FALSE,
     adminEmails |-> {}, adminGroups |-> {},
     issuer |-> "", clientID |-> "",
     clientSecret |-> Unset, jwtSecret |-> Unset, dsn |-> Unset,
     ttl |-> 168, renewalDelay |-> 1,
     storagePath |-> "", maxUploadMB |-> 4, driver |-> "sqlite",
     idLength |-> 8, cols |-> 5, pageSize |-> 20, logLevel |-> "info",
     requireAuthToView |-> FALSE,
     schemes |-> {Scheme("http"), Scheme("https")}]

dangerousSchemes == {"javascript", "data", "vbscript"}
obsoleteKeys     == {"cors", "cors.extension_ids"}

-----------------------------------------------------------------------------

(* A secret has a value or names a variable that is set, not both.         *)
Resolvable(s) == ~(s.value # "" /\ s.env # "") /\ (s.env # "" => s.env \in DOMAIN Env)

resolveSecret(s) == IF s.env = "" THEN s.value ELSE Env[s.env]

resolveSecrets(f) ==
    [f EXCEPT !.jwtSecret    = resolveSecret(@),
              !.clientSecret = resolveSecret(@),
              !.dsn          = resolveSecret(@)]

(* strings.ToLower(strings.TrimSpace(s))                                   *)
Normalized(s) == [s EXCEPT !.upper = FALSE, !.padded = FALSE]

AnyAuthEnabled(c) == c.anonymous \/ c.tailscale \/ c.proxyAuth \/ c.oidc

(* The rules on addresses. *)
AddressesValid(c) ==
    /\ c.canonical # None => c.canonical.host # "" /\ c.canonical.scheme \in {"http", "https"}
    /\ {} \notin c.trustedProxy

(* Mutant: header providers do not need a proxy.                           *)
ProvidersValidAlone(c) ==
    /\ AnyAuthEnabled(c)
    /\ c.oidc => /\ c.canonical # None
                 /\ "" \notin {c.issuer, c.clientID, c.clientSecret}

(* The rules on the providers. *)
ProvidersValid(c) ==
    /\ AnyAuthEnabled(c)
    /\ c.tailscale \/ c.proxyAuth => c.trustedProxy # {}
    /\ c.oidc => /\ c.canonical # None
                 /\ "" \notin {c.issuer, c.clientID, c.clientSecret}

(* The rules on sessions. *)
SessionsValid(c) ==
    c.oidc => /\ c.jwtSecret \notin Short
              /\ c.ttl > 0 /\ c.renewalDelay >= 0 /\ c.renewalDelay < c.ttl

(* The rules on storage, database, ids, layout and logging. *)
SizesValid(c) ==
    /\ c.storagePath # "" /\ c.maxUploadMB > 0
    /\ c.driver \in {"sqlite", "postgres"} /\ c.dsn # ""
    /\ c.idLength >= 4 /\ c.cols \in 1..10 /\ c.pageSize >= 1
    /\ c.logLevel \in {"debug", "info", "warn", "error"}

(* Mutant: an entry is looked up as it is spelled.                         *)
SchemesValidAsSpelled(c) ==
    \A s \in c.schemes : s.name # "" /\ s \notin {Scheme(n) : n \in dangerousSchemes}

(* The rules on source_url_schemes. *)
SchemesValid(c) ==
    \A s \in c.schemes : s.name # "" /\ Normalized(s).name \notin dangerousSchemes

(* What validate returns an error for, and what it changes in c: the       *)
(* slashes at the end of canonical_address, the spelling of the schemes.   *)
validate(c) ==
    /\ AddressesValid(c) /\ ProvidersValid(c) /\ SessionsValid(c)
    /\ SizesValid(c) /\ SchemesValid(c)

Adjusted(c) ==
    [c EXCEPT !.canonical = IF @ # None /\ @.path = "/" THEN [@ EXCEPT !.path = ""] ELSE @,
              !.schemes   = {Normalized(s) : s \in @}]

(* Mutant: CIDRs that do not parse are kept.                               *)
LoadsBadly(f) ==
    /\ f.undecoded \subseteq obsoleteKeys
    /\ Resolvable(f.jwtSecret) /\ Resolvable(f.clientSecret) /\ Resolvable(f.dsn)
    /\ LET c == resolveSecrets(f) IN validate([c EXCEPT !.trustedProxy = @ \ {{}}])

(* Load: unknown keys, then the secrets, then validate.                    *)
Loads(f) ==
    /\ f.undecoded \subseteq obsoleteKeys
    /\ Resolvable(f.jwtSecret) /\ Resolvable(f.clientSecret) /\ Resolvable(f.dsn)
    /\ validate(resolveSecrets(f))

Load(f) == Adjusted(resolveSecrets(f))
=============================================================================
