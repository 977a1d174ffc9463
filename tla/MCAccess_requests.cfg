SPECIFICATION Spec
INVARIANTS TypeOK IdentityVouched ChargedToSender ChangesAreAsked ExtensionMayUpload RedirectedOnce SourceIsSafe
CONSTANTS
    None = None
    Env <- MCEnv
    Short = {"", "brief"}
    Files <- MCFiles
    Paths <- MCPaths
    Claims <- MCClaims
    Hosts = {"main", "alias", "main:443"}
    Spelled <- MCSpelled
    Elsewhere = "elsewhere"
    Emails = {"alice", "bob"}
    Groups = {"staff"}
    Secrets = {"", "brief", "long"}
    Sources <- MCSources
    MaxHops = 2
