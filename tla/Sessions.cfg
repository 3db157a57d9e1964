SPECIFICATION Spec
CONSTANTS
    Handlers = {"h1", "h2", "h3", "h4"}
    Browsers = {"b1", "b2"}
    Requests <- AllRequests
    Emails <- MCEmails
    Normal <- MCNormal
    Blank = ""
    Passwords <- MCPasswords
    Unusable = {"short"}
    Registered <- TwoUsers
    NoUser = NoUser
    NoToken = NoToken
    TTL = 3
    Second = 2
    MaxTime = 4
    Faulty = {"h3"}
CONSTRAINT OneWorkload
INVARIANTS
    TypeOK
    OneUserPerEmail
    CredentialsBehindLink
    AccessJustified
    OwnerKeepsAccess
    LoginIsRemembered
    OrphanIsUnreachable
    CookieLastsToTheSecond
