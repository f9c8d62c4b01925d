SPECIFICATION MCSpec
CONSTANTS
    Recipients = {r1}
    BatchSize = 2
    AttemptLimit = 2
    MaxMails = 3
    MaxFaults = 1
    Targets = {"apt", "dnf"}
    FileOf <- MCFileOf
    SystemFiles = {"list", "repo"}
    AptFiles = {"list"}
    AgentFiles = {"skill", "mcp"}
    UserTexts = {"u1", "u2"}
    MaxSetups = 2
    MaxEdits = 2
    MaxFailures = 2
    Editors = {1, 2}
    Ids = {1, 2}
    Entries <- MCEntries
    Width = 2
    Versions = {4, 6}
    MaxDrops = 1
    MaxAddress = 5
    MaxRecords = 4
    MaxVersion = 3
    MaxKills = 3
    Paths <- MCPaths
    Links <- MCLinks
    Settings <- MCSettings
    Sites <- MCSites
    Public = {"public"}
    EndpointLists <- MCLists
    Authorized <- MCAuthorized
    Issuers <- MCCdn
    DownloadHosts <- MCCdn
    RedirectLimit = 3
    Visitors = {v1, v2}
    Calls <- MCCalls
    Spots = {"a", "b", "p"}
    Trusted = {"p"}
    Denied = {"b"}
    BaseDomain = "base"
    Subdomains = {"alice", "www"}
    Reserved = {"www"}
    UserOf <- MCUserOf
    MirrorNames = {"npm", "os"}
    Minute = 2
    Quarter = 2
    MinuteLimit = 2
    NameLimit = 1
    SourceLimit = 2
    EndOfTime = 2
    MaxVisits = 4
INVARIANTS MailAccounted FilesKept PolicyInForce LookupFinds RestoreSafe RequestsLead
           RedirectsKept GateKept
PROPERTY AlertMailed
CHECK_DEADLOCK FALSE
