SPECIFICATION Spec
CONSTANTS
    r1 = r1  r2 = r2  k1 = k1  k2 = k2  NoKey = NoKey  NoTask = NoTask  t1 = t1  t2 = t2
    q1 = q1  q2 = q2  h1 = h1  h2 = h2  a1 = a1  a2 = a2  lanIp = lanIp  e1 = e1  Absent = Absent
    s1 = s1  s2 = s2  s3 = s3  p1 = p1  p2 = p2  NoPlay = NoPlay
    d1 = d1  d2 = d2  c1 = c1  c2 = c2
    u1 = u1  u2 = u2  b1 = b1  b2 = b2  i1 = i1  i2 = i2  n1 = n1  n2 = n2  NoId = NoId
    w1 = w1  w2 = w2  Nobody = Nobody  l1 = l1  l2 = l2  v1 = v1  v2 = v2  NoOne = NoOne
    Callers <- ProviderCallers  Keys <- ProviderKeys  SingleKeys <- ProviderSingle
    Items <- ProviderItems  IndexerOf <- ProviderIndexerOf  Offered <- ProviderOffered
    Streams <- PlaybackStreams  Viewers <- PlaybackViewers  PlayIds <- PlaybackIds  PlayOf <- PlaybackOf
    ReleaseOf <- PlaybackRelease  HashOf <- PlaybackHash
    MaxLimit = 1  MaxChanges = 1
    Devices <- PairingDevices  Codes <- PairingCodes  Owners <- PairingOwners  Nothing = Nothing
    Browsers <- AccountBrowsers  Ids <- AccountIds  Names <- AccountNames
    PrefOwners <- PreferenceOwners  System = "system"  Definitions <- PreferenceDefinitions
    Categories <- PreferenceCategories  Attributes <- PreferenceAttributes
    CategoryOf <- PreferenceCategoryOf  Editors <- PreferenceEditors  MaxIds = 2
    SiteUsers <- AccountUsers  SiteTorrents <- AccountTorrents
    Indexers <- AccountSites  Rules <- AccountRules  Logins <- AccountLogins  UserOfLogin <- AccountUserOf
    Setups <- NetworkSetups  Asks <- SetupAsks  AutoHosts <- NetworkHosts  ClearsTxt <- NetworkClears
    HostIp = lanIp  Addresses <- NetworkAddresses  Emails <- NetworkEmails  MaxEvents = 1  MaxIssued = 3
    Questions <- FileQuestions  Folders <- FolderNames  MaxEpisode = 3
    Catalogue <- RankingCatalogue  Viewings <- RankingViewings  Multiple <- RankingMultiple
    Strict <- RankingStrict  Fallback <- RankingFallback
    Asked = "asked"  Limit = 3  Most = 2  SiteRows <- SearchRows  SitePages <- SiteContents
    Queries <- TorznabQueries  Offers <- TitleSources  LimitDefault = 2  LimitMax = 3
INVARIANTS
    SharedDownload
    OnlyFollowersBreak
    CertificateOfHost
    OverrunNeedsOverlap
    PriorityExact
    FileOfEpisode
    ShownAreBest
    
    PagesExact
PROPERTIES
    FreshLookup
    RecordHeals
    ServesSettings
    LinkedAsSeen
    LastAccount
    OwedKept
CHECK_DEADLOCK FALSE
