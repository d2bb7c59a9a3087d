SPECIFICATION Spec
CONSTANTS
    Plugins = {"file_type", "file_hashes", "p", "q"}
    Mandatory = {"file_type", "file_hashes"}
    FileType = "file_type"
    LoadedSets <- AlmostAll
    DependencyGraphs <- SomeDependencies
    MaxWorkers = 3
    Containers <- SomeContainers
    FileSystems <- SomeFileSystems
    CveFeeds <- SomeFeeds
    BusyboxFiles <- BusyboxInputs
    SoftwareLists <- SoftwareInputs
    MinToolCount = 5
    OsList <- OsNames
    Databases <- SomeDatabases
    TagRows <- SomeTags
    Links <- SomeLinks
    SearchRequests <- SomeRequests
    SearchForms <- SomeForms
    PagedResults <- SomePages
    BinarySearches <- SomeBinarySearches
    PluginSetups <- SomeSetups
    Comparisons <- SomeComparisons
    HeaderSets <- SomeHeaders
    BytesToShow = 4
    ColumnWidth = 2
    Candidates <- SomeCandidates
    PlainFiles <- SomePlain
    XmlFiles <- SomeXml
    TomlFiles <- SomeToml
    CsvFiles <- SomeCsv
    YamlFiles <- SomeYaml
    ConfigTrees <- SomeConfigTrees
    Trees <- SomeTrees
    Graphs <- SomeGraphs
    HexData <- SomeHexData
    ChunkSize = 3
    StatsDatabases <- SomeStatsDatabases
    ReleaseDates <- SomeReleaseDates
    SummaryCounts <- SomeSummaryCounts
    ChartLimit = 2
    Emails = {"x", "y"}
    RoleNames = {"superuser", "guest"}
    ExtraRoles = {"extra"}
    Sessions = {"s1", "s2"}
    UserDatabases <- SomeUserDatabases
    MaxId = 2
    MaxOperations = 3
    Uploads <- SomeUploads
    Redos <- SomeRedos
    RestRequests <- SomeRestRequests
    PluginData <- SomePluginData
    Archives <- SomeArchives
    Crashes = {0, 1, 2, 3, 4, 5, 6, 7}
    SchemaDatabases <- SomeSchemas
    Mongos <- ConsistentMongos
    Backends <- SomeBackends
    StoredResults <- SomeStoredResults
    RuleInputs <- SomeRuleInputs
    VulnerableFiles <- SomeVulnerableFiles
    Tabs = {"t1", "t2"}
    Selectable = {"u1", "u2", "u3"}
    Cookies <- SomeBaskets
    MaxTabRequests = 3
    Scans <- SomeScans
    MaxStringsPerMatch = 2
    ChangedFiles <- SomeChangedFiles
    RolesInDatabase <- SomeRoleSets
INVARIANTS
    ScheduleIsSound
    QemuResultsAreShown
    FindingsAreRight
    ContentIsShown
    SearchesFindMatches
    DifferencesAreShown
    RecordsSurvive
    DeadProcessesAreReplaced
PROPERTIES
    SchedulingEnds
    AccountsAreConsistent
    BasketIsKept
CHECK_DEADLOCK FALSE
