SPECIFICATION Spec
CONSTANTS
    Plugins = {"file_type", "file_hashes", "p", "q"}
    Mandatory = {"file_type", "file_hashes"}
    FileType = "file_type"
    LoadedSets = {}
    DependencyGraphs = {}
    MaxWorkers = 3
    Containers = {}
    FileSystems = {}
    CveFeeds = {}
    BusyboxFiles = {}
    SoftwareLists = {}
    MinToolCount = 5
    OsList <- OsNames
    Databases = {}
    TagRows = {}
    Links = {}
    SearchRequests = {}
    SearchForms = {}
    PagedResults = {}
    BinarySearches = {}
    PluginSetups = {}
    Comparisons = {}
    HeaderSets = {}
    BytesToShow = 4
    ColumnWidth = 2
    Candidates = {}
    PlainFiles = {}
    XmlFiles = {}
    TomlFiles = {}
    CsvFiles = {}
    YamlFiles = {}
    ConfigTrees = {}
    Trees = {}
    Graphs = {}
    HexData = {}
    ChunkSize = 3
    StatsDatabases = {}
    ReleaseDates = {}
    SummaryCounts = {}
    ChartLimit = 2
    Emails = {"x", "y"}
    RoleNames = {"superuser", "guest"}
    ExtraRoles = {"extra"}
    Sessions = {"s1", "s2"}
    UserDatabases = {}
    MaxId = 2
    MaxOperations = 3
    Uploads = {}
    Redos = {}
    RestRequests = {}
    PluginData = {}
    Archives = {}
    Crashes = {}
    SchemaDatabases = {}
    Mongos = {}
    Backends <- SomeBackends
    StoredResults = {}
    RuleInputs = {}
    VulnerableFiles = {}
    Tabs = {"t1", "t2"}
    Selectable = {"u1", "u2", "u3"}
    Cookies = {}
    MaxTabRequests = 3
    Scans = {}
    MaxStringsPerMatch = 2
    ChangedFiles = {}
    RolesInDatabase = {}
INVARIANT
    DeadAreTerminated
CHECK_DEADLOCK FALSE
