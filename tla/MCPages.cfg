SPECIFICATION Spec
CONSTANTS
    Pages = {"Dk", "Rf", "Cv", "Rr", "Rd", "Fp", "Rp", "Sr", "Rw", "Rn", "Rh", "Po", "Ae", "Ac", "Ms", "Re", "Ca", "Gw", "As", "To", "Th"}
    None = None
    Asked = Asked
    Clarification = Clarification
    Context = Context
    DkCandidates = {1, 2}
    DkVerdict <- Verdicts
    DkMoved = {2}
    DkFound = {1}
    DkDispositions = {"accept", "waive"}
    DkEarlier <- DecidedEarlier
    DkHasPrevious = TRUE
    DkWaiting = TRUE
    DkMaxActs = 5
    DkMaxCalls = 2
    DkFaults = {"unread", "lost", "slow"}
    RfQuestions = {1, 2}
    RfOptions <- AnswersOffered
    RfMaxEdits = 2
    RfMaxPosts = 2
    CvMaxThreads <- ThreadsMade
    CvMaxAsks <- AsksMade
    RrCandidates = {"a", "b"}
    RrEarlier = TRUE
    RdLineage = 2
    RdCandidates <- DetectedInOrder
    RdVerdicts = {"material", "cleared"}
    RdDrawn = 6
    FpCandidates = {"a"}
    FpMaxSearches = 2
    RpPaths = {"/a", "/b"}
    RpIndexed = {"/a"}
    RpRemotes = {"r", "s"}
    RpPublished <- Branching
    RpBranches = {"main", "dev"}
    RpMaxActs = 6
    SrRoots = {"p", "q"}
    SrTree <- Folders
    SrParent <- Parents
    SrFiles <- FileCounts
    SrUsual = {"tests", "src/a"}
    SrMaxActs = 3
    SrMaxPresses = 2
    RwRuns = {1}
    RwMaxTotal = 1
    RwMaxActs = 3
    RnRuns = {1, 2}
    RnMaxActs = 6
    RhReviews = {"v", "w"}
    RhRuns = {"x"}
    RhBranches = {"m"}
    RhWords = {"m", "-"}
    RhStatuses = {"completed", "awaiting_answers"}
    RhMaxActs = 3
    PoAuthored = {"a"}
    PoShipped = {"s", "t"}
    PoStrength <- Strengths
    PoScope <- ScopesOf
    PoRoots = {"r"}
    PoSources = {"f"}
    PoRead <- ReadOf
    PoMaxActs = 4
    PoMaxSaves = 1
    AeElements = {"m", "j", "h", "t"}
    AeTests = {"t", "j"}
    AePrivate = {"m"}
    AeJudged = {"j"}
    AeEdges <- EdgesDrawn
    AeRequests <- RequestsMade
    AeOp <- Operation
    AeOn <- AskedOn
    AeTo <- AskedTo
    AeFound <- Answered
    AeRound <- EdgesAnswered
    AeRemembered <- NothingRemembered
    AeMaxActs = 6
    AcGraphs = {"g", "k", "e"}
    AcCards <- CardsOf
    AcPointers = {"p", "q"}
    AcMaxActs = 4
    MsRoles = {"reasoning"}
    MsChoices = {"x", "y"}
    MsModelOf <- Models
    MsProviderOf <- Providers
    MsFilterableFrom = 2
    MsMaxActs = 2
    ReRepos = {"p", "q"}
    ReLastCommit = 1
    ReMaxActs = 2
    GwSources = {"u", "v", "w"}
    GwEmits <- EmitsOf
    GwRoutes = {"/", "/p", "/r"}
    GwChunk <- ChunkOf
    GwTabs = {"t"}
    GwMaxBuilds = 4
    GwMaxActs = 2
    AsPaths <- Paths
    AsLanding = "/"
    AsScreen <- ScreensOf
    AsDrawers = {"/", "/reviews/1", "/reviews/2"}
    AsSections <- Sections
    AsReviews <- ReviewsListed
    AsRepositories <- RepositoriesListed
    AsLeads <- PlacesOf
    AsNeedles = {"r", "p"}
    AsMatching <- MatchesOf
    AsFirstReviews = 1
    AsFirstRepositories = 1
    AsCap = 2
    AsMaxActs = 3
    AsMaxChanges = 1
    ToMaxNotices = 5
    CaCases = {1, 2}
    CaScopes = {"s", "t"}
    CaMaxRevisions = 2
    CaMaxActs = 3
CHECK_DEADLOCK FALSE
INVARIANTS
    TypeOK ListsHoldWhatThereIs AnswersAreWhatWasSaid RecordsReadTrue ChoicesHoldTogether
    RunsAreReportedTruly TheMapShowsWhatWasAsked PagesTellTheWorkspace
PROPERTIES
    WorkMovesToWhatIsLeft NothingMovesUnderTheReader
