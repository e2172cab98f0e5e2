-------------------------- MODULE WorkspacePages --------------------------
(***************************************************************************)
(* The pages of the workspace, and what is around every page: the shell,   *)
(* the notices, the theme and the chunks a tab loads.                      *)
(* A constant of a page has the page's two letters before the name it has  *)
(* in the page's module.                                                   *)
(***************************************************************************)
EXTENDS PageState

CONSTANTS MsRoles, MsChoices, MsModelOf, MsProviderOf, MsFilterableFrom, MsMaxActs,
          PoAuthored, PoShipped, PoStrength, PoScope, PoRoots, PoSources, PoRead, PoMaxActs, PoMaxSaves,
          ReRepos, ReLastCommit, ReMaxActs,
          CaCases, CaScopes, CaMaxRevisions, CaMaxActs,
          GwSources, GwEmits, GwRoutes, GwChunk, GwTabs, GwMaxBuilds, GwMaxActs,
          AsPaths, AsLanding, AsScreen, AsDrawers, AsSections, AsReviews, AsRepositories, AsLeads,
          AsNeedles, AsMatching, AsFirstReviews, AsFirstRepositories, AsCap, AsMaxActs,
          AsMaxChanges,
          ToMaxNotices

Ms == INSTANCE ModelSettings WITH Roles <- MsRoles, Choices <- MsChoices, ModelOf <- MsModelOf,
    ProviderOf <- MsProviderOf, FilterableFrom <- MsFilterableFrom, MaxActs <- MsMaxActs, chosen <- v1,
    offers <- v2, answering <- v3, pinned <- v4, shown <- v5, failed <- v6, flight <- v7, select <- v8, clear <- v9,
    needle <- v10, early <- v11, acts <- v12
Po == INSTANCE Policies WITH Authored <- PoAuthored, Shipped <- PoShipped, Strength <- PoStrength,
    Scope <- PoScope, Roots <- PoRoots, Sources <- PoSources, Read <- PoRead, MaxActs <- PoMaxActs,
    MaxSaves <- PoMaxSaves, kept <- v1, registered <- v2, root <- v3, corpus <- v4, reading <- v5, failed <- v6,
    filter <- v7, expanded <- v8, confirming <- v9, open <- v10, draft <- v11, dirty <- v12, pending <- v13,
    saves <- v14, deleting <- v15, adding <- v16, acts <- v17, lost <- v18
Re == INSTANCE Repositories WITH Repos <- ReRepos, LastCommit <- ReLastCommit, MaxActs <- ReMaxActs,
    remote <- v1, disk <- v2, order <- v3, atlas <- v4, list <- v5, flight <- v6, failed <- v7, drawn <- v8,
    requested <- v9, held <- v10, found <- v11, reindex <- v12, fetch <- v13, clone <- v14, spots <- v15, said <- v16,
    acts <- v17
Ca == INSTANCE ArchitectureCases WITH Cases <- CaCases, Scopes <- CaScopes,
    MaxRevisions <- CaMaxRevisions, MaxActs <- CaMaxActs, stored <- v1, here <- v2, list <- v3, listing <- v4,
    history <- v5, reading <- v6, selected <- v7, form <- v8, save <- v9, acts <- v10
Gw == INSTANCE GraceWindow WITH Sources <- GwSources, Emits <- GwEmits, Routes <- GwRoutes,
    Chunk <- GwChunk, Tabs <- GwTabs, MaxBuilds <- GwMaxBuilds, MaxActs <- GwMaxActs, assets <- v1, index <- v2,
    ledger <- v3, whole <- v4, build <- v5, tab <- v6, builds <- v7, acts <- v8
As == INSTANCE AppShell WITH Paths <- AsPaths, Landing <- AsLanding, Screen <- AsScreen,
    Drawers <- AsDrawers, Sections <- AsSections, Reviews <- AsReviews, Repositories <- AsRepositories,
    Leads <- AsLeads, Needles <- AsNeedles, Matching <- AsMatching, FirstReviews <- AsFirstReviews,
    FirstRepositories <- AsFirstRepositories, Cap <- AsCap, MaxActs <- AsMaxActs,
    MaxChanges <- AsMaxChanges, path <- v1, open <- v2, found <- v3, overflow <- v4, focus <- v5, query <- v6, at <- v7,
    held <- v8, lists <- v9, astray <- v10, acts <- v11, changes <- v12
To == INSTANCE Toasts WITH MaxNotices <- ToMaxNotices, toasts <- v1, timers <- v2, failures <- v3, next <- v4
Th == INSTANCE Theme WITH screen <- v1, control <- v2, stored <- v3, keeps <- v4, machine <- v5, applied <- v6,
    split <- v7

ASSUME WorkspaceAssumption ==
    /\ Ms!SettingsAssumption
    /\ Po!PoliciesAssumption
    /\ Re!RepositoriesAssumption
    /\ Ca!CasesAssumption
    /\ Gw!GraceAssumption
    /\ As!ShellAssumption
    /\ To!ToastsAssumption
    /\ Th!ThemeAssumption

WorkspaceInit ==
    \/ page = "Ms" /\ Ms!Init /\ Free13
    \/ page = "Po" /\ Po!Init /\ Free19
    \/ page = "Re" /\ Re!Init /\ Free18
    \/ page = "Ca" /\ Ca!Init /\ Free11
    \/ page = "Gw" /\ Gw!Init /\ Free9
    \/ page = "As" /\ As!Init /\ Free13
    \/ page = "To" /\ To!Init /\ Free5
    \/ page = "Th" /\ Th!Init /\ Free8

WorkspaceNext ==
    \/ At("Ms") /\ Ms!Next /\ Kept13
    \/ At("Po") /\ Po!Next /\ Kept19
    \/ At("Re") /\ Re!Next /\ Kept18
    \/ At("Ca") /\ Ca!Next /\ Kept11
    \/ At("Gw") /\ Gw!Next /\ Kept9
    \/ At("As") /\ As!Next /\ Kept13
    \/ At("To") /\ To!Next /\ Kept5
    \/ At("Th") /\ Th!Next /\ Kept8

-----------------------------------------------------------------------------
\* Each page's state is of its type, and its parts fit together.
WorkspaceTypeOK ==
    /\ page = "Ms" => Ms!TypeOK
    /\ page = "Po" => Po!TypeOK
    /\ page = "Re" => Re!TypeOK
    /\ page = "Ca" => Ca!TypeOK
    /\ page = "Gw" => Gw!TypeOK
    /\ page = "As" => As!TypeOK
    /\ page = "To" => To!TypeOK
    /\ page = "Th" => Th!TypeOK

\* The pages of the workspace tell what it holds: the model that is chosen, the policies a
\* filter leaves, the case a scope is saved on (settings-page.tsx, policies-page.tsx,
\* cases-page.tsx). What is around them is whole: a tab finds its chunks across a rebuild, the
\* page behind an overlay scrolls again, the search is honest, a failure stays on screen and the
\* paint is the theme that was chosen (grace-window.ts, motion.ts, toast.tsx, theme.ts).
PagesTellTheWorkspace ==
    /\ page = "Ms" => Ms!TheSettledPageTellsTheChoice
    /\ page = "Po" => Po!ChipsLeadSomewhere
    /\ page = "Ca" => Ca!ScopesAreSavedWhereTheyWereTyped
    /\ page = "Gw" => Gw!TabsOutliveARebuild /\ Gw!TheDocumentIsWhole
    /\ page = "As" => As!ThePageIsGivenBack /\ As!TheSearchIsHonest
    /\ page = "To" => To!FailuresOutlastTheirMoment
    /\ page = "Th" => Th!ThePaintIsTheChoice

\* What the proof of it rests on, which is each page's own.
WorkspaceInvariant ==
    /\ page = "Ms" => Ms!IInv
    /\ page = "Po" => Po!IInv
    /\ page = "Re" => Re!IInv
    /\ page = "Ca" => Ca!IInv
    /\ page = "Gw" => Gw!IInv
    /\ page = "As" => As!IInv
    /\ page = "To" => To!IInv
    /\ page = "Th" => Th!IInv
=============================================================================
