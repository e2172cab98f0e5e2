# ArchCompass, specified

TLA+ models of the parts of ArchCompass in which order, failure and several actors decide
what a person is told: on the server (`src/src/archcompass`, Python) a review as it runs, the
service around it, the branch of reviews it belongs to and the table verdicts are reused from;
in the browser (`src/frontend/src`, TypeScript) every page and panel of the workbench that keeps
state of its own. Each module is translated from the source named in `PROJECT.json` (`map`
gives the lines of every definition). Python paths below are relative to `src/src/archcompass`,
TypeScript paths to `src/frontend/src`.

## The system

A *review* takes a repository at one commit and an *architecture case* (what people have
said about intent), proposes *candidates* by static detectors, has each judged by a language
model with the policies retrieved for it, asks a person about the verdicts that hinge on
intent, judges again with the answers, and files a snapshot.

| component | state it keeps | operations | what is hard |
|---|---|---|---|
| workflow graph (`workflow/graph.py`, `nodes.py`, `state.py`, `report.py`) | `ReviewState`, the LangGraph checkpoint, the case revision a review opened | sixteen nodes, a candidate fan-out, an interrupt | stale state in a branch, three rounds, a failure at any node |
| review service (`workflow/service.py`, `runs.py`, `persistence/executions.py`) | one execution row and its aliases, the snapshots, the runner's threads, stop flags and in-memory statuses | start, resume, cancel, cancel a run, delete, abandon at startup | every database transaction is its own; a thread and the requests interleave between any two |
| branch history (`analysis/delta.py`, `persistence/reviews.py`, `context.py`) | the rows of all reviews of a branch | load the previous review, compute the delta, carry verdicts, number, list | what moved between two reviews, and which of several reviews came before |
| architecture case (`domain/case.py`, `workflow/cases.py`, `persistence/cases.py`) | append-only case revisions | open, answer, seal, rescope | two writers of one revision number |
| finding reuse (`reasoning/cache.py`, `persistence/findings.py`) | the finding table | look up, store, claim as source | two judgements of one key; a change of model or a restart between two steps |
| model selection (`reasoning/adapters/selected.py`) | the selected model, its transport and gate | select, resolve | read at several moments of one judgement |
| judgement (`reasoning/adapters/tool_loop.py`, `deep_judge.py`, `retrying.py`) | a conversation's budgets | call, look up, retry, give up | which budget ends it |
| session runtimes and admission (`presentation/web/runtimes.py`, `restrictions.py`) | a bounded map of runtimes, daily counters | acquire, evict, admit | eviction during work; a budget at its limit |
| source storage and checkouts (`repositories/storage.py`, `checkout.py`) | trees on disk | make room, clone, update | room that is not held; half a clone |
| policy index (`policies/adapters/sqlite_index.py`, `retrieval.py`) | indexed policies | synchronise, retrieve | a corpus that moves during a review |
| standing decisions (`persistence/decisions.py`) | decisions on candidates | decide, list | equal times |
| analysis, providers, CLI | none of their own | pure or input and output | not concurrent |

The browser keeps state of its own beside the server's:

| component (`features/...`) | state it keeps | what is hard |
|---|---|---|
| docket of a review (`review/docket.tsx`, `decision-bar.tsx`, `review-page.tsx`) | the row open, filter, search, kept rows, a cached list of decisions written before the server answers | several requests on one cached list; the next row chosen from a list that is changing |
| the page itself (`review-page.tsx`, `lib/runs.ts`) | an immutable record cached for ever, a polled list of runs | when the cached record is read again, and whether the reader is moved |
| clarification round (`review/clarification.tsx`, `question.tsx`) | answers, skips, drafts and own words of a round, beyond the card that shows them | what is sent against what the rows say; leaving unsaved |
| conversations (`review/conversation-thread.tsx`, `question-help.tsx`) | threads, the list of them, the one on screen, a question on its way | answers and lists that arrive in any order |
| what a record says (`finding-detail.tsx`, `surfaces.tsx`, `trajectory.tsx`, `context-rail.tsx`) | folds, filters, a search | sentences derived from one record while the review goes on |
| start (`start/*.tsx`, `choice.ts`) | a choice and its copy that outlives the page, timers, probes, a press | typed text that becomes a choice later; answers for another choice |
| runs (`run-page.tsx`, `run-progress.tsx`) | a polled run, a stop that asks, a notification promised | a run that ends between two polls |
| listings (`reviews-page`, `repositories-page`, `cases-page`, `policies-page`, `policy-editor`, `settings-page`) | cached listings, forms, confirmations, filters | a listing that arrives under a form or a selection |
| what is opened over a page (`app/shell.tsx`, `ui/command-palette.tsx`, `shortcuts.tsx`, `drawer.tsx`, `lib/motion.ts`), notices (`ui/toast.tsx`), theme (`lib/theme.ts`) | overlays with what each found of the page, the palette's reads, the notices shown and their timers, the preference each control read | overlays closed in another order than they were opened, the browser's own Back under them; two controls of one preference |
| builds and open tabs (`vite-plugins/grace-window.ts`, `app/error-boundary.tsx`, `App.tsx`) | chunks and the document on disk, the ledger of builds, the build a tab was served | a tab that outlives builds, builds that are interrupted |
| map (`review/atlas-surface.tsx`, `atlas/*`) | what was asked, lens, filters, camera, pointers | answers for another graph; filters that hide what was asked for |

Parts of the server interact by calls, except in three places: the service *streams* the graph and writes
the execution row from what the stream yields; requests reach a running thread through a
stop flag only; and a review meets earlier reviews through three stores (snapshots, case
revisions, findings) that other reviews write meanwhile.

What makes each correct, in a sentence: the graph asks a person at most twice, never the same
thing twice, and files verdicts that rest on the answers it names; the service never leaves a
review that cannot go on or end; the history carries a verdict only where nothing under it
moved and shows every review; a case revision is written once; and a verdict that is reused is
the answer to the same question, with its source.

The pages meet the server in requests that may fail and answers that may be late, and each
other only through the server: what one page caches no other reads, except the copy of the start
page's choice and the answers typed into a round, which outlive their card. A page is right when
what it says of the records, runs and choices is so once nothing is in flight, what it sends is what it
showed, and nothing that arrives takes from the reader what they are at.

`PROJECT.json` lists the hazards at their lines, with the property that covers each, or why
none does. Left off that list, as they are in parts no module covers: a stop discarded by the
start that follows it (`workflow/runs.py:119`), a command line that abandons the rows of a live
server (`bootstrap.py:594`), a finished run evicted while polled (`workflow/runs.py:171`),
eviction during synchronous work (`presentation/web/runtimes.py:148`), a delay a provider asks
for (`reasoning/adapters/retrying.py:211`), a budget spent at a
refused admission (`restrictions.py:172`), half a clone (`repositories/checkout.py:133`), which of
several budgets ends a judgement (`tool_loop.py:356`), decisions of equal time
(`persistence/decisions.py:64`) and the selection's gate (`selected.py:111`).

## Modules

```
RoundProtocol  <-- implemented by --  ReviewGraph  <-- MCReviewGraph
ReviewGraph <- ReviewGraphProofs (TLAPS)
ReviewService <- ReviewServiceProofs (TLAPS)
BranchReviews <- MCBranchReviews ; BranchReviews <- BranchReviewsProofs (TLAPS)
FindingCache <- MCFindingCache ; FindingCache <- FindingCacheProofs (TLAPS)
ReviewFollow
Docket, RoundForm, Conversations, ReviewRecords, ReviewDelta, FindingPanel, AtlasExplorer,
  AtlasCamera  <- ReviewPages
RepositoryPicker, StartReview, RunWatch, RunNotices, ReviewHistory  <- RunPages
ArchitectureCases, Policies, ModelSettings, Repositories, AppShell, Toasts, Theme,
  GraceWindow  <- WorkspacePages
PageState <- ReviewPages, RunPages, WorkspacePages <- Pages <- MCPages
ReviewPages <- ReviewPagesProofs (TLAPS)
RunPages, WorkspacePages <- WorkspacePagesProofs (TLAPS)
Pages, ReviewPagesProofs, WorkspacePagesProofs <- PagesProofs (TLAPS)
Lists <- Docket, Conversations, ReviewRecords, ReviewDelta, AtlasExplorer, Repositories,
  AppShell, Toasts
Lists <- ListsProofs (TLAPS) <- ReviewPagesProofs, WorkspacePagesProofs
```

**`RoundProtocol`** is the abstract specification of one review: it judges, it may wait
`LastRound - 1` times, an answer opens the next round, it ends, or a person stops it while it waits or
judges. Nothing is promised of the person.

**`ReviewGraph`** is the graph. `node` is the next node to run (the checkpoint's `next`), the
other variables are the fields of `ReviewState`, and there is one action per node: the plain
ones, whose only effect is to hand on, share `PlainNode`; the fan-out is a branch per candidate
with its payload captured at dispatch, and the join merges their outputs with the reducer of
`state.py`. `RecordFailure` is what the service does when any node raises, with the sealing of
the revision the review had opened. A person stops a review in two ways: `Cancel` files the snapshot that
waits again as a stopped one, and seals nothing; `CancelRun` leaves the stream after whichever stage has
returned, and files nothing. `OthersRecord` is another review or a rescope taking the
next case revision. A question is known by its equivalence key; an answer is a key and whether
it was skipped; a verdict is known by the case answers it was judged on and whether it hinges.
`LastRound` is 3, as `_after_questions` has it.

**`ReviewService`** reduces the graph to the round it judges and takes everything around it
apart: each client request is a sequence of steps (`client[c].pc`), each database transaction
or use of the runner's lock a step, the driver thread another (`worker`). The saver's checkpoint
and a worker's own copy of the graph are separate, because two invocations on one thread
id each hold one. `Restart` kills everything in memory and reconciles as `build_runtime` does.
Three external facts about LangGraph are modelled from how the code relies on them: an update
is streamed before its superstep's checkpoint is saved; a resume without a checkpoint raises;
two invocations each load their own copy.

**`BranchReviews`** has several reviews of one branch, each a record `run[r]`, over a branch
whose code, case, policies and model move. A candidate's code is a version number and
its *signature* is what re-keys it. The delta calculator is the operators `CaseMoved`,
`JudgementMoved`, `CorpusMoved`, `Unchanged`, `Succeeded` and `Addressed`, in the order of
the function. `Manifest` is what a snapshot carries for candidates that have no verdict.

**`FindingCache`** has reviews that judge their candidates in parallel against one finding
table. A judgement reads the selection for its key, reads the table, reads the selection again
for the call, and writes the table: four steps. A review is durable in one transaction and
claims its rows in another; a failed review is filed by the plain repository, which claims
nothing. A verdict is known by the review whose judgement it is.

### The pages

A React page is modelled the same way throughout. State a component holds is a variable; a
query's cache is a variable with the server's own truth beside it; a request is a step that
sends, a step in which the server acts and a step in which the answer (or its failure) is handled, so anything
can come between; an effect runs in the step whose render calls it, since nothing the reader does
comes between a render and its effects. A timer is a step that may be late. Derived text is an operator
over the state, and a property compares it with what the server holds.

| module | page | its state against the code's |
|---|---|---|
| `Docket` | rows and decisions | `recorded` is the server's list, `listed` the query cache, `calls` the mutations with the list each keeps for its taking back (`context.previous`); `open`, `filter`, `kept`, `find` and `surface` are the page's; `batches` is what the bar over the rows checked waits for, forgotten when that bar goes |
| `ReviewFollow` | the record on screen | `known` caches what the server said of each record, `watched` and `ended` are the two states of `useRecordToFollow`; records are `<<review, n>>` |
| `RoundForm` | the clarification form | `values`, `skipped`, `own`, `drafts` outlive the card; `opened` and `resume` do not; `record` is what the server took |
| `Conversations` | threads | two families, the Ask tab and the panel under a question; which it is (`panel`) is chosen at the start, and each has bounds of its own |
| `ReviewRecords` | rounds and footnotes | the records a review files, with the facts added on reading |
| `ReviewDelta` | what moved, verdict lines | the listing under a filter while the browser goes back under it |
| `FindingPanel` | one finding opened | each fold's closed line against what it folds; the drawer's search |
| `RepositoryPicker`, `StartReview` | start | the choice, its copy, timers, probes, the ticked folders, presses; `adrift` are words typed that a choice has not taken yet |
| `RunWatch`, `RunNotices` | runs | the poll, the phases drawn, the stop, and the two kinds of promised notice |
| `ReviewHistory`, `Repositories`, `ArchitectureCases`, `Policies`, `ModelSettings` | workspace pages | one listing or two, the form over it, and the actions' answers |
| `AtlasExplorer`, `AtlasCamera` | map | what was asked and drawn; frame, placement and pointers |
| `AppShell` | overlays and palette | `open` is the order they were opened in, `found` what each effect keeps to give back (overflow and opener); `held` is the server's, `lists` the palette's two reads; a walk of the browser takes a page's drawer away under what is over it |
| `Toasts`, `Theme` | notices, theme | what is shown and the timers that outlive it; what each control read and what the page is painted in |
| `GraceWindow` | builds and tabs | one step per file written, in any order, then the ledger; `tab` is the module graph a tab was served and the chunks it was refused |

**`PageState`** is one set of variables for all of them: `page` names the page that is open and
`v1`, `v2`, ... are its variables, in the order its module declares them, `None` where it has
fewer. Pages share nothing in the browser, so one is open at a time and their states add instead of
multiplying. **`ReviewPages`**, **`RunPages`** and **`WorkspacePages`** instantiate the modules, each with
constants of its own (the page's two letters before the module's name for it), **`Pages`** puts the
three together, and **`MCPages`** gives the constants values. A property of these modules is the conjunction of
what one idea means on each page.

**`Lists`** has the one helper the library has only in a form the prover cannot open (`SelectSeq`): what a
filter leaves of a list, as a recursive function.

## Runs

| run | configuration | shows | distinct states |
|---|---|---|---|
| `review_graph` | `MCReviewGraph.cfg` | all safety properties of a review and that it implements `RoundProtocol` | 934,864 |
| `review_service` | `ReviewService.cfg` | one client, every operation, a restart: what waits can be resumed, what was stopped stays stopped, stale pages stop nothing, judging settles | 133,834 |
| `review_service_two_tabs` | `ReviewServiceTwoTabs.cfg` | two clients at once, the operations of a browser: no checkpoint outlives its review, a stopped thread goes no further | 265,096 |
| `branch_reviews` | `MCBranchReviews.cfg` | reviews that overlap, and three in a line: carried verdicts are current, rows are superseded by their own review only, the manifest neither hides nor invents a moved corpus, no candidate is lost | 876,000 |
| `finding_cache` | `MCFindingCache.cfg` | three reviews, two cases, two models, a restart: one verdict per key, under its own case, with a source that holds it | 259,720 |
| `review_follow` | `ReviewFollow.cfg` | a page left open on a review that is answered elsewhere and filed twice more: a reader who sees their record being judged ends on what it produced | 65,061 |
| `pages` | `MCPages.cfg` | twenty-one pages, panels and parts of the shell, one at a time: ten properties of what they say, send and move | 1,167,246 |
| `review_stopped_unsealed` | `MCReviewGraphStopped.cfg` | **violated**: a review stopped in its second wait names a case revision nobody stored | |
| `service_stuck_row` | `ReviewServiceStuckRow.cfg` | **violated**: a row left `running` with nothing behind it | |
| `service_cancelled_run` | `ReviewServiceCancelledRun.cfg` | **violated**: memory says cancelled, the row does not | |
| `branch_stale_verdict` | `MCBranchReviewsStale.cfg` | **violated**: a verdict from before the answers is carried under the case that has them | |
| `cache_model_switch` | `MCFindingCacheModel.cfg` | **violated**: one model's verdict filed under another's key | |

The last five each check one statement quoted from a comment or document of the repository
against what the code does; `findings` in `PROJECT.json` quotes it and describes the behaviour.
The properties with the same subject that the passing runs check are stated so that they hold of the
code as it is, and each exception is a finding, or a disagreement below:

- `UnstoppedReviewsNameStoredRevisions` excepts a review stopped in a wait after its first answers
  (`review_stopped_unsealed`); one stopped in its first wait, which has opened nothing, is not excepted.
- `SoundVerdictsAreCurrent` excepts reviews that ended by a stop or a failure after their answers were
  recorded (`branch_stale_verdict`).
- `OlderRowsAreSuperseded` passes with at most one review unfiled at a time.
- `WaitingReviewsAreResumable` excepts a request sent while the thread was still finishing (`rushed`).
- `ListsHoldWhatThereIs`: decisions overlap, are refused, recorded without an answer, and meet reads of the list
  that fail, come late or are cancelled. It says of each row that the list is the server's, except of a row
  with a decision on its way and of one the page is *unsure* of until the list is next read in full:
  before the first read; decided twice at once; its answer lost; the read that was to show it failed, cancelled by
  the next decision, or answered before it was recorded; moved when another decision's list was put back (the last
  is a disagreement named below). `Docket.unsure` is a history variable that no action reads.
  In its part on the start page the printed count excepts a usual folder left out inside another left-out one.
- `PagesTellTheWorkspace` excepts, on the settings page, the role whose recorded choice lost its answer, until it
  is read again.

### Disagreements that are not run

Other statements of the repository that the models contradict. Each is a definition of the
module, checked by hand with the constants given (or those of the module's instance in `MCPages`), and is
no part of a run.

| statement | definition | what happens |
|---|---|---|
| `workflow/service.py:411`, a round is answered once | `ReviewService.AnswersAreTakenOnce` with `Clients = {c1, c2}`, `Operations = {"start", "resume"}`, `MaxRequests = 2` | both posts pass the check before either writes |
| `workflow/report.py:664`, one number per review | `BranchReviews.OlderRowsAreSuperseded` | with `MaxUnfiled = 2` two reviews read one number and the list shows one |
| `lib/runs.ts:81-84`, a reader of an old record "is never carried off it" | `ReviewFollow.NeverCarriedOff` with `Reviews = {1, 2}`, `MaxRecords = 2` | what was watched on one record is kept when the page shows another |
| `review/decision-bar.tsx:130`, a decision "is taken back if it fails" | `Docket.QuietListTellsTheTruth`, with no fault of `Faults` | the second of two decisions keeps the list with the first one's row for its own taking back: with both refused that row is put back, and the page at rest shows a decision the server never recorded |
| `review/clarification.tsx:566-571`, "with nothing to open nothing closes" | `RoundForm.RowsCloseForAnother` | the row that stands open because it is the first unanswered one closes at the first word written in it when no other is unanswered |
| `review/finding-detail.tsx:431-433`, the counted answers are what the judgement had | `ReviewRecords.JudgedAgainstIsTrue` | the case of the record is counted, and a candidate carried from the review before, or a record filed after a stop, has a verdict from before some of its answers |
| `review/surfaces.tsx:538-539`, "no way to filter yourself into an empty list" | `ReviewDelta.NoFilterEmptiesTheList` | going back several pages keeps the filter over a record that has nothing under it |
| `start/start-page.tsx:254-256`, no repository is indexed a second time meanwhile | `StartReview.IndexedOnceAtATime` | leaving the page and coming back makes a guard that knows nothing of the press under way |
| `presentation/web/routes/reviews.py:72-75`, a client with the run "has the whole of what it was started with" | `StartReview.RunKnowsItsScope` | the scope shown is the repository's, and a second press with other folders left out replaces it |
| `start/repository-picker.tsx:449-457`, naming a branch by hand "stays reachable" | `RepositoryPicker.NamedBranchIsKept` | a name the remote did not list is cleared as it is typed |
| the count of files beside the run button | `StartReview.PrintedCountIsTheScope` without its `Twice`, with a usual folder inside another folder | a folder left out inside one left out already is counted off twice |
| `start/run-progress.tsx:616`, "You will be told when it is done" | `RunWatch.PromisesAreKept` with `Runs = {1, 2}`, `MaxTotal = 0`, `MaxActs = 6` | the promise belongs to the page, not to a run: walking to a finished run spends it, and the first run is promised again and never told of |
| `start/run-progress.tsx:255-257`, "Stopping asks first" | `RunWatch.StoppingAsksFirst` with `Runs = {1, 2}` | a confirmation opened on one run stays open over the next, which it stops |
| `policies/policy-editor.tsx:60-72`, gestures that destroyed a draft now ask first | `Policies.DraftsAreNotLost` | changing the repository whose corpus is listed takes the editor off while the corpus loads, with what was written in it |
| `review/atlas-surface.tsx:658`, "A path of n elements, drawn on the map" | `AtlasExplorer.TracedPathIsDrawn` with `MaxActs = 7` | a kind of edge hidden before the path was asked for hides it |
| `atlas/viewport.ts:89-97`, the frame of a reader who panned or zoomed "is a decision" | `AtlasCamera.ZoomKeepsTheFrame` | zooming close with a card selected hands the frame to the card |
| `settings/settings-page.tsx:362-364`, a provider answers, without this model | `ModelSettings.AnsweringIsKnown` | said while what the provider offers has not been read |
| `repositories/repositories-page.tsx:80-88`, "Nothing on disk had changed since the last atlas" | `Repositories.NoOpsAreNoOps` | a re-index is compared with the newest listing, which a fetch refreshed while it ran and which holds its own result |
| `cases/cases-page.tsx:37-39`, the history holds what the listing tells | `ArchitectureCases.TheHistoryIsWhole` | a history read before a newer revision was filed is not read again |
| `vite-plugins/grace-window.ts`, an open tab does not dead-end across a build | `GraceWindow.EveryDocumentIsKept` | an interrupted build leaves a document the ledger does not know; a tab served it loses its chunks to the next build, as one does when the ledger is lost |
| `ui/command-palette.tsx:256-258`, the option the highlight is on is spoken | `AppShell.TheHighlightIsOnARow` | a list that arrives shorter, or an arrow pressed on an empty list, leaves the highlight on no row |
| `lib/motion.ts:68`, focus is trapped and restored to the opener | `AppShell.FocusStaysInside` | the browser's Back under an open overlay takes the opener away, and closing one of two gives the focus to what is behind the other |
| `lib/motion.ts:136-137`, a page that stops scrolling under an overlay | `AppShell.NothingOpenScrolls` | overlays that close in the order they were opened give back each other's `hidden`: after Back under a drawer and a second overlay, nothing is open and nothing scrolls |
| `ui/toast.tsx:37`, a failure "stays put until it is dismissed" | `Toasts.FailuresStayUntilDismissed` | two notices that follow push it out |
| `settings/settings-page.tsx`, one preference | `Theme.TheControlsAgree` | the toggle of the rail and the choice of the settings page read it once each |
| `lib/theme.ts:35`, a preference that cannot be remembered "still applies for this visit" | `Theme.TheVisitKeepsItsPreference` | a walk past the landing page reads what was kept, which is nothing |

### Bounds

- `ReviewGraph`: two candidates (the join and a stale sibling need two), two facets a question
  can be about, three revisions of room so that another review can take a number before, between
  and after this one's, histories with no, an answered and an asked question.
  Rounds are not bounded by the configuration: three is the code's own limit.
- `ReviewService`: `MaxRequests = 4` lets a start, two answers and a stop, or a retry of any of
  them, meet; two clients are enough for every race on one row, which has one writer at a time;
  one restart anywhere. A restart before any work or after another restart finds no thread and
  changes nothing new.
- `BranchReviews`: two overlapping reviews for the races; three in a line because the manifest's
  hazard is what the *second* review carries for the third. `LastRound = 2` gives one wait. The
  constraint `LongOrAsking` keeps a behaviour either long (three reviews, three changes, no wait) or asking
  (two reviews); a third review after a wait adds nothing that the first two do not. `MaxChanges` bounds edits.
- `FindingCache`: three reviews, because a source is read by a third after a second claimed what a
  first judged; one candidate there, as keys of two candidates never meet; the violation run
  has two so that a failed review files the verdict of a sibling.
- `ReviewFollow`: one review with three records, since the reader can be behind by more than one, and
  two acts of theirs (answering, walking back).
- `MCPages`: each page has the smallest instance in which every action of its module fires:
  two rows, questions, paths, repositories or cases where order or choice between them matters, one
  elsewhere; `MaxActs` and the like bound what the reader does, not what arrives. The docket has two
  decisions in flight at once (a third meets them as the second meets the first), with every fault of
  `DkFaults`, and five steps of its reader, the sending of decisions among them. `Folders` has a folder in
  a folder, the inner one usually skipped, `CardsOf` an empty graph, `EdgesDrawn` an edge of each kind. `EmitsOf` has three sources, two of which share
  a chunk, and four builds of them, so that a tab meets a rebuild that changes nothing, one that is
  interrupted and one that puts it past its window; five notices push one out twice.
- Deadlock is not checked where a bound or an ended review legitimately stops the model;
  `ReviewGraph` checks it, with an explicit `Terminating` step at the ends.

### Fairness

`ReviewGraph` assumes weak fairness of the graph's own steps: LangGraph runs the next node
when the last one returned. It assumes none of a person's answer, nor of other reviews.
`ReviewService` assumes it of a thread that is working and of a request that was received, per
thread and per request, and of no request being sent and no restart. `ReviewFollow` assumes it of the server's own steps, of the poll and of a read on its way, which the
query client repeats, and of the page's effects; none of the reader. Everything in `BranchReviews`,
`FindingCache` and `MCPages` is safety and needs none.

## Proofs

The prover checks, for every value of the constants:

**`ReviewGraphProofs.TypeCorrect`**: `Spec => []TypeOK` for the graph, any finite set of candidates,
facets, histories and bound on revisions. `TypeOK` alone is not inductive: the join merges
whatever the branches wrote and revising a case needs a round to spare. `TypeInv` adds
`BranchesWriteTheirOwn` (a branch's output has at most its own candidate's entry) and
`AskingLeavesARound` (at the nodes of a wait the round is before the last). The lemmas say what
the helper operators keep: `MergedIsAMap`, `StoredRevisions`, `RecordIsAStore`,
`SnapshotsAreTyped`, `KeysOfAnswers`, `NodesOfPlainEdges`.

**Rounds**: `AsksOnce`, `RoundsAreRecorded`, `WaitsAreBounded` and
`OutcomesAreRecorded`, that is `[]NeverAsksTwice`, `[]ARoundIsNeverRefused`, `[]AtMostTwoWaits` and
`[]EveryQuestionHasAnOutcome`. They follow from `RoundInv`. None of them is inductive, since
what a filed wait asked is compared with what is asked a round later, by way of a set that three nodes
write: `RoundInv` says that `excluded` is `KeysOf(case.answers)` at every node, that
each filed wait is the open one or has all its questions in `excluded`, that what is
pending answers the round exactly, and that no revision, stored or open, answers a question twice.

**Filing**: `UnstoppedEndingsAreStored`, `OneRevision`, `IdentitiesDiffer` and
`VerdictsAreOnTheAnswers`, the remaining safety properties of the `review_graph` run. `FilingInv` says
that the number a review opened is the next one unless somebody wrote since
(`OpenedRevisionIsNext`), so a free number is where the seal appends; that rows of this review are its
own case; that nothing but waits is filed before the end; and that a case is only ever opened after the first
round (`OpenedAfterTheFirstRound`), so a stop in the first wait names a revision that was there. `VerdictInv` follows
the answers through the fan-out: a finished branch judged the case as it stands, after an answer all candidates
are selected, so at the barrier (`MergedIsTheVerdicts`) no finding of the round before is left.

**`ReviewGraphProofs.FollowsTheProtocol`**: each step of the graph is a step of
`RoundProtocol` or a stutter, by the mapping of `ReviewGraph`. The fairness conjunct of
`ImplementsRoundProtocol` stays with TLC.

**`FindingCacheProofs`**: `TypeCorrect`, `OneVerdict`, `OwnCase`, `TrueSources` and
`ToolsStayWithTheirReview`, that is `[]TypeOK`, `[]OneVerdictPerKey`, `[]VerdictsAnswerTheirCase`,
`[]SourcesHoldTheirVerdict` and `[]ToolVerdictsAreNotShared`. One inductive invariant, `CacheInv`,
carries the middle three. A property about two filed findings
says nothing about a judgement under way, so `CacheInv` ties each finding, filed or in
hand, to the row its key names (`Anchored`), each reused finding and each row with a source
to a finding that source filed (`Holds`), and each key in hand to its review's case. `StepsGrow`
says why a tie once made holds: no step changes the verdict of a row, takes a filed finding
away or moves the case of a review that has started. Each action then needs only an argument about what it
writes itself (`JobStepSound`, `FilingStep`, `QuietStep`). The last has an invariant of its own, `ToolInv`:
no row of the table rests on a tool, and what a judgement holds under a key rests on one only if
its own review's tool said it.

**`ReviewServiceProofs`**: `TypeCorrect`, `EndedReviewsAreReleased` and `StopsAreHeeded`, that is
`[]TypeOK`, `[]EndedReviewsKeepNoCheckpoint` and `StoppedThreadsGoNoFurther`, for any set of clients,
any last round and any number of requests and restarts. `TypeInv` adds to the types that a position that asks
leaves a round to judge the answers in, and that what a worker carries to where it binds is a
snapshot. The second rests on `EndingsAreReleased`: whenever a row has ended and a checkpoint is
left, some worker is still on its way to `_release` (`ToBeReleased`). The third needs that only the thread's
own step moves it (`OnlyItsOwnWorkerMoves`).

**With one client**: `StalePagesDoNothing`, `StopsAreFinal` and
`WaitingReviewsKeepTheirCheckpoint`, that is `StalePagesStopNothing`, `StoppedReviewsStayStopped` and
`[]WaitingReviewsAreResumable`, assuming `OneClient`. The assumption is needed: with two clients TLC
violates each, since both pass a check before either writes, and it still leaves the race of
the client with the thread its requests started. A check and the step it guards are separate steps, so `SettledInv` says that what was
checked holds until it is acted on (`ChecksHold`), because the row only moves while a worker is
`Active` and none is while the row waits (`AwaitingIsCalm`) or stands on a stopped snapshot
(`StoppedIsOver`). What any step of a worker may do is stated once (`WorkerMay`) and every
action is shown to do no more. `PlaceInv` follows the checkpoint: while nobody hurried the thread, the worker at work
is alone and stands where the saver does (`InPlace`), so what it binds names the round
of the checkpoint.

**`BranchReviewsProofs`**: all of the passing run: `TypeCorrect`,
`CarriedVerdictsOfSoundReviewsAreCurrent`, `JudgementsHaveAReason`, `TheGoneAreAccountedFor`,
`NumbersAreKept` and `NumbersAreOfOneReview`, that is `[]` of `TypeOK`, `SoundVerdictsAreCurrent`,
`NothingIsJudgedForNothing`, `GoneCandidatesAreAccountedFor`, `ReviewsKeepTheirNumber` and, where
`MaxUnfiled <= 1`, `OlderRowsAreSuperseded`: for any candidates, signatures, versions, models, corpora
and rounds, and any number of reviews that overlap. What a delta carries is only as
good as what the row before says of itself, so `VerdictInv` is about rows: a manifest says what
the verdict of a row was reached under wherever it speaks of one, and that of a sound row speaks of each, on
the row's case (`RowIsTrue`). It holds of the row a review files because of `RunIsTrue`: what a
review holds it judged under the corpus it retrieved, or took over as it was
(`VerdictsHaveASource`), and what is not selected has been judged on the case at
hand (`RestIsOfTheCase`), which an answer keeps by selecting everything. `NumberInv` ties each row to the number its review counts from
the review before. `UniqueInv` adds that of two reviews under way one has a row: its number
is then taken where the other looks for the highest, which is where the assumption is used and where, with
`MaxUnfiled = 2`, TLC finds the two rows of one number. `TypeInv` needs that reviews begin
in their order, since a review's number has to stay below the bound, and that some row is the
highest *and* the last of its number (`HasAHighest`), or `Latest` would be no row.

### The pages

`Pages.Next` is a step of the page that is open, so an invariant of all pages is one of each page
guarded by its name: `WorkspaceInvariant`, `RunInvariant` and `ReviewInvariant` are the conjunctions of the
pages' own `IInv`, each stated in its module next to what it carries. `WorkspacePagesProofs` and
`ReviewPagesProofs` show page by page that it holds at first, that every step keeps it and what it
implies; `PagesProofs` adds that a step of one group leaves the others alone, and the types of the policies and repositories pages.
`ListsProofs` has what both need about lists. The library's induction cannot be
instantiated, so a fact about every list is got by the least length that would be an exception
(`LeastNumber`).

**`PagesProofs.WorkspaceIsTold`** (`[]PagesTellTheWorkspace`): settings, policies, cases, builds,
shell, notices and theme. What carries them is what lies between the request and its answer:
a reading on its way is what the server held or will be read again
(`ReadingsFollowTheChoice`), a tab is of a build the ledger still keeps (`TabsAreOfTheLedger`),
an overlay gives back what it found of the page and of those under it.

**`ChoicesHold`**, **`RunsAreWatchedTruly`** (`[]ChoicesHoldTogether`, `[]RunsAreReportedTruly`): the copy of the
start page's choice is the choice (`MemoryIsTheForm`), each set of left-out folders is of its repository
wherever it is kept (`ScopesAreKept`), a press is at work exactly while the page of its visit says so
(`PhaseIsOfThePress`); a poll is of the page that asked, a promise of the run it was made for or spent.

**`TheMapIsTrue`**, **`AnswersHold`** (`[]TheMapShowsWhatWasAsked`, `[]AnswersAreWhatWasSaid`). The
map's invariant says that what was searched, traced or moved to was answered; it uses that the
edges of a path or of cycles join elements of that answer, as `query_service.py` builds them. The
camera's says that a kernel at rest has answered for the graph drawn (`TheKernelHasAnswered`) and that a click
is to be dropped just when its press moved (`ThePressIsRemembered`). The form's says that a visit has one post
of its own, and that the form is held while it is pending; a conversation's that a thread once
read is not read older (`ReadsAreNewer`).

**`RecordsAreReadTruly`** (`[]RecordsReadTrue`): only the last record ends (`OnlyTheLastEnds`),
its answers are of earlier rounds, and each question of a record is answered in the one that
replaced it or asked there again (`QuestionsAreFollowedUp`), so a footnote may point there.

**`WorkMoves`** (`WorkMovesToWhatIsLeft`): the order of the docket is total, so every finding the search shows
has a place in it, and the first in it that needs attention after the one decided is found, or none
is left.

**`NothingMoves`** (`NothingMovesUnderTheReader`): listings only grow while an atlas
is open, a draft is in an open editor only, and the frame is the reader's until another graph comes.

**`TypesHold`** (`[]TypeOK`), of all pages. Types that the invariants do not carry are stated per page
(`PickerTypes`, `CasesTypes`, `OverlaysTypes`, ...), and some need more than types: the
palette's highlight is bounded because its rows are no more than its three lists; a map's
requests are listed once, or there would be more of them than there are; a case on screen
is one that has been sealed.

**`SureRowsAreTheServers`** (`[]DocketTellsTheTruth`): the docket's part of `ListsHoldWhatThereIs`, for any
findings and any number of decisions in flight, with every fault. `SureRowsAreAccountedFor` says of each row the page
is sure of that at most one decision on its way is on it and what the list then holds, by the decision's state
(`Decided`): what one on a single row puts back is the server's while it is sent, the server has it once
recorded; one on many is in the list only after the read that follows. A step is argued for a row at a time: most leave
the row and its decisions alone (`RowKept`), the others change the one decision it has (`RowDecided`).

Proving changed the modules where an invariant did not hold: two guards of `RunWatch.PhaseMark`
overlapped, which left the mark of a phase to the choice of a `CASE`; and the map's first render did not yet
run the effects of its mount. Both are now as the code has them, and the runs were repeated.

### Assumptions and limits

Assumed are the named `ASSUME`s of the modules, which TLC evaluates in the runs. On the server's
side the constants are numbers where
they should be, the candidates of a branch are finitely many, and the empty key and the absent review are no key
and no review. On the pages' side:

- `None` and `Asked` are not among the values they stand beside (answers, lists, drafts, runs and sets
  of them, preferences, sources), and bounds are numbers.
- What a page is given is finite where it is counted: candidates, questions, repositories, reviews
  of a history, elements of a map.
- Lists are lists: the shell's three, the decisions a docket starts from, the delta's candidates in the
  server's order, each once, and what an earlier visit asked of a map, each once.
- What the data is like: a folder that lies in another holds none (`scope-picker.tsx` lists two
  levels), the paths and cycles of a map as above.

Only model-checked, and why: `ListsHoldWhatThereIs` as a whole, whose other parts speak of sums and of flattened
lists, beyond the facts of `ListsProofs`; `ReviewFollow.FollowTypeOK`; liveness (`JudgingSettles`, `WatchedWorkIsFollowed`, the
fairness part of `ImplementsRoundProtocol`), for which the prover has no rule for `ENABLED`.

## What is not modelled, and why

- What a judge, a retriever or a detector says: any verdict, any retrieved set, any edit.
- The judgement's tool loop and retries run in one thread inside one judgement, which is one step of
  the modules; session runtimes, hosted admission, source storage and checkouts decide which
  workspaces and trees exist, and the modules are of one workspace; the policy index and
  embeddings are numeric.
- Two processes on one workspace: `ReviewService` is one process and its restarts.
- SQLite itself: a transaction is one step; migrations are left out.
- Parsing, prompts, the command line: no state that outlives a call.
- In the browser: the landing page, the rest of the interface kit (`ui/`), the fetch wrapper
  and the generated interface hold no state a person relies on; the map's layout and geometry are
  numeric; wording, colour and motion are left out unless a property is about what is said.
- Two tabs of one browser are two clients of `ReviewService`; a page's module has one tab and takes
  what another does as a change of the server's state.
