-------------------------------- MODULE Pages --------------------------------
(* The pages of the workbench, one of them open at a time.                 *)
EXTENDS ReviewPages, RunPages, WorkspacePages

CONSTANT Pages \* the pages that may be open

Init == page \in Pages /\ (ReviewInit \/ RunInit \/ WorkspaceInit)

Next == ReviewNext \/ RunNext \/ WorkspaceNext

Spec == Init /\ [][Next]_vars

-----------------------------------------------------------------------------
TypeOK == ReviewTypeOK /\ RunTypeOK /\ WorkspaceTypeOK

\* What a page lists or counts is what there is, each once: the decisions of a docket while
\* others overlap, fail and come late, the rounds and the candidates of a record, the files a run
\* will read (decision-bar.tsx 130-183, surfaces.tsx, scope-picker.tsx).
ListsHoldWhatThereIs ==
    /\ DocketTellsTheTruth
    /\ page = "Rr" => Rr!RoundsAreWhole
    /\ page = "Rd" => Rd!EveryCandidateIsListed
    /\ page = "Sr" => Sr!PrintedCountIsTheScope

\* Deciding a finding or answering a question takes the reader to one that still wants them,
\* and to none only when none is left (docket.tsx 1421-1485, clarification.tsx 559-582).
WorkMovesToWhatIsLeft ==
    [][ /\ page = "Dk" => Dk!AdvanceFindsWhatIsLeft
        /\ page = "Rf" => Rf!TheRoundMovesToWhatIsLeft ]_vars

\* Nothing that arrives takes from the reader what they are at: the atlas they opened, the
\* frame they set, the draft they are writing (repositories-page.tsx, viewport.ts,
\* policies-page.tsx).
NothingMovesUnderTheReader ==
    [][ /\ page = "Re" => Re!TheOpenAtlasStays
        /\ page = "Ac" => Ac!TheReadersFrameIsKept
        /\ page = "Po" => Po!KnownDraftsAreAskedAbout ]_vars
=============================================================================
