----------------------------- MODULE GraceWindow -----------------------------
(***************************************************************************)
(* The builds of the frontend and the tabs that outlive them               *)
(* (vite-plugins/grace-window.ts, src/app/error-boundary.tsx, src/App.tsx, *)
(* presentation/web/app.py). A build deletes the document and every chunk  *)
(* but those of the build before it, writes its own chunks and the         *)
(* document that names them, then the ledger; it may be interrupted        *)
(* anywhere. A tab holds the module graph of the build it was served and   *)
(* fetches a chunk of it when it first walks to a route that needs one.    *)
(***************************************************************************)
EXTENDS Naturals, Sequences, FiniteSets

CONSTANTS Sources, \* what the application may be built from
          Emits,   \* the chunks of a build of it: a name changes with the bytes it holds
          Routes,  \* the addresses of the application
          Chunk,   \* by source and route, the chunk it is drawn from, or None
          Tabs, None,
          MaxBuilds, MaxActs

Chunks == UNION {Emits[s] : s \in Sources}

\* What is assumed of the constants.
GraceAssumption ==
    /\ Chunk \in [Sources -> [Routes -> Chunks \cup {None}]]
    /\ \A s \in Sources, r \in Routes : Chunk[s][r] \in Emits[s] \cup {None}
    /\ None \notin Sources /\ MaxBuilds \in Nat /\ MaxActs \in Nat

VARIABLES assets,   \* the chunks on disk
          index,    \* the source whose document is on disk, or None
          ledger,   \* the chunks of the builds that were recorded, newest first
          whole,    \* whether the build of the document on disk came to its end
          build,    \* Idle, or [of, retained, left, written] of the build under way
          tab,      \* by tab, Closed or [of, route, at, refused, whole, behind, spent]
          builds, acts

disk == <<assets, index, ledger, whole>>
vars == <<disk, build, tab, builds, acts>>

Retained == 1

Idle == [at |-> "idle"]
Closed == [at |-> "closed"]

Init ==
    /\ assets = {} /\ index = None /\ ledger = <<>> /\ whole = FALSE /\ build = Idle
    /\ tab = [t \in Tabs |-> Closed]
    /\ builds = 0 /\ acts = 0

(***************************************************************************)
(* Building                                                                *)
(***************************************************************************)
FirstOf(s, n) == SubSeq(s, 1, IF n < Len(s) THEN n ELSE Len(s))

Flat(generations) == UNION {generations[i] : i \in DOMAIN generations}

\* A tab that was a build behind when another began has been past its window since.
BuildStart(s) ==
    /\ build = Idle /\ builds < MaxBuilds
    /\ builds' = builds + 1
    /\ build' = [at |-> "emitting", of |-> s, retained |-> FirstOf(ledger, Retained),
                 left |-> Emits[s], written |-> FALSE]
    /\ index' = None /\ whole' = FALSE
    /\ assets' = assets \cap Flat(build'.retained)
    /\ tab' = [t \in Tabs |-> IF tab[t] # Closed /\ tab[t].behind > 0
                              THEN [tab[t] EXCEPT !.spent = TRUE] ELSE tab[t]]
    /\ UNCHANGED <<ledger, acts>>

EmitChunk(c) ==
    /\ build # Idle /\ c \in build.left
    /\ assets' = assets \cup {c}
    /\ build' = [build EXCEPT !.left = @ \ {c}]
    /\ UNCHANGED <<index, ledger, whole, tab, builds, acts>>

\* The document is one more file of the output, written in no order with the chunks.
WriteIndex ==
    /\ build # Idle /\ ~build.written
    /\ index' = build.of /\ build' = [build EXCEPT !.written = TRUE]
    /\ UNCHANGED <<assets, ledger, whole, tab, builds, acts>>

\* The names of the chunks the build wrote.
Fresh == Emits[build.of]

WriteBundle ==
    /\ build # Idle /\ build.left = {} /\ build.written
    /\ ledger' = FirstOf(<<Fresh>> \o build.retained, Retained + 1)
    /\ build' = Idle /\ whole' = TRUE
    /\ tab' = [t \in Tabs |-> IF tab[t] = Closed THEN Closed ELSE [tab[t] EXCEPT !.behind = @ + 1]]
    /\ UNCHANGED <<assets, index, builds, acts>>

Interrupted ==
    /\ build # Idle /\ build' = Idle
    /\ UNCHANGED <<disk, tab, builds, acts>>

\* The ledger is in node_modules, and goes with it; so does what was promised to the tabs.
LedgerLost ==
    /\ ledger # <<>> /\ build = Idle
    /\ ledger' = <<>> /\ whole' = FALSE
    /\ tab' = [t \in Tabs |-> IF tab[t] = Closed THEN Closed ELSE [tab[t] EXCEPT !.whole = FALSE]]
    /\ UNCHANGED <<assets, index, build, builds, acts>>

(***************************************************************************)
(* Tabs                                                                    *)
(***************************************************************************)
Acts == acts < MaxActs /\ acts' = acts + 1

\* A tab of the document that is on disk, at the address r; without one it is answered 503.
Served(r) ==
    IF index = None THEN Closed
    ELSE [at |-> "screen", of |-> index, route |-> r, refused |-> {}, whole |-> whole,
          behind |-> 0, spent |-> FALSE]

Needed(v) == Chunk[v.of][v.route]

\* What a tab shows where it now stands: a chunk that is not there is refused, and one that
\* was refused once is refused for as long as the tab lives.
Drawn(v) ==
    IF v = Closed \/ Needed(v) = None THEN v
    ELSE IF Needed(v) \in assets \ v.refused THEN v
    ELSE [v EXCEPT !.at = "chunk", !.refused = @ \cup {Needed(v)}]

Loads(t, r) ==
    /\ Acts /\ tab[t] = Closed
    /\ tab' = [tab EXCEPT ![t] = Drawn(Served(r))]
    /\ UNCHANGED <<disk, build, builds>>

\* Walking elsewhere, from a screen or from what stands where one failed.
Walks(t, r) ==
    /\ Acts /\ tab[t] # Closed /\ tab[t].route # r
    /\ tab' = [tab EXCEPT ![t] = Drawn([@ EXCEPT !.route = r, !.at = "screen"])]
    /\ UNCHANGED <<disk, build, builds>>

Throws(t) ==
    /\ Acts /\ tab[t] # Closed /\ tab[t].at = "screen"
    /\ tab' = [tab EXCEPT ![t].at = "fault"]
    /\ UNCHANGED <<disk, build, builds>>

TryAgain(t) ==
    /\ tab[t].at = "fault"
    /\ tab' = [tab EXCEPT ![t] = Drawn([@ EXCEPT !.at = "screen"])]
    /\ UNCHANGED <<disk, build, builds, acts>>

\* Offered where a screen stopped and where a chunk never arrived.
Reload(t) ==
    /\ Acts /\ tab[t].at \in {"fault", "chunk"}
    /\ tab' = [tab EXCEPT ![t] = Drawn(Served(tab[t].route))]
    /\ UNCHANGED <<disk, build, builds>>

Next ==
    \/ \E s \in Sources : BuildStart(s) \/ \E c \in Emits[s] : EmitChunk(c)
    \/ WriteIndex \/ WriteBundle \/ Interrupted \/ LedgerLost
    \/ \E t \in Tabs : \/ \E r \in Routes : Loads(t, r) \/ Walks(t, r)
                       \/ Throws(t) \/ TryAgain(t) \/ Reload(t)

Spec == Init /\ [][Next]_vars

-----------------------------------------------------------------------------
Builds == [at : {"emitting"}, of : Sources, retained : Seq(SUBSET Chunks), left : SUBSET Chunks, written : BOOLEAN]

Views == [at : {"screen", "fault", "chunk"}, of : Sources, route : Routes, refused : SUBSET Chunks,
          whole : BOOLEAN, behind : Nat, spent : BOOLEAN]

TypeOK ==
    /\ assets \subseteq Chunks /\ index \in Sources \cup {None} /\ whole \in BOOLEAN
    /\ ledger \in Seq(SUBSET Chunks) /\ Len(ledger) \in 0 .. Retained + 1
    /\ build \in {Idle} \cup Builds /\ (build # Idle => build.left \subseteq Emits[build.of])
    /\ tab \in [Tabs -> {Closed} \cup Views]
    /\ builds \in 0 .. MaxBuilds /\ acts \in 0 .. MaxActs

\* A tab open across one rebuild finds every chunk it may still ask for, whatever builds were
\* interrupted in between and whether or not the rebuild changed anything: it is past its
\* window only once a build begins after another has been recorded (grace-window.ts 66-73,
\* App.tsx 52-57).
TabsOutliveARebuild ==
    \A t \in Tabs : tab[t] # Closed /\ tab[t].whole /\ ~tab[t].spent
        => Emits[tab[t].of] \subseteq assets /\ tab[t].at # "chunk"

\* The document of a build that ended names chunks that are there to be fetched, so the reload
\* that is offered where a chunk never arrived brings the screen (error-boundary.tsx 54-82).
TheDocumentIsWhole ==
    /\ whole => index # None /\ Emits[index] \subseteq assets
    /\ \A t \in Tabs : tab[t] # Closed /\ tab[t].of = index /\ tab[t].at = "chunk"
           => tab[t].behind > 0 \/ ~tab[t].whole \/ tab[t].spent

\* What the proof of the two rests on. A build has written what it has not left to write, and
\* the document of one that ended names the newest chunks of the ledger; a tab that may still
\* ask for chunks was refused none, and is either of the newest build of the ledger or a build
\* behind it, with no build begun since.
TheBuildIsWritten ==
    build # Idle => Emits[build.of] \ build.left \subseteq assets /\ (build.written => index = build.of)

Newest(s) == ledger # <<>> /\ ledger[1] = Emits[s]

TheDocumentIsRecorded ==
    whole => index # None /\ Emits[index] \subseteq assets /\ Newest(index) /\ build = Idle

TabsAreOfTheLedger ==
    \A t \in Tabs : tab[t] # Closed /\ tab[t].whole /\ ~tab[t].spent =>
        /\ tab[t].refused = {}
        /\ IF tab[t].behind = 0 THEN Newest(tab[t].of) ELSE build = Idle

IInv == TypeOK /\ TheBuildIsWritten /\ TheDocumentIsRecorded /\ TabsAreOfTheLedger /\ TabsOutliveARebuild

\* Every document a tab was served is of a build the next one keeps.
\* Not run: the code does otherwise (README, disagreements that are not run).
EveryDocumentIsKept ==
    \A t \in Tabs : tab[t] # Closed /\ tab[t].behind = 0 => tab[t].at # "chunk"
=============================================================================
