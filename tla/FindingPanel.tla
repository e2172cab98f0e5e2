---------------------------- MODULE FindingPanel ----------------------------
(***************************************************************************)
(* One finding, opened (features/review: finding-detail.tsx,               *)
(* investigation.tsx, lookup-result.tsx), and the drawer of its judgement's*)
(* context beside it (context-rail.tsx).  Most of it is a record written   *)
(* out, in folds whose closed line has to be true of what they fold away.  *)
(* The drawer's search of the repository's structure is the one thing of   *)
(* the record's page that asks the server about a candidate, and the drawer*)
(* stays open while the reader goes from one candidate to the next.        *)
(***************************************************************************)
EXTENDS Integers, Sequences, FiniteSets

CONSTANTS Candidates, \* the candidates of the review
          None, Asked, \* model values
          MaxSearches  \* bound on the searches sent

\* What is assumed of the constants.
PanelAssumption == None \notin Candidates /\ MaxSearches \in Nat

VARIABLES bore,          \* per candidate, the policies its judgement weighed
          retrieval,     \* per candidate, what retrieval found, or None if not recorded
          investigation, \* per candidate, what was looked up, or None
          open,          \* the candidate whose row is open, or None
          drawer,        \* whether the drawer is open
          tab,           \* its tab
          query,         \* the words in its search box: None, a candidate's name or the reader's own
          search,        \* its last search: [of, state], or None
          flights,       \* searches sent and not answered, in order
          sent           \* how many were sent

record == <<bore, retrieval, investigation>>
vars == <<bore, retrieval, investigation, open, drawer, tab, query, search, flights, sent>>

Tabs == {"case", "policies", "structure", "provenance"}
Endings == {"natural_end", "lookup_limit", None}
Lookups == {<<>>, <<[tool |-> "grep", lines |-> <<"path">>]>>,
            <<[tool |-> "read_file", lines |-> <<"numbered", "text">>], [tool |-> "grep", lines |-> <<"none">>]>>}

Investigations ==
    {None} \cup {i \in [lookups : Lookups, termination : Endings, withheld : BOOLEAN] :
                   i.withheld => i.lookups = <<>>}
Retrievals == {None} \cup {r \in [selected : 0 .. 2, corpus : {"empty", "some"}] : r.corpus = "empty" => r.selected = 0}

Init ==
    /\ \E b \in 0 .. 1, r \in Retrievals, i \in Investigations :
         /\ r # None => b <= r.selected
         /\ bore = [c \in Candidates |-> b]
         /\ retrieval = [c \in Candidates |-> r]
         /\ investigation = [c \in Candidates |-> i]
    /\ open \in Candidates \cup {None}
    /\ drawer = FALSE /\ tab = "case"
    /\ query = None /\ search = None /\ flights = <<>> /\ sent = 0

(***************************************************************************)
(* What the finding says                                                   *)
(***************************************************************************)
\* Who judged, and over which policies.
RetrievalLabel(c) ==
    CASE retrieval[c] # None -> "retriever and version"
      [] retrieval[c] = None /\ bore[c] > 0 -> "retrieval identity"
      [] OTHER -> "no retrieval"

Line(says, n, of) == [says |-> says, n |-> n, of |-> of]

\* The closed line of the fold "Policies": four ways to have none are told apart.
PoliciesSummary(c) ==
    CASE retrieval[c] = None /\ bore[c] > 0 -> Line("applied, search not recorded", bore[c], 0)
      [] retrieval[c] = None /\ bore[c] = 0 -> Line("no retrieval recorded", 0, 0)
      [] retrieval[c] # None /\ bore[c] = 0 /\ retrieval[c].corpus = "empty" -> Line("no corpus", 0, 0)
      [] retrieval[c] # None /\ retrieval[c].corpus = "some" /\ retrieval[c].selected = 0 ->
            Line("searched, and nothing came back", 0, 0)
      [] OTHER -> Line("applied of", bore[c], retrieval[c].selected)

\* What the fold holds: the policies that bore, and a footnote on what retrieval found.
Policies(c) ==
    [bearing |-> bore[c], recorded |-> retrieval[c] # None,
     found |-> IF retrieval[c] = None THEN 0 ELSE retrieval[c].selected]

\* The identities a reader may copy.
Provenance(c) ==
    {"candidate", "judge", "prompt", "retrieval"}
      \cup (IF investigation[c] = None THEN {} ELSE {"investigation"})
      \cup (IF retrieval[c] = None THEN {} ELSE {"retriever", "corpus"})

(***************************************************************************)
(* What was looked up                                                      *)
(***************************************************************************)
Ending(why) == IF why = None THEN "end not recorded" ELSE "cut short"

\* The closed line: how much was looked up, and whether the looking ran out.
InvestigationSummary(i) ==
    CASE i.lookups = <<>> /\ i.withheld -> Line("nothing could be looked up", 0, "natural_end")
      [] i.lookups = <<>> /\ ~i.withheld /\ i.termination = "lookup_limit" -> Line("cut short", 0, "cut short")
      [] i.lookups = <<>> /\ ~i.withheld /\ i.termination # "lookup_limit" -> Line("no lookup was made", 0, "natural_end")
      [] i.lookups # <<>> /\ i.termination = "natural_end" -> Line("lookups", Len(i.lookups), "natural_end")
      [] OTHER -> Line("lookups", Len(i.lookups), Ending(i.termination))

\* The fold: each lookup, why nothing could be, and a last line when it did not end by itself.
InvestigationTranscript(i) ==
    [rows |-> [k \in DOMAIN i.lookups |-> i.lookups[k].tool],
     withheld |-> i.withheld,
     stopped |-> i.lookups # <<>> /\ i.termination # "natural_end"]

\* A file's lines keep their numbers if every line has one, and paths are listed if every line
\* is one; any other result is printed as it came.
SplitGutter(lines) == \A k \in DOMAIN lines : lines[k] = "numbered"
PathLines(lines) == lines # <<>> /\ \A k \in DOMAIN lines : lines[k] = "path"

LookupResult(l) ==
    CASE l.tool = "read_file" /\ SplitGutter(l.lines) -> "numbered code"
      [] l.tool = "grep" /\ l.lines = <<"none">> -> "nothing matched"
      [] l.tool = "grep" /\ PathLines(l.lines) -> "list of paths"
      [] OTHER -> "as it came"

(***************************************************************************)
(* The drawer                                                              *)
(***************************************************************************)
\* The tab "Policies" of the drawer.
ContextPolicies(c) ==
    CASE c = None -> Line("select a candidate", 0, 0)
      [] c # None /\ bore[c] = 0 -> Line("retrieval returned none that bears", 0, 0)
      [] OTHER -> Line("policies", bore[c], IF retrieval[c] = None THEN 0 ELSE retrieval[c].selected)

\* The tab "Structure" is made anew for every candidate it opens on, and seeded with its name.
Searching(of) ==
    /\ search' = [of |-> of, state |-> "pending"]
    /\ flights' = Append(flights, of)
    /\ sent' = sent + 1

Remake(c) ==
    /\ query' = c
    /\ IF c = None THEN search' = None /\ UNCHANGED <<flights, sent>> ELSE Searching(c)

Shown == drawer /\ tab = "structure"

OpenContext ==
    /\ open # None /\ ~drawer /\ sent < MaxSearches
    /\ drawer' = TRUE
    /\ IF tab = "structure" THEN Remake(open) ELSE UNCHANGED <<query, search, flights, sent>>
    /\ UNCHANGED <<record, open, tab>>

CloseContext ==
    /\ drawer
    /\ drawer' = FALSE /\ search' = None /\ query' = None
    /\ UNCHANGED <<record, open, tab, flights, sent>>

PickTab(t) ==
    /\ drawer /\ t # tab /\ sent < MaxSearches
    /\ tab' = t
    /\ CASE t = "structure" -> Remake(open)
         [] OTHER -> search' = None /\ query' = None /\ UNCHANGED <<flights, sent>>
    /\ UNCHANGED <<record, open, drawer>>

OpenRow(c) ==
    /\ c # open /\ sent < MaxSearches
    /\ open' = c
    /\ IF Shown THEN Remake(c) ELSE UNCHANGED <<query, search, flights, sent>>
    /\ UNCHANGED <<record, drawer, tab>>

TypeQuery(words) ==
    /\ Shown /\ query # words
    /\ query' = words
    /\ UNCHANGED <<record, open, drawer, tab, search, flights, sent>>

\* Enter searches again even while a search is on its way; the button waits for it.
Search ==
    /\ Shown /\ query # None /\ sent < MaxSearches
    /\ Searching(query)
    /\ UNCHANGED <<record, open, drawer, tab, query>>

\* An answer is of the search shown only if that is the last one sent from here.
Arrives(k) ==
    /\ flights' = [j \in 1 .. Len(flights) - 1 |-> IF j < k THEN flights[j] ELSE flights[j + 1]]
    /\ IF search # None /\ k = Len(flights) /\ search.state = "pending"
       THEN \E s \in {"nodes", "no node", "failed"} : search' = [search EXCEPT !.state = s]
       ELSE UNCHANGED search
    /\ UNCHANGED <<record, open, drawer, tab, query, sent>>

Next ==
    \/ OpenContext \/ CloseContext \/ Search
    \/ \E t \in Tabs : PickTab(t)
    \/ \E c \in Candidates \cup {None} : OpenRow(c)
    \/ \E w \in {None, "words"} : TypeQuery(w)
    \/ \E k \in DOMAIN flights : Arrives(k)

Spec == Init /\ [][Next]_vars

-----------------------------------------------------------------------------
TypeOK ==
    /\ open \in Candidates \cup {None}
    /\ drawer \in BOOLEAN /\ tab \in Tabs
    /\ query \in Candidates \cup {None, "words"}
    /\ search = None \/ search.state \in {"pending", "nodes", "no node", "failed"}
    /\ sent \in 0 .. MaxSearches

\* What was recorded of the candidates is of a piece, and a search shown, like the words in the
\* box, is one of the structure of the candidate that is open.
IInv ==
    /\ \A c \in Candidates :
          /\ retrieval[c] \in Retrievals /\ investigation[c] \in Investigations /\ bore[c] \in 0 .. 1
          /\ retrieval[c] # None => bore[c] <= retrieval[c].selected
    /\ query \in {None, open, "words"} \/ ~Shown
    /\ search # None => Shown /\ search \in [of : {open, "words"}, state : {"pending", "nodes", "no node", "failed"}]

\* The structure shown is around the candidate that is open, or what the reader searched for
\* since it was opened: never the neighbourhood of the candidate they came from.
StructureIsOfTheCandidate ==
    Shown /\ search # None => search.of \in {open, "words"}

\* A fold's closed line says what opening it shows: how many policies bore and out of how many,
\* that nothing was searched only where nothing was, and that a looking was cut short exactly
\* where the transcript says it stopped.
ClosedLinesAreTrue ==
    \A c \in Candidates :
       LET line == PoliciesSummary(c)
           i == investigation[c]
       IN  /\ line.n = Policies(c).bearing /\ line.of = Policies(c).found
           /\ line.says = "searched, and nothing came back" => retrieval[c].corpus = "some"
           /\ line.says = "no corpus" <=> retrieval[c] # None /\ retrieval[c].corpus = "empty"
           /\ i # None =>
                /\ InvestigationTranscript(i).stopped <=> i.lookups # <<>> /\ InvestigationSummary(i).of # "natural_end"
                /\ i.withheld => InvestigationSummary(i).says = "nothing could be looked up"
=============================================================================
