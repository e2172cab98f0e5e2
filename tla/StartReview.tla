----------------------------- MODULE StartReview -----------------------------
(***************************************************************************)
(* Starting a review (features/start/start-page.tsx, choice.ts,            *)
(* scope-picker.tsx): the choice the page owns and its copy that outlives  *)
(* the page, the folders left out, the press that indexes the repository   *)
(* and then asks for a run, and the run page's way back.                   *)
(***************************************************************************)
EXTENDS Integers, FiniteSets, Sequences, FiniteSetsExt

CONSTANTS Roots,   \* repositories
          Tree,    \* the folders of each
          Parent,  \* the folder each folder lies in, or None
          Files,   \* the Python files directly in each
          Usual,   \* folders whose name is one usually skipped
          None,    \* model value
          MaxActs, MaxPresses \* bounds on what the reader does

Folders == UNION {Tree[r] : r \in Roots}

\* What is assumed of the constants.
StartAssumption ==
    /\ None \notin Roots \cup Folders
    /\ DOMAIN Tree = Roots
    /\ Parent \in [Folders -> Folders \cup {None}] /\ Files \in [Folders -> Nat]
    /\ \A f \in Folders : Parent[f] # None => Parent[Parent[f]] = None
    /\ Usual \subseteq Folders /\ MaxActs \in Nat /\ MaxPresses \in Nat

VARIABLES at,         \* start, run or away
          form,       \* what the start page shows: [root, excluded, clean]
          remembered, \* its copy in the module
          mount,      \* how often the page has been opened
          phase,      \* idle, indexing or starting
          failure,    \* whether a press of this visit failed
          models,     \* whether both models are chosen
          tree,       \* per repository: unread, read or failed
          presses,    \* each press: [root, excluded, clean, mount, state]
          scope,      \* the folders the workspace leaves out of each repository
          acts

page == <<at, form, remembered, mount, phase, failure>>
vars == <<page, models, tree, presses, scope, acts>>

Under(f) == {g \in Folders : g = f \/ Parent[g] = f}
Sum(S) == MapThenSumSet(LAMBDA f : Files[f], S)

\* What an index leaves out: a folder inside another that is left out says nothing more.
Collapsed(excluded) == {f \in excluded : Parent[f] \notin excluded}

\* The files that are read.
FilesRead(r, excluded) == Sum(Tree[r] \ UNION {Under(f) : f \in excluded})

\* The number the page prints for them, from the count each folder is listed with.
FilesInScope(r, excluded) ==
    Sum(Tree[r]) - MapThenSumSet(LAMBDA f : Sum(Under(f)), excluded \cap Tree[r])

Choice == [root : Roots \cup {None}, excluded : SUBSET Folders, clean : BOOLEAN]
Nothing == [root |-> None, excluded |-> {}, clean |-> FALSE]

Init ==
    /\ at = "start" /\ form = Nothing /\ remembered = Nothing /\ mount = 1
    /\ phase = "idle" /\ failure = FALSE
    /\ models \in BOOLEAN
    /\ tree = [r \in Roots |-> "unread"]
    /\ presses = << >>
    /\ scope = [r \in Roots |-> {}]
    /\ acts = 0

Acts == acts < MaxActs /\ acts' = acts + 1

-----------------------------------------------------------------------------
(* The choice.                                                             *)
Show(f) == form' = f /\ remembered' = f

\* The page is made anew, and shows the choice c.
Opens(c) ==
    /\ at' = "start" /\ mount' = mount + 1 /\ phase' = "idle" /\ failure' = FALSE
    /\ Show(c)

\* An arriving link that names a repository wins over what the last visit left behind.
Open == Acts /\ at # "start" /\ Opens(remembered) /\ UNCHANGED <<models, tree, presses, scope>>

\* The repositories page hands a repository over.
OpenHanded(r) ==
    /\ Acts /\ at # "start"
    /\ Opens([root |-> r, excluded |-> {}, clean |-> FALSE])
    /\ UNCHANGED <<models, tree, presses, scope>>

\* The run page hands over the repository and the scope the workspace has for it.
StartAgain(i) ==
    /\ Acts /\ at = "run"
    /\ presses[i].state = "failed run"
    /\ Opens([root |-> presses[i].root, excluded |-> scope[presses[i].root], clean |-> FALSE])
    /\ UNCHANGED <<models, tree, presses, scope>>

Leave ==
    /\ Acts /\ at = "start"
    /\ at' = "away"
    /\ UNCHANGED <<form, remembered, mount, phase, failure, models, tree, presses, scope>>

Kept == UNCHANGED <<at, mount, phase, failure, models, tree, presses, scope>>

FaultyChosen(r) == [form EXCEPT !.root = r]

\* A folder left out of one repository is meaningless in another.
Chosen(r) == [form EXCEPT !.root = r, !.excluded = {}]

\* A repository, or none with Clear.
Choose(r) ==
    /\ Acts /\ at = "start" /\ form # Chosen(r)
    /\ Show(Chosen(r))
    /\ Kept

SetClean(b) ==
    /\ Acts /\ at = "start" /\ form.root # None /\ b # form.clean
    /\ Show([form EXCEPT !.clean = b])
    /\ Kept

-----------------------------------------------------------------------------
(* The scope.                                                              *)
Listed == IF form.root # None /\ tree[form.root] = "read" THEN Tree[form.root] ELSE {}

TreeArrives ==
    /\ at = "start" /\ form.root # None /\ tree[form.root] = "unread"
    /\ \E a \in {"read", "failed"} : tree' = [tree EXCEPT ![form.root] = a]
    /\ UNCHANGED <<page, models, presses, scope, acts>>

ReadAgain ==
    /\ Acts /\ at = "start" /\ form.root # None /\ tree[form.root] = "failed"
    /\ tree' = [tree EXCEPT ![form.root] = "unread"]
    /\ UNCHANGED <<page, models, presses, scope>>

\* The box of a folder inside one that is left out is off.
Covered(f) == Parent[f] \in form.excluded

FaultyToggled(f) == IF f \in form.excluded THEN form.excluded \ {f} ELSE form.excluded \cup {f}

\* A parent replaces the folders inside it rather than joining them.
Toggled(f) ==
    IF f \in form.excluded
    THEN form.excluded \ {f}
    ELSE {g \in form.excluded : Parent[g] # f} \cup {f}

Toggle(f) ==
    /\ Acts /\ at = "start" /\ f \in Listed /\ ~Covered(f)
    /\ Show([form EXCEPT !.excluded = Toggled(f)])
    /\ Kept

SkipTheUsual ==
    /\ Acts /\ at = "start" /\ ~(Usual \cap Listed \subseteq form.excluded)
    /\ Show([form EXCEPT !.excluded = form.excluded \cup (Usual \cap Listed)])
    /\ Kept

ReviewAllOfIt ==
    /\ Acts /\ at = "start" /\ Listed # {} /\ form.excluded # {}
    /\ Show([form EXCEPT !.excluded = {}])
    /\ Kept

-----------------------------------------------------------------------------
(* The run.                                                                *)
Blocked ==
    \/ form.root = None \/ ~models
    \/ form.root # None /\ tree[form.root] = "failed"

\* A press that arrives while the page is at work is dropped.
Start ==
    /\ phase = "idle"
    /\ phase' = "indexing" /\ failure' = FALSE
    /\ presses' = Append(presses, [root |-> form.root, excluded |-> form.excluded,
          clean |-> form.clean, mount |-> mount, state |-> "indexing"])

PressRun ==
    /\ at = "start" /\ Len(presses) < MaxPresses
    /\ ~Blocked
    /\ Start
    /\ UNCHANGED <<at, form, remembered, mount, models, tree, scope, acts>>

\* Try again, beside a failure, asks nothing of the form.
TryAgain ==
    /\ at = "start" /\ Len(presses) < MaxPresses
    /\ failure
    /\ Start
    /\ UNCHANGED <<at, form, remembered, mount, models, tree, scope, acts>>

Becomes(i, s) == presses' = [presses EXCEPT ![i].state = s]

\* What a call answers is written to the page that pressed, if it is still there.
Says(i, p, f) ==
    IF presses[i].mount = mount /\ at = "start"
    THEN phase' = p /\ failure' = f
    ELSE UNCHANGED <<phase, failure>>

Indexed(i) ==
    /\ presses[i].state = "indexing" /\ presses[i].root # None
    /\ scope' = [scope EXCEPT ![presses[i].root] = Collapsed(presses[i].excluded)]
    /\ Becomes(i, "starting") /\ Says(i, "starting", failure)
    /\ UNCHANGED <<at, form, remembered, mount, models, tree, acts>>

\* The reader is taken to the run, wherever they are by then.
RunBegins(i) ==
    /\ presses[i].state = "starting"
    /\ Becomes(i, "running")
    /\ at' = "run"
    /\ UNCHANGED <<form, remembered, mount, phase, failure, models, tree, scope, acts>>

CallFails(i) ==
    /\ presses[i].state \in {"indexing", "starting"}
    /\ Becomes(i, "refused") /\ Says(i, "idle", TRUE)
    /\ UNCHANGED <<at, form, remembered, mount, models, tree, scope, acts>>

RunEnds(i) ==
    /\ presses[i].state = "running"
    /\ \E s \in {"run", "failed run"} : Becomes(i, s)
    /\ UNCHANGED <<page, models, tree, scope, acts>>

ChooseModels ==
    /\ at = "away" /\ ~models
    /\ models' = TRUE
    /\ UNCHANGED <<page, tree, presses, scope, acts>>

Next ==
    \/ Open \/ Leave \/ TreeArrives \/ ReadAgain \/ SkipTheUsual \/ ReviewAllOfIt
    \/ PressRun \/ TryAgain \/ ChooseModels
    \/ \E r \in Roots : OpenHanded(r) \/ Choose(r)
    \/ Choose(None)
    \/ \E b \in BOOLEAN : SetClean(b)
    \/ \E f \in Folders : Toggle(f)
    \/ \E i \in DOMAIN presses :
          StartAgain(i) \/ Indexed(i) \/ RunBegins(i) \/ CallFails(i) \/ RunEnds(i)

Spec == Init /\ [][Next]_vars

-----------------------------------------------------------------------------
TypeOK ==
    /\ at \in {"start", "run", "away"} /\ form \in Choice /\ remembered \in Choice
    /\ mount \in Nat /\ phase \in {"idle", "indexing", "starting"} /\ failure \in BOOLEAN
    /\ models \in BOOLEAN /\ tree \in [Roots -> {"unread", "read", "failed"}]
    /\ scope \in [Roots -> SUBSET Folders]

\* Whatever trips the choice makes, through the memory, a link, a failed run and the picker,
\* the folders left out are folders of the repository they are shown with, and so are those
\* of every press.
ScopeIsOfTheRepository ==
    LET Of(c) == IF c.root = None THEN {} ELSE Tree[c.root]
    IN  /\ form.excluded \subseteq Of(form)
        /\ \A i \in DOMAIN presses : presses[i].excluded \subseteq Of(presses[i])

\* The number printed beside the run button is the number of files the run will read, however
\* the folders were ticked, but for the usual folders that are skipped inside a folder left out
\* already, which it takes off twice (filesInScope, ScopePicker).
PrintedCountIsTheScope ==
    LET Twice == {f \in form.excluded : Parent[f] \in form.excluded}
    IN  at = "start" /\ Listed # {} =>
            /\ Twice \subseteq Usual
            /\ FilesInScope(form.root, form.excluded) + MapThenSumSet(LAMBDA f : Sum(Under(f)), Twice)
                   = FilesRead(form.root, form.excluded)

\* One visit to the page has at most one press under way, and says so while it has.
OnePressAtATime ==
    LET Here == {i \in DOMAIN presses :
                    presses[i].mount = mount /\ presses[i].state \in {"indexing", "starting"}}
    IN  at = "start" => Cardinality(Here) = IF phase = "idle" THEN 0 ELSE 1

\* "A click that arrives while the repository is being indexed would otherwise index it a
\* second time and hand the workspace two runs of one commit": no repository is indexed for
\* two presses at once (start).
\* Not run: the code does otherwise (README, disagreements that are not run).
IndexedOnceAtATime ==
    \A i, j \in DOMAIN presses :
        /\ presses[i].root = presses[j].root
        /\ presses[i].state = "indexing" /\ presses[j].state = "indexing"
        => i = j

\* "A client that has the run has the whole of what it was started with": the scope a run is
\* described with is the one it was pressed with (ReviewRunResponse).
\* Not run: the code does otherwise (README, disagreements that are not run).
RunKnowsItsScope ==
    \A i \in DOMAIN presses :
        presses[i].state \in {"running", "run", "failed run"}
        => scope[presses[i].root] = Collapsed(presses[i].excluded)

\* What the proofs rest on: the memory is the form, every scope kept is of its repository, a
\* press that was indexed named one, and the page's phase is that of this visit's press.
Press == [root : Roots \cup {None}, excluded : SUBSET Folders, clean : BOOLEAN, mount : Nat,
          state : {"indexing", "starting", "running", "run", "failed run", "refused"}]
UnderWay(i) == presses[i].mount = mount /\ presses[i].state \in {"indexing", "starting"}

MemoryIsTheForm == remembered = form
ScopesAreKept == \A r \in Roots : scope[r] \subseteq Tree[r]
PressesAreKept ==
    /\ presses \in Seq(Press)
    /\ \A i \in DOMAIN presses :
          /\ presses[i].mount <= mount
          /\ presses[i].state \in {"starting", "running", "run", "failed run"} => presses[i].root # None
PhaseIsOfThePress ==
    at = "start" =>
        /\ \A i, j \in DOMAIN presses : UnderWay(i) /\ UnderWay(j) => i = j
        /\ (phase # "idle") = \E i \in DOMAIN presses : UnderWay(i)
IInv ==
    /\ TypeOK /\ MemoryIsTheForm /\ ScopesAreKept /\ PressesAreKept /\ PhaseIsOfThePress
    /\ ScopeIsOfTheRepository
=============================================================================
