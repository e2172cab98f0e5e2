-------------------------- MODULE RepositoryPicker --------------------------
(***************************************************************************)
(* Choosing the repository of a review (features/start/                    *)
(* repository-picker.tsx): the indexed ones, the folders of this machine   *)
(* and a path typed by hand, a clone of a remote, the bundled examples.    *)
(* Typed text becomes a choice when the reader leaves the field or stops   *)
(* typing, and a typed address asks its remote for branches the same way.  *)
(***************************************************************************)
EXTENDS Integers, FiniteSets

CONSTANTS Paths,     \* absolute paths: folders, and what a clone or an example is put at
          Indexed,   \* those indexed already
          Remotes, Published, \* addresses, and the branches each publishes
          Branches,  \* names a reader may give
          None,      \* model value
          MaxActs    \* bound on what the reader does

\* What is assumed of the constants.
PickerAssumption ==
    /\ Indexed \subseteq Paths /\ None \notin Paths \cup Remotes \cup Branches
    /\ Published \in [Remotes -> SUBSET Branches] /\ MaxActs \in Nat

VARIABLES value,  \* the repository chosen, or None
          tab,    \* the way the reader chose to choose, or None
          draft,  \* the text of the path field: a path, None for empty, or "partial"
          timer,  \* whether its delay is running
          url, probing, probed, \* the address typed, its delay, and the one asked about
          known,  \* per remote: unread, reading, failed or listed
          branch, naming, \* the branch of the form, and whether it is typed
          clone,  \* the last clone: [at, branch, state], or None
          load,   \* the last example: idle, loading or failed
          adrift, \* how many clones and loads were asked of a form that has gone since
          here,   \* the folder whose folders are listed, or None while it is read
          acts,
          wanted, \* what the reader, or a clone or load they asked for, last settled on
          typed   \* the branch they last typed under "Name one myself", or None

form == <<url, probing, probed, known, branch, naming, clone, typed>>
field == <<draft, timer>>
vars == <<value, tab, field, form, load, adrift, here, acts, wanted>>

Init ==
    /\ value \in {None} \cup Indexed /\ wanted = value
    /\ tab = None
    /\ draft = value /\ timer = FALSE
    /\ url = None /\ probing = FALSE /\ probed = None
    /\ known = [r \in Remotes |-> "unread"]
    /\ branch = None /\ naming = FALSE /\ clone = None /\ typed = None
    /\ load = "idle" /\ adrift = 0 /\ here = None
    /\ acts = 0

Acts == acts < MaxActs /\ acts' = acts + 1

\* The tab shown before one is chosen: the examples where nothing is indexed.
Tab == IF tab # None THEN tab ELSE IF Indexed = {} THEN "example" ELSE "recent"

\* A choice made anywhere becomes the text of the path field and ends its delay.
Choose(p) ==
    /\ value' = p /\ wanted' = p
    /\ draft' = IF p = value THEN draft ELSE p
    /\ timer' = IF p = value THEN timer ELSE FALSE

\* Leaving the path field settles its text.
Blurred ==
    IF Tab = "browse" /\ draft # value
    THEN value' = draft /\ wanted' = draft /\ timer' = FALSE /\ UNCHANGED draft
    ELSE UNCHANGED <<value, wanted, field>>

(***************************************************************************)
(* Paths                                                                   *)
(***************************************************************************)
\* Another tab is made anew, and the field and the form of the one left are gone; a clone or
\* a load they asked for goes on.
PickTab(t) ==
    /\ Acts /\ t # Tab
    /\ tab' = t
    /\ LET left == IF Tab = "browse" THEN draft ELSE value
       IN  value' = left /\ wanted' = left /\ draft' = left /\ timer' = FALSE
    /\ url' = None /\ probing' = FALSE /\ probed' = None /\ branch' = None /\ naming' = FALSE
    /\ adrift' = adrift + Cardinality({w \in {"clone", "load"} :
           IF w = "load" THEN load = "loading" ELSE clone # None /\ clone.state = "cloning"})
    /\ clone' = None /\ typed' = None /\ load' = "idle"
    /\ here' = None
    /\ UNCHANGED known

PickIndexed(p) ==
    /\ Acts /\ Tab = "recent" /\ p \in Indexed
    /\ Choose(p)
    /\ UNCHANGED <<tab, form, load, adrift, here>>

ListingArrives ==
    /\ Tab = "browse" /\ here = None
    /\ here' \in Paths
    /\ UNCHANGED <<value, tab, field, form, load, adrift, acts, wanted>>

\* Stepping into a folder leaves the field first.
OpenFolder ==
    /\ Acts /\ Tab = "browse" /\ here # None
    /\ here' = None
    /\ Blurred
    /\ UNCHANGED <<tab, form, load, adrift>>

\* So does using one, which is then the choice.
UseFolder ==
    /\ Acts /\ Tab = "browse" /\ here # None
    /\ value' = here /\ wanted' = here
    /\ draft' = IF value = here /\ draft = value THEN draft ELSE here
    /\ timer' = FALSE
    /\ UNCHANGED <<tab, form, load, adrift, here>>

TypePath(text) ==
    /\ Acts /\ Tab = "browse" /\ text # draft
    /\ draft' = text
    /\ timer' = (text \in Paths /\ text # value)
    /\ wanted' = text
    /\ UNCHANGED <<value, tab, form, load, adrift, here>>

\* The delay ends, and text that is an absolute path is the choice.
Settles ==
    /\ timer
    /\ value' = draft /\ timer' = FALSE /\ wanted' = draft
    /\ UNCHANGED <<tab, draft, form, load, adrift, here, acts>>

LeaveField ==
    /\ Acts /\ Tab = "browse" /\ draft # value
    /\ Blurred
    /\ UNCHANGED <<tab, form, load, adrift, here>>

(***************************************************************************)
(* A clone                                                                 *)
(***************************************************************************)
Offered(p, k) == IF p # None /\ k[p] = "listed" THEN Published[p] ELSE {}

Choosing == Offered(probed, known) # {} /\ ~naming

\* A branch that is not among those published is dropped by the render that finds it so.
Held(p, k, b) == IF Offered(p, k) # {} /\ b \notin Offered(p, k) THEN None ELSE b

Asks(p, k) == IF p # None /\ k[p] \in {"unread", "failed"} THEN [k EXCEPT ![p] = "reading"] ELSE k

TypeUrl(u) ==
    /\ Acts /\ Tab = "clone" /\ u # url
    /\ url' = u /\ probing' = (u # None)
    /\ probed' = IF u = None THEN None ELSE probed
    /\ UNCHANGED <<value, tab, field, known, branch, naming, clone, typed, load, adrift, here, wanted>>

\* The delay of the address ends, and its remote is asked unless its answer is kept.
Probes ==
    /\ probing
    /\ probing' = FALSE /\ probed' = url
    /\ known' = Asks(url, known)
    /\ branch' = Held(url, known, branch)
    /\ UNCHANGED <<value, tab, field, url, naming, clone, typed, load, adrift, here, acts, wanted>>

RemoteAnswers(r) ==
    /\ known[r] = "reading"
    /\ \E a \in {"listed", "failed"} : known' = [known EXCEPT ![r] = a]
    /\ branch' = Held(probed, known', branch)
    /\ UNCHANGED <<value, tab, field, url, probing, probed, naming, clone, typed, load, adrift, here, acts, wanted>>

PickBranch(b) ==
    /\ Acts /\ Tab = "clone" /\ Choosing /\ b \in Offered(probed, known) \cup {None}
    /\ branch' = b
    /\ UNCHANGED <<value, tab, field, url, probing, probed, known, naming, clone, typed, load, adrift, here, wanted>>

NameItMyself ==
    /\ Acts /\ Tab = "clone" /\ Choosing
    /\ naming' = TRUE /\ branch' = None
    /\ UNCHANGED <<value, tab, field, url, probing, probed, known, clone, typed, load, adrift, here, wanted>>

TypeBranch(b) ==
    /\ Acts /\ Tab = "clone" /\ ~Choosing
    /\ typed' = IF naming THEN b ELSE typed
    /\ branch' = Held(probed, known, b)
    /\ UNCHANGED <<value, tab, field, url, probing, probed, known, naming, clone, load, adrift, here, wanted>>

\* The address and the branch as they stand when the button is pressed.
Clone ==
    /\ Acts /\ Tab = "clone" /\ url # None
    /\ (clone # None => clone.state # "cloning")
    /\ clone' = [at |-> url, branch |-> branch, listed |-> known[url] = "listed", state |-> "cloning"]
    /\ UNCHANGED <<value, tab, field, url, probing, probed, known, branch, naming, typed, load, adrift, here, wanted>>

Cloned(p) ==
    /\ clone # None /\ clone.state = "cloning"
    /\ Choose(p)
    /\ clone' = [clone EXCEPT !.state = "cloned"]
    /\ UNCHANGED <<tab, url, probing, probed, known, branch, naming, typed, load, adrift, here, acts>>

CloneFails ==
    /\ clone # None /\ clone.state = "cloning"
    /\ clone' = [clone EXCEPT !.state = "failed"]
    /\ UNCHANGED <<value, tab, field, url, probing, probed, known, branch, naming, typed, load, adrift, here, acts, wanted>>

(***************************************************************************)
(* An example                                                              *)
(***************************************************************************)
LoadExample ==
    /\ Acts /\ Tab = "example" /\ load # "loading"
    /\ load' = "loading"
    /\ UNCHANGED <<value, tab, field, form, adrift, here, wanted>>

\* An example that is done is chosen, as a clone is, whatever was chosen meanwhile.
Loaded(p) ==
    /\ load = "loading"
    /\ load' = "idle"
    /\ Choose(p)
    /\ UNCHANGED <<tab, form, adrift, here, acts>>

LoadFails ==
    /\ load = "loading"
    /\ load' = "failed"
    /\ UNCHANGED <<value, tab, field, form, adrift, here, acts, wanted>>

\* So is the outcome of a form that has gone; its failure is said to nobody.
Drifts ==
    /\ adrift > 0
    /\ adrift' = adrift - 1
    /\ (\E p \in Paths : Choose(p)) \/ UNCHANGED <<value, field, wanted>>
    /\ UNCHANGED <<tab, form, load, here, acts>>

Next ==
    \/ \E t \in {"recent", "browse", "clone", "example"} : PickTab(t)
    \/ \E p \in Paths : PickIndexed(p) \/ Cloned(p) \/ Loaded(p)
    \/ \E t \in Paths \cup {None, "partial"} : TypePath(t)
    \/ ListingArrives \/ OpenFolder \/ UseFolder \/ Settles \/ LeaveField
    \/ \E u \in Remotes \cup {None} : TypeUrl(u)
    \/ \E r \in Remotes : RemoteAnswers(r)
    \/ \E b \in Branches \cup {None} : PickBranch(b) \/ TypeBranch(b)
    \/ Probes \/ NameItMyself \/ Clone \/ CloneFails \/ LoadExample \/ LoadFails \/ Drifts

Spec == Init /\ [][Next]_vars

-----------------------------------------------------------------------------
TypeOK ==
    /\ value \in Paths \cup {None, "partial"} /\ draft \in Paths \cup {None, "partial"}
    /\ timer \in BOOLEAN /\ probing \in BOOLEAN /\ naming \in BOOLEAN
    /\ url \in Remotes \cup {None} /\ probed \in Remotes \cup {None}
    /\ known \in [Remotes -> {"unread", "reading", "failed", "listed"}]
    /\ branch \in Branches \cup {None}
    /\ load \in {"idle", "loading", "failed"} /\ acts \in 0 .. MaxActs
    /\ adrift \in 0 .. MaxActs

\* Once the field is left the repository chosen is the last one typed, pressed, cloned or
\* loaded, whichever came last: no text is lost with the field that held it, and no delay
\* outlives it to take a later choice back (PathField, DirectoryBrowser).
TheLastWordIsTheChoice ==
    /\ Tab # "browse" => value = wanted /\ ~timer
    /\ Tab = "browse" /\ ~timer /\ draft = value => value = wanted

\* With the remote's list read, no branch is cloned that it does not publish.
ClonesAreOfThatRemote ==
    \A r \in Remotes : known[r] = "listed" /\ probed = r /\ ~probing /\ Published[r] # {}
        => branch \in Published[r] \cup {None}

\* "It stays reachable": a branch named by hand is the form's branch (CloneForm).
\* Not run: the code does otherwise (README, disagreements that are not run).
NamedBranchIsKept == naming /\ typed # None /\ probed # None => branch = typed

\* What the proof of the first rests on: on the tab of folders one of the two holds the last
\* word, the text until it settles and the choice after; of the second, that what is asked
\* about is a remote.
LastWordIsHeld ==
    IF Tab = "browse" THEN draft = wanted \/ value = wanted ELSE value = wanted /\ ~timer
AddressesAreRemotes ==
    /\ url \in Remotes \cup {None} /\ probed \in Remotes \cup {None}
    /\ known \in [Remotes -> {"unread", "reading", "failed", "listed"}]
IInv == timer \in BOOLEAN /\ LastWordIsHeld /\ AddressesAreRemotes /\ ClonesAreOfThatRemote
=============================================================================
