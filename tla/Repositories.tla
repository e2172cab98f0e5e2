---------------------------- MODULE Repositories ----------------------------
(***************************************************************************)
(* The repositories page (features/repositories/repositories-page.tsx):    *)
(* the listing of what is indexed, newest atlas first, the repository      *)
(* whose atlas is open beside it, and a re-index, a fetch or a clone whose *)
(* answer is told against whatever has been listed since.                  *)
(***************************************************************************)
EXTENDS Lists, FiniteSets, SequencesExt

CONSTANTS Repos,       \* roots of checkouts
          None, Asked, \* model values
          LastCommit,  \* bound on the commits a remote has, from 0
          MaxActs      \* bound on what the reader does

\* What is assumed of the constants.
RepositoriesAssumption ==
    /\ None \notin Repos /\ IsFiniteSet(Repos) /\ Asked # None
    /\ LastCommit \in Nat /\ MaxActs \in Nat

Commits == 0..LastCommit

VARIABLES remote, disk, \* the newest commit of a root's remote, and the one checked out
          order,     \* the roots that are indexed, the newest atlas first
          atlas,     \* the commit a root's atlas was built at
          list,      \* the listing as read, a sequence of [root, commit], or None
          flight,    \* None, Asked, or the listing on its way
          failed,    \* whether the last reading failed
          drawn,     \* by root, the commit its card was last drawn with, or None
          requested, \* the root the URL names, or None
          held,      \* the root that stood in, or None
          found,     \* the roots that match the search
          reindex, fetch, \* by root: Idle, Sent, or what the server answered
          clone,     \* the root being cloned, whether its answer is there, or None
          spots,     \* by root, the commit its hotspots were read at, or None
          said,      \* the last re-index told of: its root, what was said and what was so
          acts

disks == <<remote, disk, order, atlas>>
view == <<requested, held, found, drawn>>
vars == <<disks, list, flight, failed, view, reindex, fetch, clone, spots, said, acts>>

Idle == [at |-> "idle"]
Sent == [at |-> "sent"]

(***************************************************************************)
(* What is listed and what is open                                         *)
(***************************************************************************)
Rows(l) == IF l = None THEN <<>> ELSE l
Roots(l) == {row.root : row \in ToSet(Rows(l))}
CommitOf(l, r) == (CHOOSE row \in ToSet(Rows(l)) : row.root = r).commit

Visible(l, f) == Within(Rows(l), [root : f, commit : Commits])

FaultySelected(l, u, h, f) ==
    IF u \in Roots(l) THEN u ELSE IF Visible(l, f) # <<>> THEN Head(Visible(l, f)).root ELSE None

\* The root the URL names, else the one that has been standing in, else the first card drawn.
Selected(l, u, h, f) ==
    IF u \in Roots(l) THEN u
    ELSE IF h \in Roots(l) THEN h
    ELSE IF Visible(l, f) # <<>> THEN Head(Visible(l, f)).root
    ELSE None

Open == Selected(list, requested, held, found)

\* After any of these change: what is open is held, and the cards are drawn anew.
Draws(l, u, f) ==
    /\ held' = Selected(l, u, held, f)
    /\ drawn' = [r \in Repos |-> IF r \in Roots(l) \cap f THEN CommitOf(l, r) ELSE drawn[r]]

Init ==
    /\ remote \in [Repos -> {0}] /\ disk = remote /\ atlas = remote
    /\ order \in SetToAllKPermutations(Repos)
    /\ list = None /\ flight = Asked /\ failed = FALSE
    /\ drawn = [r \in Repos |-> None] /\ requested \in Repos \cup {None} /\ held = None
    /\ found = Repos
    /\ reindex = [r \in Repos |-> Idle] /\ fetch = [r \in Repos |-> Idle] /\ clone = None
    /\ spots = [r \in Repos |-> None] /\ said = None /\ acts = 0

Acts == acts < MaxActs /\ acts' = acts + 1

(***************************************************************************)
(* The listing                                                             *)
(***************************************************************************)
\* Invalidated: asked for again, but for a first reading that is still under way.
Again == flight' = IF flight = None \/ list # None THEN Asked ELSE flight

ServerLists ==
    /\ flight = Asked
    /\ flight' = [i \in DOMAIN order |-> [root |-> order[i], commit |-> atlas[order[i]]]]
    /\ UNCHANGED <<disks, list, failed, view, reindex, fetch, clone, spots, said, acts>>

ListArrives ==
    /\ flight \notin {None, Asked}
    /\ list' = flight /\ flight' = None /\ failed' = FALSE
    /\ Draws(flight, requested, found)
    /\ UNCHANGED <<disks, requested, found, reindex, fetch, clone, spots, said, acts>>

ListFails ==
    /\ Acts /\ flight # None
    /\ flight' = None /\ failed' = TRUE
    /\ UNCHANGED <<disks, list, view, reindex, fetch, clone, spots, said>>

\* Offered in place of the listing, where there has been none.
TryAgain ==
    /\ Acts /\ failed /\ list = None
    /\ flight' = Asked /\ failed' = FALSE
    /\ UNCHANGED <<disks, list, view, reindex, fetch, clone, spots, said>>

(***************************************************************************)
(* Selecting and searching                                                 *)
(***************************************************************************)
Select(r) ==
    /\ Acts /\ r \in Roots(list) \cap found /\ requested # r
    /\ requested' = r /\ Draws(list, r, found)
    /\ UNCHANGED <<disks, list, flight, failed, found, reindex, fetch, clone, spots, said>>

Search(f) ==
    /\ Acts /\ list \notin {None, <<>>} /\ f # found
    /\ found' = f /\ Draws(list, requested, f)
    /\ UNCHANGED <<disks, list, flight, failed, requested, reindex, fetch, clone, spots, said>>

\* The hotspots of what is open are read when it is opened, and nothing reads them again.
ReadSpots(r) ==
    /\ list # None /\ Open = r /\ spots[r] = None
    /\ spots' = [spots EXCEPT ![r] = atlas[r]]
    /\ UNCHANGED <<disks, list, flight, failed, view, reindex, fetch, clone, said, acts>>

(***************************************************************************)
(* A card's two presses                                                    *)
(***************************************************************************)
Reindex(r) ==
    /\ Acts /\ r \in Roots(list) \cap found /\ reindex[r] = Idle
    /\ reindex' = [reindex EXCEPT ![r] = Sent]
    /\ UNCHANGED <<disks, list, flight, failed, view, fetch, clone, spots, said>>

\* What is on disk becomes the newest atlas.
Indexes(r) ==
    /\ atlas' = [atlas EXCEPT ![r] = disk[r]]
    /\ order' = <<r>> \o Within(order, Repos \ {r})

ServerIndexes(r) ==
    /\ reindex[r] = Sent
    /\ reindex' = [reindex EXCEPT ![r] =
           [at |-> "done", commit |-> disk[r], moved |-> disk[r] # atlas[r]]]
    /\ Indexes(r)
    /\ UNCHANGED <<remote, disk, list, flight, failed, view, fetch, clone, spots, said, acts>>

\* The answer is compared with the commit the card was last drawn with.
Moved(r) == reindex[r].commit # drawn[r]

Reindexed(r) ==
    /\ reindex[r].at = "done"
    /\ said' = [root |-> r, moved |-> Moved(r), really |-> reindex[r].moved]
    /\ reindex' = [reindex EXCEPT ![r] = Idle]
    /\ Again
    /\ UNCHANGED <<disks, list, failed, view, fetch, clone, spots, acts>>

Fetch(r) ==
    /\ Acts /\ r \in Roots(list) \cap found /\ fetch[r] = Idle
    /\ fetch' = [fetch EXCEPT ![r] = Sent]
    /\ UNCHANGED <<disks, list, flight, failed, view, reindex, clone, spots, said>>

\* A checkout the workspace manages is brought to its remote's tip.
ServerFetches(r) ==
    /\ fetch[r] = Sent
    /\ disk' = [disk EXCEPT ![r] = remote[r]]
    /\ fetch' = [fetch EXCEPT ![r] = [at |-> "done", updated |-> disk[r] # remote[r]]]
    /\ UNCHANGED <<remote, order, atlas, list, flight, failed, view, reindex, clone, spots, said, acts>>

Fetched(r) ==
    /\ fetch[r].at = "done"
    /\ fetch' = [fetch EXCEPT ![r] = Idle] /\ Again
    /\ UNCHANGED <<disks, list, failed, view, reindex, clone, spots, said, acts>>

(***************************************************************************)
(* Cloning                                                                 *)
(***************************************************************************)
Clone(r) ==
    /\ Acts /\ clone = None
    /\ clone' = [root |-> r, done |-> FALSE]
    /\ UNCHANGED <<disks, list, flight, failed, view, reindex, fetch, spots, said>>

\* A clone that is there already is brought up to date; neither is indexed.
ServerClones ==
    /\ clone # None /\ ~clone.done
    /\ disk' = [disk EXCEPT ![clone.root] = remote[clone.root]]
    /\ clone' = [clone EXCEPT !.done = TRUE]
    /\ UNCHANGED <<remote, order, atlas, list, flight, failed, view, reindex, fetch, spots, said, acts>>

\* The clone is selected though the listing need not hold it.
Cloned ==
    /\ clone # None /\ clone.done
    /\ requested' = clone.root /\ clone' = None /\ Again
    /\ Draws(list, clone.root, found)
    /\ UNCHANGED <<disks, list, failed, found, reindex, fetch, spots, said, acts>>

CloneFails ==
    /\ clone # None /\ ~clone.done
    /\ clone' = None
    /\ UNCHANGED <<disks, list, flight, failed, view, reindex, fetch, spots, said, acts>>

(***************************************************************************)
(* Elsewhere                                                               *)
(***************************************************************************)
RemoteMoves(r) ==
    /\ remote[r] < LastCommit
    /\ remote' = [remote EXCEPT ![r] = @ + 1]
    /\ UNCHANGED <<disk, order, atlas, list, flight, failed, view, reindex, fetch, clone, spots, said, acts>>

\* A review indexes the repository it is of when it starts.
ReviewStarts(r) ==
    /\ Acts /\ Indexes(r)
    /\ UNCHANGED <<remote, disk, list, flight, failed, view, reindex, fetch, clone, spots, said>>

Next ==
    \/ ServerLists \/ ListArrives \/ ListFails \/ TryAgain
    \/ \E r \in Repos : \/ Select(r) \/ ReadSpots(r)
                        \/ Reindex(r) \/ ServerIndexes(r) \/ Reindexed(r)
                        \/ Fetch(r) \/ ServerFetches(r) \/ Fetched(r)
                        \/ Clone(r) \/ RemoteMoves(r) \/ ReviewStarts(r)
    \/ \E f \in SUBSET Repos : Search(f)
    \/ ServerClones \/ Cloned \/ CloneFails

Spec == Init /\ [][Next]_vars

(***************************************************************************)
(* Properties                                                              *)
(***************************************************************************)
Answers == [root : Repos, commit : Commits]

\* Every variable has its type.
TypeOK ==
    /\ remote \in [Repos -> Commits] /\ disk \in [Repos -> Commits] /\ atlas \in [Repos -> Commits]
    /\ ToSet(order) \subseteq Repos /\ ToSet(Rows(list)) \subseteq Answers
    /\ flight \in {None, Asked} \/ ToSet(flight) \subseteq Answers
    /\ failed \in BOOLEAN /\ drawn \in [Repos -> Commits \cup {None}]
    /\ requested \in Repos \cup {None} /\ held \in Repos \cup {None} /\ found \subseteq Repos
    /\ DOMAIN reindex = Repos /\ DOMAIN fetch = Repos
    /\ spots \in [Repos -> Commits \cup {None}]
    /\ acts \in 0..MaxActs

\* The atlas that is open stays open whatever is searched for, re-indexed or fetched, though
\* each of these moves other cards to the top of the list: only the reader opens another, or
\* the arrival of the root they had named (repositories-page.tsx:424-435).
TheOpenAtlasStays ==
    Open # None /\ Open' # Open
        => requested' # requested \/ requested \in Roots(list') \ Roots(list)

\* What the proof of it rests on: what is read is a list of what is indexed,
ListsAreOfWhatIsIndexed ==
    /\ remote \in [Repos -> Commits] /\ disk \in [Repos -> Commits] /\ atlas \in [Repos -> Commits]
    /\ order \in Seq(Repos) /\ list \in {None} \cup Seq(Answers)
    /\ flight \in {None, Asked} \cup Seq(Answers)

\* nothing that is indexed ceases to be, so that a later listing holds what an earlier one did,
ListingsGrow ==
    /\ Roots(list) \subseteq ToSet(order)
    /\ flight \notin {None, Asked} => Roots(list) \subseteq Roots(flight) /\ Roots(flight) \subseteq ToSet(order)

\* and what is open has been held since it was opened.
OpenIsHeld == held = Open

IInv == ListsAreOfWhatIsIndexed /\ ListingsGrow /\ OpenIsHeld

\* "Nothing on disk had changed since the last atlas" is said only of a re-index that found
\* nothing (repositories-page.tsx:80-88).
\* Not run: the code does otherwise (README, disagreements that are not run).
NoOpsAreNoOps == said # None => (said.really => said.moved)
=============================================================================
