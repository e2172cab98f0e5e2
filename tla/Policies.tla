------------------------------- MODULE Policies -------------------------------
(***************************************************************************)
(* The policies page (features/policies/policies-page.tsx and              *)
(* policy-editor.tsx): the corpus of one repository listed and filtered,   *)
(* one editor above it that writes a policy of the workspace, deletions,   *)
(* and the folders registered as sources.                                  *)
(***************************************************************************)
EXTENDS Integers, FiniteSets

CONSTANTS Authored, Shipped, \* policies the workspace owns or may own; those read elsewhere
          Strength, Scope,   \* of each policy
          Roots, Sources,    \* repositories reviewed, folders that may be registered
          Read,              \* the shipped policies each of them adds
          None, Asked,       \* model values
          MaxActs, MaxSaves  \* bounds on what the reader does

Documents == Authored \cup Shipped
Corpora == Roots \cup {None}
Texts == {"clean", "part", "whole"} \* the draft is the policy's, differs from it, or is all written

\* What is assumed of the constants.
PoliciesAssumption ==
    /\ Authored \cap Shipped = {} /\ None \notin Documents \cup Roots
    /\ Strength \in [Documents -> {"required", "preferred", "guidance"}]
    /\ Read \in [Roots \cup Sources -> SUBSET Shipped]
    /\ None \notin [text : Texts, save : 0 .. 2]
    /\ MaxActs \in Nat /\ MaxSaves \in Nat

VARIABLES kept, registered, \* the policies and the sources the workspace holds
          root,      \* the repository whose corpus is listed, or None
          corpus,    \* per repository: what was last read, or None
          reading,   \* per repository: None, Asked, or the answer on its way
          failed,    \* the repositories whose last read failed
          filter,    \* [strength, scope, authored]
          expanded, confirming, \* the policy opened, those asking about deletion
          open,      \* the policy the editor was opened on, "new", or None
          draft,     \* the text of the mounted editor, and the save it began; None without one
          dirty,     \* what the page knows of it
          pending,   \* the editor asked for while a draft is unsaved, or None
          saves, deleting, adding, \* requests, and what is typed for a source
          acts,
          lost       \* whether a draft went without a word

server == <<kept, registered>>
query == <<root, corpus, reading, failed>>
editor == <<open, draft, dirty, pending, lost>>
card == <<filter, expanded, confirming>>
requests == <<saves, deleting, adding>>
vars == <<server, query, card, editor, requests, acts>>

Init ==
    /\ kept \in SUBSET Authored /\ registered = {}
    /\ root \in Corpora                     \* of the newest review, if there is one
    /\ corpus = [r \in Corpora |-> None] /\ failed = {}
    /\ reading = [r \in Corpora |-> IF r = root THEN Asked ELSE None]
    /\ filter = [strength |-> "all", scope |-> "all", authored |-> FALSE]
    /\ expanded \in {None} \cup Authored    \* named by the address
    /\ confirming = {}
    /\ open = None /\ draft = None /\ dirty = FALSE /\ pending = None
    /\ saves = {} /\ deleting = None
    /\ adding = [path |-> None, asked |-> None, drop |-> None]
    /\ acts = 0 /\ lost = FALSE

Acts == acts < MaxActs /\ acts' = acts + 1

(***************************************************************************)
(* The corpus and its filters                                              *)
(***************************************************************************)
Corpus(r) == kept \cup (IF r = None THEN {} ELSE Read[r]) \cup UNION {Read[s] : s \in registered}

\* The page shows the corpus, or a panel of its own that takes the editor down.
Shown(r, c, f) == c[r] # None /\ r \notin f

\* What the filters leave, but for the axis a chip stands on.
Matches(p, f, axis) ==
    /\ f.scope \in {"all", Scope[p]}
    /\ axis = "strength" \/ f.strength \in {"all", Strength[p]}
    /\ axis = "authored" \/ ~f.authored \/ p \in Authored

Visible(c, f) == {p \in c : Matches(p, f, "none")}

StrengthCount(c, f, s) == Cardinality({p \in c : Matches(p, f, "strength") /\ s \in {"all", Strength[p]}})

AuthoredCount(c, f) == Cardinality({p \in c \cap Authored : Matches(p, f, "authored")})

\* A chip that would leave nothing cannot be pressed; one that is pressed can be let go.
StrengthChip(c, f, s) == s \in {"all", f.strength} \/ StrengthCount(c, f, s) > 0
AuthoredChip(c, f) == f.authored \/ AuthoredCount(c, f) > 0

\* The cards of policies that leave the list go with what they were asking.
CardsOf(c, f) == confirming' = confirming \cap (IF c = None THEN {} ELSE Visible(c, f))

Filters(f) ==
    /\ Acts /\ Shown(root, corpus, failed) /\ f # filter
    /\ \/ StrengthChip(corpus[root], filter, f.strength) /\ f = [filter EXCEPT !.strength = f.strength]
       \/ AuthoredChip(corpus[root], filter) /\ f = [filter EXCEPT !.authored = ~@]
       \/ f = [filter EXCEPT !.scope = f.scope]
    /\ filter' = f
    /\ CardsOf(corpus[root], f)
    /\ UNCHANGED <<server, query, expanded, editor, requests>>

\* A panel in place of the page takes the editor with it: what was typed is gone, and a
\* page that comes back mounts the form it was opened on from the policy.
Panels(r, c, f) ==
    /\ draft' = IF open = None \/ ~Shown(r, c, f) THEN None
                ELSE IF draft = None THEN [text |-> "clean", save |-> 0] ELSE draft
    /\ dirty' = IF draft = None /\ draft' # None THEN FALSE ELSE dirty
    /\ lost' = (lost \/ (draft # None /\ draft' = None /\ draft.text # "clean"))
    /\ UNCHANGED <<open, pending>>

\* Another repository is another query, read when it is turned to.
ChooseRoot(r) ==
    /\ Acts /\ r # root
    /\ root' = r
    /\ reading' = IF reading[r] = None THEN [reading EXCEPT ![r] = Asked] ELSE reading
    /\ failed' = IF corpus[r] = None THEN failed \ {r} ELSE failed
    /\ UNCHANGED <<corpus, server, filter, expanded, requests>>
    /\ IF Shown(r, corpus, failed') THEN CardsOf(corpus[r], filter) ELSE confirming' = {}
    /\ Panels(r, corpus, failed')

ServerReads(r) ==
    /\ reading[r] = Asked
    /\ reading' = [reading EXCEPT ![r] = Corpus(r)]
    /\ UNCHANGED <<server, root, corpus, failed, card, editor, requests, acts>>

CorpusArrives(r) ==
    /\ reading[r] \notin {None, Asked}
    /\ corpus' = [corpus EXCEPT ![r] = reading[r]]
    /\ reading' = [reading EXCEPT ![r] = None]
    /\ failed' = failed \ {r}
    /\ UNCHANGED <<server, root, filter, expanded, requests, acts>>
    /\ IF r = root THEN CardsOf(corpus'[r], filter) ELSE UNCHANGED confirming
    /\ Panels(root, corpus', failed')

ReadFails(r) ==
    /\ reading[r] # None
    /\ reading' = [reading EXCEPT ![r] = None]
    /\ failed' = failed \cup {r}
    /\ confirming' = IF r = root THEN {} ELSE confirming
    /\ UNCHANGED <<server, root, corpus, filter, expanded, requests, acts>>
    /\ Panels(root, corpus, failed')

TryAgain ==
    /\ Acts /\ root \in failed /\ reading[root] = None
    /\ reading' = [reading EXCEPT ![root] = Asked]
    /\ failed' = IF corpus[root] = None THEN failed \ {root} ELSE failed
    /\ UNCHANGED <<server, root, corpus, card, editor, requests>>

\* The corpus on screen is read again, from the start unless it has never been read.
Invalidated == [reading EXCEPT ![root] = IF corpus[root] = None /\ @ # None THEN @ ELSE Asked]

(***************************************************************************)
(* The editor                                                              *)
(***************************************************************************)
\* Every way into and out of the editor. The form already open is opened again as it is.
Request(next) ==
    IF open # None /\ dirty /\ (next = None \/ next # open)
    THEN pending' = [next |-> next] /\ UNCHANGED <<open, dirty, draft, lost>>
    ELSE /\ pending' = None /\ dirty' = FALSE /\ open' = next
         /\ draft' = IF next = None \/ ~Shown(root, corpus, failed) THEN None
                     ELSE IF next = open THEN draft ELSE [text |-> "clean", save |-> 0]
         /\ lost' = (lost \/ (draft # None /\ draft' # draft /\ draft.text # "clean"))

\* Author policy, or Close editor and Cancel.
OpenOrClose ==
    /\ Acts /\ Request(IF open = None THEN "new" ELSE None)
    /\ UNCHANGED <<server, query, card, requests>>

Edit(p) ==
    /\ Acts /\ Shown(root, corpus, failed)
    /\ expanded = p /\ p \in Authored \cap Visible(corpus[root], filter)
    /\ Request(p)
    /\ UNCHANGED <<server, query, card, requests>>

Discard ==
    /\ Acts /\ pending # None /\ Shown(root, corpus, failed)
    /\ pending' = None /\ dirty' = FALSE /\ open' = pending.next
    /\ draft' = IF pending.next = None THEN None
                ELSE IF pending.next = open THEN draft ELSE [text |-> "clean", save |-> 0]
    /\ UNCHANGED <<server, query, card, requests, lost>>

KeepWriting ==
    /\ Acts /\ pending # None /\ Shown(root, corpus, failed)
    /\ pending' = None
    /\ UNCHANGED <<server, query, card, requests, open, draft, dirty, lost>>

\* A title, a description and the nine sections, each written, make a whole draft; a new
\* policy starts without them and a kept one with them.
Whole == draft.text = "whole" \/ (draft.text = "clean" /\ open # "new")

\* The page is told when the draft begins or ceases to differ from the policy.
Type(text) ==
    /\ Acts /\ draft # None /\ text # draft.text
    /\ draft' = [draft EXCEPT !.text = text]
    /\ dirty' = IF (text = "clean") # (draft.text = "clean") THEN text # "clean" ELSE dirty
    /\ UNCHANGED <<server, query, card, requests, open, pending, lost>>

Saving == draft.save # 0 /\ \E s \in saves : s.n = draft.save

Save ==
    /\ draft # None /\ Whole /\ ~Saving /\ Cardinality(saves) < MaxSaves
    /\ LET n == IF \E s \in saves : s.n = 1 THEN 2 ELSE 1
       IN  /\ saves' = saves \cup {[n |-> n, of |-> open, stage |-> "posting", text |-> draft.text]}
           /\ draft' = [draft EXCEPT !.save = n]
    /\ Acts
    /\ UNCHANGED <<server, query, card, deleting, adding, open, dirty, pending, lost>>

\* Written, and the corpus is read again before the editor is closed.
Saved(s) ==
    /\ s.stage = "posting"
    /\ \E p \in IF s.of = "new" THEN Authored \ kept ELSE {s.of} \cap kept :
           /\ kept' = kept \cup {p}
           /\ saves' = (saves \ {s}) \cup {[s EXCEPT !.stage = "settling", !.of = p]}
    /\ reading' = Invalidated
    /\ UNCHANGED <<registered, root, corpus, failed, card, deleting, adding, editor, acts>>

SaveFails(s) ==
    /\ s.stage = "posting"
    /\ saves' = saves \ {s}
    /\ UNCHANGED <<server, query, card, deleting, adding, editor, acts>>

\* Closes the editor, whichever it is by then.
SaveSettles(s) ==
    /\ s.stage = "settling" /\ reading[root] = None
    /\ saves' = saves \ {s}
    /\ open' = None /\ draft' = None /\ dirty' = FALSE
    /\ lost' = (lost \/ (draft # None /\ draft.text # "clean"
                            /\ ~(draft.save = s.n /\ draft.text = s.text)))
    /\ UNCHANGED <<server, query, card, deleting, adding, pending, acts>>

(***************************************************************************)
(* The cards                                                               *)
(***************************************************************************)
Toggle(p) ==
    /\ Acts /\ Shown(root, corpus, failed) /\ p \in Visible(corpus[root], filter)
    /\ expanded' = IF expanded = p THEN None ELSE p
    /\ UNCHANGED <<server, query, filter, confirming, editor, requests>>

Asking(p) == Shown(root, corpus, failed) /\ expanded = p /\ p \in Authored \cap Visible(corpus[root], filter)

AskToDelete(p) ==
    /\ Acts /\ Asking(p) /\ p \notin confirming
    /\ confirming' = confirming \cup {p}
    /\ UNCHANGED <<server, query, filter, expanded, editor, requests>>

Keep(p) ==
    /\ Acts /\ Asking(p) /\ p \in confirming
    /\ confirming' = confirming \ {p}
    /\ UNCHANGED <<server, query, filter, expanded, editor, requests>>

Delete(p) ==
    /\ Acts /\ Asking(p) /\ p \in confirming /\ deleting = None
    /\ deleting' = [of |-> p, stage |-> "posting"]
    /\ UNCHANGED <<server, query, card, editor, saves, adding>>

Deleted ==
    /\ deleting # None /\ deleting.stage = "posting"
    /\ kept' = kept \ {deleting.of}
    /\ deleting' = [deleting EXCEPT !.stage = "settling"]
    /\ reading' = Invalidated
    /\ UNCHANGED <<registered, root, corpus, failed, card, editor, saves, adding, acts>>

DeleteEnds ==
    /\ deleting # None /\ (deleting.stage = "posting" \/ reading[root] = None)
    /\ deleting' = None
    /\ UNCHANGED <<server, query, card, editor, saves, adding, acts>>

(***************************************************************************)
(* Sources                                                                 *)
(***************************************************************************)
TypeSource(s) ==
    /\ Acts /\ s # adding.path
    /\ adding' = [adding EXCEPT !.path = s]
    /\ UNCHANGED <<server, query, card, editor, saves, deleting>>

Register ==
    /\ Acts /\ adding.path # None /\ adding.asked = None
    /\ adding' = [adding EXCEPT !.asked = adding.path]
    /\ UNCHANGED <<server, query, card, editor, saves, deleting>>

\* The field is emptied, whatever it holds by then.
Registered ==
    /\ adding.asked # None
    /\ registered' = registered \cup {adding.asked}
    /\ adding' = [adding EXCEPT !.asked = None, !.path = None]
    /\ reading' = Invalidated
    /\ UNCHANGED <<kept, root, corpus, failed, card, editor, saves, deleting, acts>>

Drop(s) ==
    /\ Acts /\ s \in registered /\ adding.drop = None
    /\ adding' = [adding EXCEPT !.drop = s]
    /\ UNCHANGED <<server, query, card, editor, saves, deleting>>

Dropped ==
    /\ adding.drop # None
    /\ registered' = registered \ {adding.drop}
    /\ adding' = [adding EXCEPT !.drop = None]
    /\ reading' = Invalidated
    /\ UNCHANGED <<kept, root, corpus, failed, card, editor, saves, deleting, acts>>

SourceFails ==
    /\ adding.asked # None \/ adding.drop # None
    /\ adding' = [adding EXCEPT !.asked = None, !.drop = None]
    /\ UNCHANGED <<server, query, card, editor, saves, deleting, acts>>

Next ==
    \/ \E r \in Corpora : ChooseRoot(r) \/ ServerReads(r) \/ CorpusArrives(r) \/ ReadFails(r)
    \/ \E s \in {"all", "required", "preferred", "guidance"}, c \in {"all"} \cup {Scope[p] : p \in Documents} :
           \E a \in BOOLEAN : Filters([strength |-> s, scope |-> c, authored |-> a])
    \/ \E p \in Documents : Edit(p) \/ Toggle(p) \/ AskToDelete(p) \/ Keep(p) \/ Delete(p)
    \/ \E t \in Texts : Type(t)
    \/ \E s \in saves : Saved(s) \/ SaveFails(s) \/ SaveSettles(s)
    \/ \E s \in Sources : TypeSource(s) \/ Drop(s)
    \/ TryAgain \/ OpenOrClose \/ Discard \/ KeepWriting \/ Save
    \/ Deleted \/ DeleteEnds \/ Register \/ Registered \/ Dropped \/ SourceFails

Spec == Init /\ [][Next]_vars

-----------------------------------------------------------------------------
TypeOK ==
    /\ kept \subseteq Authored /\ registered \subseteq Sources /\ root \in Corpora
    /\ \A r \in Corpora : corpus[r] = None \/ corpus[r] \subseteq Documents
    /\ failed \subseteq Corpora /\ confirming \subseteq Authored
    /\ open \in Authored \cup {None, "new"} /\ (draft # None => open # None)
    /\ dirty \in BOOLEAN /\ lost \in BOOLEAN /\ acts \in 0 .. MaxActs

\* A chip that can be pressed says how many policies pressing it leaves, and never leaves
\* none of a list that had some, whatever was pressed, deleted or read in between
\* (policies-page.tsx, "matches").
ChipsLeadSomewhere ==
    Shown(root, corpus, failed) =>
        LET c == corpus[root]
        IN  /\ \A s \in {"required", "preferred", "guidance"} :
                   LET n == Cardinality(Visible(c, [filter EXCEPT !.strength = s]))
                   IN  StrengthCount(c, filter, s) = n
                           /\ (StrengthChip(c, filter, s) /\ s # filter.strength => n > 0)
            /\ AuthoredCount(c, filter) = Cardinality(Visible(c, [filter EXCEPT !.authored = TRUE]))

\* What the proofs rest on: the filter is one of those the chips stand for.
FilterIsOfTheChips ==
    filter \in [strength : {"all", "required", "preferred", "guidance"},
                scope : {"all"} \cup {Scope[p] : p \in Documents}, authored : BOOLEAN]

\* A draft the page knows of leaves a page that stays on screen only when the reader, asked,
\* discards it, or when a save has been written (requestEditor).
KnownDraftsAreAskedAbout ==
    draft # None /\ dirty /\ draft.text # "clean"
        /\ Shown(root, corpus, failed)' /\ (draft' = None \/ open' # open)
    => pending # None \/ saves' # saves

\* and what is typed is typed in the editor that is open.
DraftsAreInTheEditor ==
    draft # None => open # None /\ draft \in [text : Texts, save : 0 .. 2]

IInv == FilterIsOfTheChips /\ DraftsAreInTheEditor

\* A draft is on its way to be lost only behind a question (policy-editor.tsx, "Four ordinary
\* gestures used to destroy it without a word").
\* Not run: the code does otherwise (README, disagreements that are not run).
DraftsAreNotLost == ~lost
=============================================================================
