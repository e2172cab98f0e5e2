-------------------------- MODULE ArchitectureCases --------------------------
(***************************************************************************)
(* The cases page (features/cases/cases-page.tsx): every architecture case *)
(* with its newest revision, the history of the one that is open, which is *)
(* read once and kept, and the form that sets the scope of its policies.   *)
(* A case gains revisions from reviews that asked, while the page is       *)
(* elsewhere or in front of the reader.                                    *)
(***************************************************************************)
EXTENDS Integers, SequencesExt

CONSTANTS Cases,       \* case identities, numbers: the listing is in their order
          Scopes,      \* what the policies of a case may be scoped to
          None, Asked, \* model values
          MaxRevisions, \* bound on the revisions of a case
          MaxActs       \* bound on what the reader does

\* What is assumed of the constants.
CasesAssumption ==
    /\ Cases \subseteq Nat /\ Scopes # {} /\ None \notin Cases /\ None \notin Scopes
    /\ Asked # None
    /\ MaxRevisions \in Nat \ {0} /\ MaxActs \in Nat

VARIABLES stored,  \* by case, the scope of each revision, oldest first
          here,    \* whether the page is open
          list,    \* by case, what was last listed of its revisions, or None before a reading
          listing, \* None, Asked, or the listing on its way
          history, \* by case, the revisions read, or None
          reading, \* by case, None, Asked, or the history on its way
          selected, \* the case the reader opened, or None
          form,    \* the scope form: Closed, or [on, draft]
          save,    \* the scope being saved and whether the form it was typed in is still drawn, or None
          acts

lists == <<list, listing, history, reading>>
vars == <<stored, here, lists, selected, form, save, acts>>

Closed == [on |-> None]

Init ==
    /\ stored \in [Cases -> {<<>>} \cup {<<s>> : s \in Scopes}]
    /\ here = TRUE /\ list = None /\ listing = Asked
    /\ history = [c \in Cases |-> None] /\ reading = [c \in Cases |-> None]
    /\ selected = None /\ form = Closed /\ save = None /\ acts = 0

Acts == acts < MaxActs /\ acts' = acts + 1

(***************************************************************************)
(* What is drawn                                                           *)
(***************************************************************************)
Listed(l) == IF l = None THEN {} ELSE {c \in Cases : l[c] # <<>>}

\* The first case stands in until the reader opens one.
SelectedId(l, s) ==
    IF s # None THEN s
    ELSE IF Listed(l) = {} THEN None ELSE CHOOSE c \in Listed(l) : \A d \in Listed(l) : c <= d

Open == SelectedId(list, selected)

\* What the current context is read from: the history where there is one, else the listing.
Latest(c) == IF history[c] # None THEN Last(history[c]) ELSE Last(list[c])

\* The listing and the history are each of their own reading.
RevisionListed(c) == Len(list[c])
RevisionShown(c) == IF history[c] # None THEN Len(history[c]) ELSE Len(list[c])

\* The form belongs to the case it was opened on, and is gone when another is shown.
FormAfter(l, s) == IF form # Closed /\ SelectedId(l, s) # Open THEN Closed ELSE form

\* The history of what is open is asked for where it has never been read.
HistoryAfter(r, l, s) ==
    LET c == SelectedId(l, s)
    IN IF c # None /\ history[c] = None /\ r[c] = None THEN [r EXCEPT ![c] = Asked] ELSE r

Shows(l, s) ==
    /\ form' = FormAfter(l, s) /\ reading' = HistoryAfter(reading, l, s)
    /\ save' = IF save # None /\ SelectedId(l, s) # Open THEN [save EXCEPT !.drawn = FALSE] ELSE save

(***************************************************************************)
(* The readings                                                            *)
(***************************************************************************)
ServerLists ==
    /\ listing = Asked
    /\ listing' = stored
    /\ UNCHANGED <<stored, here, list, history, reading, selected, form, save, acts>>

ListArrives ==
    /\ listing \notin {None, Asked}
    /\ list' = listing /\ listing' = None
    /\ IF here THEN Shows(listing, selected) ELSE UNCHANGED <<form, reading, save>>
    /\ UNCHANGED <<stored, here, history, selected, acts>>

ServerReads(c) ==
    /\ reading[c] = Asked
    /\ reading' = [reading EXCEPT ![c] = stored[c]]
    /\ UNCHANGED <<stored, here, list, listing, history, selected, form, save, acts>>

HistoryArrives(c) ==
    /\ reading[c] \notin {None, Asked}
    /\ history' = [history EXCEPT ![c] = reading[c]] /\ reading' = [reading EXCEPT ![c] = None]
    /\ UNCHANGED <<stored, here, list, listing, selected, form, save, acts>>

\* The page in place of which another is opened; on the way back the listing is read again
\* unless it is fresh, and a history that is there is not.
Leave ==
    /\ Acts /\ here
    /\ here' = FALSE /\ selected' = None /\ form' = Closed
    /\ save' = IF save # None THEN [save EXCEPT !.drawn = FALSE] ELSE None
    /\ UNCHANGED <<stored, lists>>

Return(fresh) ==
    /\ ~here /\ here' = TRUE
    /\ fresh => list # None
    /\ listing' = IF fresh \/ listing # None THEN listing ELSE Asked
    /\ reading' = HistoryAfter(reading, list, None)
    /\ UNCHANGED <<stored, list, history, selected, form, save, acts>>

(***************************************************************************)
(* What the reader does                                                    *)
(***************************************************************************)
Select(c) ==
    /\ Acts /\ here /\ c \in Listed(list) /\ selected # c
    /\ selected' = c /\ Shows(list, c)
    /\ UNCHANGED <<stored, here, list, listing, history>>

\* The form begins with the scope that is on screen.
Edit ==
    /\ Acts /\ here /\ Open # None /\ form = Closed
    /\ form' = [on |-> Open, draft |-> Latest(Open)]
    /\ UNCHANGED <<stored, here, lists, selected, save>>

Type(s) ==
    /\ Acts /\ here /\ form # Closed /\ s # form.draft
    /\ form' = [form EXCEPT !.draft = s]
    /\ UNCHANGED <<stored, here, lists, selected, save>>

Cancel ==
    /\ Acts /\ here /\ form # Closed
    /\ form' = Closed
    /\ UNCHANGED <<stored, here, lists, selected, save>>

\* What is in the form is saved on the case that is on screen.
Save ==
    /\ Acts /\ here /\ form # Closed /\ save = None
    /\ save' = [on |-> Open, of |-> form.on, scope |-> form.draft,
                done |-> FALSE, drawn |-> TRUE]
    /\ UNCHANGED <<stored, here, lists, selected, form>>

\* A scope is a revision of its own (workflow/cases.py).
ServerRescopes ==
    /\ save # None /\ ~save.done /\ Len(stored[save.on]) < MaxRevisions
    /\ stored' = [stored EXCEPT ![save.on] = Append(@, save.scope)]
    /\ save' = [save EXCEPT !.done = TRUE]
    /\ UNCHANGED <<here, lists, selected, form, acts>>

Again(q, known) == IF q = None \/ known THEN Asked ELSE q

\* The form closes, with whatever was typed in it since, and the listing and the history are
\* out of date: what is on screen is read again at once.
Saved ==
    /\ save # None /\ save.done
    /\ save' = None
    /\ form' = IF save.drawn THEN Closed ELSE form
    /\ listing' = Again(listing, list # None)
    /\ IF here /\ Open = save.on
       THEN /\ reading' = [reading EXCEPT ![save.on] = Again(@, history[save.on] # None)]
            /\ UNCHANGED history
       ELSE /\ history' = [history EXCEPT ![save.on] = None]
            /\ UNCHANGED reading
    /\ UNCHANGED <<stored, here, list, selected, acts>>

SaveFails ==
    /\ save # None /\ ~save.done
    /\ save' = None
    /\ UNCHANGED <<stored, here, lists, selected, form, acts>>

\* A review that asked seals a revision, the first of a case among them.
ReviewSeals(c, s) ==
    /\ Len(stored[c]) < MaxRevisions
    /\ s = IF stored[c] = <<>> THEN s ELSE Last(stored[c])
    /\ stored' = [stored EXCEPT ![c] = Append(@, s)]
    /\ UNCHANGED <<here, lists, selected, form, save, acts>>

Next ==
    \/ ServerLists \/ ListArrives \/ Leave \/ Edit \/ Cancel \/ Save \/ ServerRescopes \/ Saved
    \/ SaveFails
    \/ \E c \in Cases : \/ ServerReads(c) \/ HistoryArrives(c) \/ Select(c)
                        \/ \E s \in Scopes : ReviewSeals(c, s)
    \/ \E s \in Scopes : Type(s)
    \/ \E fresh \in BOOLEAN : Return(fresh)

Spec == Init /\ [][Next]_vars

(***************************************************************************)
(* Properties                                                              *)
(***************************************************************************)
\* Every variable has its type.
TypeOK ==
    /\ stored \in [Cases -> Seq(Scopes)] /\ here \in BOOLEAN
    /\ list # None => list \in [Cases -> Seq(Scopes)]
    /\ listing \notin {None, Asked} => listing \in [Cases -> Seq(Scopes)]
    /\ DOMAIN history = Cases /\ DOMAIN reading = Cases
    /\ selected \in Cases \cup {None}
    /\ form = Closed \/ (form.on \in Cases /\ form.draft \in Scopes)
    /\ save = None \/ (save.on \in Cases /\ save.scope \in Scopes)
    /\ acts \in 0..MaxActs

\* A scope is saved on the case whose form it was typed in, also where a listing that arrived
\* meanwhile put another case on screen (cases-page.tsx:135-143).
ScopesAreSavedWhereTheyWereTyped == save # None => save.on = save.of

\* What the proof of it rests on: a form is of the case that is on screen.
TheFormIsOfTheOpenCase == form # Closed => here /\ form.on = Open

IInv ==
    /\ save # None => DOMAIN save = {"on", "of", "scope", "done", "drawn"}
    /\ TheFormIsOfTheOpenCase /\ ScopesAreSavedWhereTheyWereTyped

\* A history that has been read holds every revision the listing tells of
\* (cases-page.tsx:37-39).
\* Not run: the code does otherwise (README, disagreements that are not run).
TheHistoryIsWhole ==
    \A c \in Listed(list) : history[c] # None /\ reading[c] = None /\ listing = None
                                => RevisionShown(c) >= RevisionListed(c)
=============================================================================
