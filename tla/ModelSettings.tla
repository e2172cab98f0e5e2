---------------------------- MODULE ModelSettings ----------------------------
(***************************************************************************)
(* The models page (features/settings/settings-page.tsx): what each        *)
(* provider offers is one reading and what the workspace is set to is      *)
(* another, and the page draws both beside each other while choices and    *)
(* clearings are made and the readings are asked for again.                *)
(***************************************************************************)
EXTENDS Integers, FiniteSets

CONSTANTS Roles,     \* "reasoning", "embedding"
          Choices,   \* what may be chosen: a model in one of its thinking modes
          ModelOf, ProviderOf, \* the model of a choice, and the provider of it
          FilterableFrom,      \* above as many choices the list has a box to filter it
          None, Asked, \* model values
          MaxActs    \* bound on what the reader does and on the providers' changes

Providers == {ProviderOf[c] : c \in Choices}
Queries == Roles \cup {"workspace"}

\* What a reading may bring: what the workspace is set to, or the catalogue of a role.
Readings(q) ==
    IF q = "workspace" THEN [Roles -> Choices \cup {None}]
    ELSE [offers : SUBSET Choices, answering : SUBSET Providers, selected : Choices \cup {None}]

\* What is assumed of the constants.
SettingsAssumption ==
    /\ DOMAIN ModelOf = Choices /\ DOMAIN ProviderOf = Choices
    /\ "workspace" \notin Roles /\ None \notin Choices /\ None # Asked
    /\ \A q \in Queries : {None, Asked} \cap Readings(q) = {}
    /\ FilterableFrom \in Nat /\ MaxActs \in Nat

VARIABLES chosen,    \* what the workspace is set to, by role
          offers,    \* what the providers that answer offer
          answering, \* the providers that answer
          pinned,    \* the roles set by the environment
          shown,     \* what the page last read, by query, or None
          failed,    \* the queries whose last reading failed
          flight,    \* by query: None, Asked, or the answer on its way
          select, clear, \* by role, the choice and the clearing at work: see Idle
          needle,    \* the choices that match what is typed, by role
          early,     \* the roles the page is not answerable for: a press was made before what it is
                     \* drawn from was read once, or was taken and its answer lost
          acts

world == <<offers, answering, pinned>>
page == <<shown, failed, flight>>
vars == <<chosen, world, page, select, clear, needle, early, acts>>

\* A mutation: nothing at work, sent, taken by the server, or waiting for its readings.
Idle == [at |-> "idle", choice |-> None, awaits |-> {}]

Init ==
    /\ chosen \in [Roles -> Choices \cup {None}] /\ pinned \in SUBSET Roles
    /\ answering \in SUBSET Providers /\ offers = {c \in Choices : ProviderOf[c] \in answering}
    /\ shown = [q \in Queries |-> None] /\ failed = {}
    /\ flight = [q \in Queries |-> Asked]
    /\ select = [r \in Roles |-> Idle] /\ clear = [r \in Roles |-> Idle]
    /\ needle = [r \in Roles |-> Choices] /\ early = {} /\ acts = 0

Acts == acts < MaxActs /\ acts' = acts + 1

(***************************************************************************)
(* What the page draws                                                     *)
(***************************************************************************)
Offered(r) == IF shown[r] = None THEN {} ELSE shown[r].offers

\* A list too short to be searched is drawn whole, whatever was typed.
Matching(r) ==
    IF Cardinality(Offered(r)) >= FilterableFrom THEN Offered(r) \cap needle[r] ELSE Offered(r)

\* A model is drawn with all its modes when one of them matches.
Tiles(r) == {c \in Offered(r) : \E d \in Matching(r) : ModelOf[d] = ModelOf[c]}
                \cap {c \in Offered(r) : r \notin failed}

\* The tiles that wear the Selected chip, from the catalogue.
Marked(r) == {c \in Tiles(r) : c = shown[r].selected}

\* What the workspace is said to be set to, from the workspace.
Identity(r) == IF shown["workspace"] = None THEN None ELSE shown["workspace"][r]

Unread(q) == shown[q] = None /\ flight[q] # None

\* Why the selected model has no tile.
WhyMissing(r) ==
    LET it == Identity(r)
        known == shown[r] # None
    IN CASE it = None -> "nothing"
         [] it # None /\ \E c \in Offered(r) : ModelOf[c] = ModelOf[it] -> "nothing"
         [] OTHER -> IF known /\ ProviderOf[it] \notin shown[r].answering
                     THEN "does not answer" ELSE "answers, without this model"

(***************************************************************************)
(* The readings                                                            *)
(***************************************************************************)
\* A reading asked for again: the one in flight is cancelled only where there was one before.
Again(Q) ==
    /\ flight' = [q \in Queries |->
           IF q \in Q /\ (flight[q] = None \/ shown[q] # None) THEN Asked ELSE flight[q]]
    /\ failed' = {q \in failed : q \notin Q \/ shown[q] # None}

FaultyRefresh == Again(Roles)

\* Everything the page reads is out of date once a choice was made or a clearing.
Refresh == Again(Queries)

UnderWay == {q \in Queries : flight[q] # None}

ServerReads(q) ==
    /\ flight[q] = Asked
    /\ flight' = [flight EXCEPT ![q] =
           IF q = "workspace" THEN chosen
           ELSE [offers |-> offers, answering |-> answering,
                 selected |-> IF chosen[q] \in offers THEN chosen[q] ELSE None]]
    /\ UNCHANGED <<chosen, world, shown, failed, select, clear, needle, early, acts>>

Without(m, q) == [r \in Roles |-> [m[r] EXCEPT !.awaits = @ \ {q}]]

Arrives(q) ==
    /\ flight[q] \notin {None, Asked}
    /\ shown' = [shown EXCEPT ![q] = flight[q]] /\ failed' = failed \ {q}
    /\ flight' = [flight EXCEPT ![q] = None]
    /\ select' = Without(select, q) /\ clear' = Without(clear, q)
    /\ UNCHANGED <<chosen, world, needle, early, acts>>

ReadFails(q) ==
    /\ Acts /\ flight[q] # None
    /\ flight' = [flight EXCEPT ![q] = None] /\ failed' = failed \cup {q}
    /\ select' = Without(select, q) /\ clear' = Without(clear, q)
    /\ UNCHANGED <<chosen, world, shown, needle, early>>

TryAgain(q) ==
    /\ Acts /\ q \in failed
    /\ Again({q})
    /\ UNCHANGED <<chosen, world, shown, select, clear, needle, early>>

Recheck ==
    /\ Acts /\ \A r \in Roles : flight[r] = None
    /\ Refresh
    /\ UNCHANGED <<chosen, world, shown, select, clear, needle, early>>

(***************************************************************************)
(* Choosing and clearing                                                   *)
(***************************************************************************)
Early(r) ==
    early' = IF \E q \in {r, "workspace"} : shown[q] = None THEN early \cup {r} ELSE early

\* A tile is pressed: none is, while a choice of that role is at work or it is pinned.
Select(r, c) ==
    /\ Acts /\ c \in Tiles(r) /\ ProviderOf[c] \in shown[r].answering
    /\ r \notin pinned \/ shown["workspace"] = None
    /\ select[r] = Idle
    /\ select' = [select EXCEPT ![r] = [at |-> "sent", choice |-> c, awaits |-> {}]]
    /\ Early(r)
    /\ UNCHANGED <<chosen, world, page, clear, needle>>

Clear(r) ==
    /\ Acts /\ Identity(r) # None /\ r \notin pinned /\ clear[r] = Idle
    /\ clear' = [clear EXCEPT ![r] = [Idle EXCEPT !.at = "sent"]]
    /\ Early(r)
    /\ UNCHANGED <<chosen, world, page, select, needle>>

\* The server takes a choice without asking whether it is offered, and none of a pinned role.
ServerSelects(r) ==
    /\ select[r].at = "sent"
    /\ IF r \in pinned THEN select' = [select EXCEPT ![r] = Idle] /\ UNCHANGED chosen
       ELSE /\ chosen' = [chosen EXCEPT ![r] = select[r].choice]
            /\ select' = [select EXCEPT ![r].at = "taken"]
    /\ UNCHANGED <<world, page, clear, needle, early, acts>>

ServerClears(r) ==
    /\ clear[r].at = "sent"
    /\ chosen' = [chosen EXCEPT ![r] = None]
    /\ clear' = [clear EXCEPT ![r].at = "taken"]
    /\ UNCHANGED <<world, page, select, needle, early, acts>>

\* Once the server has answered the page reads everything again, and is busy until it has.
Selected(r) ==
    /\ select[r].at = "taken"
    /\ Refresh
    /\ select' = [select EXCEPT ![r] = [@ EXCEPT !.at = "read", !.awaits = UnderWay']]
    /\ UNCHANGED <<chosen, world, shown, clear, needle, early, acts>>

Cleared(r) ==
    /\ clear[r].at = "taken"
    /\ Refresh
    /\ clear' = [clear EXCEPT ![r] = [@ EXCEPT !.at = "read", !.awaits = UnderWay']]
    /\ UNCHANGED <<chosen, world, shown, select, needle, early, acts>>

Settles(r) ==
    /\ \/ /\ select[r].at = "read" /\ select[r].awaits = {}
          /\ select' = [select EXCEPT ![r] = Idle] /\ UNCHANGED clear
       \/ /\ clear[r].at = "read" /\ clear[r].awaits = {}
          /\ clear' = [clear EXCEPT ![r] = Idle] /\ UNCHANGED select
    /\ UNCHANGED <<chosen, world, page, needle, early, acts>>

\* A choice or a clearing that is refused, or was taken and its answer lost: nothing is read again.
MutationFails(r) ==
    LET Lost(m) == early' = IF m[r].at = "taken" THEN early \cup {r} ELSE early
    IN  /\ Acts
        /\ \/ /\ select[r].at \in {"sent", "taken"} /\ Lost(select)
              /\ select' = [select EXCEPT ![r] = Idle] /\ UNCHANGED clear
           \/ /\ clear[r].at \in {"sent", "taken"} /\ Lost(clear)
              /\ clear' = [clear EXCEPT ![r] = Idle] /\ UNCHANGED select
        /\ UNCHANGED <<chosen, world, page, needle>>

\* The filter is there only over a list long enough.
Type(r, found) ==
    /\ Acts /\ Cardinality(Offered(r)) >= FilterableFrom /\ r \notin failed
    /\ found # needle[r]
    /\ needle' = [needle EXCEPT ![r] = found]
    /\ UNCHANGED <<chosen, world, page, select, clear, early>>

\* A provider starts or stops answering, or offers something else.
ProvidersChange(P, C) ==
    /\ Acts /\ <<P, C>> # <<answering, offers>>
    /\ C \subseteq {c \in Choices : ProviderOf[c] \in P}
    /\ answering' = P /\ offers' = C
    /\ UNCHANGED <<chosen, pinned, page, select, clear, needle, early>>

Next ==
    \/ \E q \in Queries : ServerReads(q) \/ Arrives(q) \/ ReadFails(q) \/ TryAgain(q)
    \/ Recheck
    \/ \E r \in Roles : \/ \E c \in Choices : Select(r, c)
                        \/ Clear(r) \/ ServerSelects(r) \/ ServerClears(r) \/ Selected(r)
                        \/ Cleared(r) \/ Settles(r) \/ MutationFails(r)
                        \/ \E found \in SUBSET Choices : Type(r, found)
    \/ \E P \in SUBSET Providers, C \in SUBSET Choices : ProvidersChange(P, C)

Spec == Init /\ [][Next]_vars

(***************************************************************************)
(* Properties                                                              *)
(***************************************************************************)
Mutations == [at : {"idle", "sent", "taken", "read"}, choice : Choices \cup {None},
              awaits : SUBSET Queries]

\* Every variable has its type.
TypeOK ==
    /\ chosen \in [Roles -> Choices \cup {None}] /\ pinned \subseteq Roles
    /\ answering \subseteq Providers /\ offers \subseteq Choices
    /\ failed \subseteq Queries /\ DOMAIN shown = Queries /\ DOMAIN flight = Queries
    /\ \A q \in Queries : shown[q] \in {None} \cup Readings(q) /\ flight[q] \in {None, Asked} \cup Readings(q)
    /\ select \in [Roles -> Mutations] /\ clear \in [Roles -> Mutations]
    /\ needle \in [Roles -> SUBSET Choices] /\ early \subseteq Roles
    /\ acts \in 0..MaxActs

AtRest == /\ failed = {} /\ \A q \in Queries : flight[q] = None
          /\ \A r \in Roles : select[r] = Idle /\ clear[r] = Idle

\* Once every press has been answered and every reading has arrived, the page names the model
\* the workspace is set to, and no tile wears Selected but that of it, however choices,
\* clearings and re-checks overlapped; a press made before both were read once is the
\* exception, for a first reading already under way is not started again, and so is one that
\* was taken and whose answer was lost, for only an answer has the page read again.
TheSettledPageTellsTheChoice ==
    AtRest => \A r \in Roles \ early : Marked(r) \subseteq {chosen[r]} /\ Identity(r) = chosen[r]

\* What the proof of it rests on: a press that was not early found both readings on screen; and
\* between the presses of a role, what was read for it, and not asked for again since, is so.
TellsTheChoice(q, r, it) ==
    IF q = "workspace" THEN it[r] = chosen[r] ELSE it.selected \in {chosen[r], None}

PressesFoundTheReadings ==
    \A r \in Roles \ early : select[r].at # "idle" \/ clear[r].at # "idle"
        => \A q \in {r, "workspace"} : shown[q] # None

ReadingsFollowTheChoice ==
    \A r \in Roles \ early : "taken" \notin {select[r].at, clear[r].at} =>
        \A q \in {r, "workspace"} :
            /\ flight[q] \notin {None, Asked} => TellsTheChoice(q, r, flight[q])
            /\ flight[q] = None /\ q \notin failed => shown[q] # None /\ TellsTheChoice(q, r, shown[q])

IInv == TypeOK /\ PressesFoundTheReadings /\ ReadingsFollowTheChoice

\* The page says a provider answers only where a probe said so (settings-page.tsx:362-364).
\* Not run: the code does otherwise (README, disagreements that are not run).
AnsweringIsKnown ==
    \A r \in Roles :
        (~Unread("workspace") /\ WhyMissing(r) = "answers, without this model")
            => shown[r] # None /\ ProviderOf[Identity(r)] \in shown[r].answering
=============================================================================
