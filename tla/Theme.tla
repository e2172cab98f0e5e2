-------------------------------- MODULE Theme --------------------------------
(***************************************************************************)
(* The theme of the page (lib/theme.ts) and the two controls that choose   *)
(* it: the toggle of the rail or of the landing page, and the choice of    *)
(* the settings page, which is drawn below the first. Each control keeps   *)
(* the preference it read when it was drawn.                               *)
(***************************************************************************)
CONSTANT None

\* What is assumed of the constants.
ThemeAssumption == None \notin {"light", "dark", "system"}

VARIABLES screen,  \* "landing", "shell" or "settings"
          control, \* by control, its preference, or None where it is not drawn
          stored,  \* what the browser kept, or None
          keeps,   \* whether it keeps anything
          machine, \* what the machine is set to
          applied, \* the theme the page is painted in
          split    \* whether two controls that were drawn together ever differed

vars == <<screen, control, stored, keeps, machine, applied, split>>

Preferences == {"light", "dark", "system"}
Controls == {"toggle", "choice"}

Resolve(p, m) == IF p = "system" THEN m ELSE p

Read == IF stored = None THEN "system" ELSE stored

\* A control whose preference is new paints the page and writes the preference down.
Takes(c, p) ==
    /\ control' = [control EXCEPT ![c] = p]
    /\ applied' = Resolve(p, machine)
    /\ stored' = IF keeps THEN p ELSE stored
    /\ split' = (split \/ (control'["choice"] # None /\ control'["choice"] # control'["toggle"]))
    /\ UNCHANGED <<keeps, machine>>

Drawn(s, p) == [c \in Controls |-> IF c = "toggle" \/ s = "settings" THEN p ELSE None]

\* A page that is loaded is painted before anything is drawn, and again by what is.
Loaded(s) ==
    /\ screen' = s /\ control' = Drawn(s, Read)
    /\ applied' = Resolve(Read, machine) /\ stored' = IF keeps THEN Read ELSE stored
    /\ split' = FALSE
    /\ UNCHANGED <<keeps, machine>>

Init ==
    /\ screen \in {"landing", "shell", "settings"} /\ keeps \in BOOLEAN /\ machine \in {"light", "dark"}
    /\ stored \in IF keeps THEN Preferences ELSE {None}
    /\ control = Drawn(screen, Read) /\ applied = Resolve(Read, machine) /\ split = FALSE

\* The rail is drawn anew only from the landing page; the settings page always is.
Walks(s) ==
    /\ s # screen /\ screen' = s
    /\ IF "landing" \in {s, screen}
       THEN /\ control' = Drawn(s, Read) /\ applied' = Resolve(Read, machine)
            /\ stored' = IF keeps THEN Read ELSE stored
            /\ UNCHANGED <<keeps, machine, split>>
       ELSE IF s = "settings" THEN Takes("choice", Read)
       ELSE /\ control' = Drawn(s, control["toggle"])
            /\ UNCHANGED <<stored, keeps, machine, applied, split>>

\* The toggle: system, light, dark and round again.
Cycle ==
    /\ Takes("toggle", CASE control["toggle"] = "system" -> "light"
                         [] control["toggle"] = "light" -> "dark"
                         [] OTHER -> "system")
    /\ UNCHANGED screen

SetPreference(p) ==
    /\ control["choice"] \notin {None, p}
    /\ Takes("choice", p)
    /\ UNCHANGED screen

\* The machine goes dark or light, and each control that is set to follow it does.
MachineChanges ==
    /\ machine' = IF machine = "light" THEN "dark" ELSE "light"
    /\ applied' = IF \E c \in Controls : control[c] = "system" THEN machine' ELSE applied
    /\ UNCHANGED <<screen, control, stored, keeps, split>>

\* Another tab of the same browser chose; nothing here hears of it.
OtherTab(p) ==
    /\ keeps /\ stored' = p
    /\ UNCHANGED <<screen, control, keeps, machine, applied, split>>

Next ==
    \/ \E s \in {"landing", "shell", "settings"} : Loaded(s) \/ Walks(s)
    \/ Cycle \/ MachineChanges
    \/ \E p \in Preferences : SetPreference(p) \/ OtherTab(p)

Spec == Init /\ [][Next]_vars

-----------------------------------------------------------------------------
TypeOK ==
    /\ control["toggle"] \in Preferences
    /\ control["choice"] \in IF screen = "settings" THEN Preferences ELSE {None}
    /\ stored \in IF keeps THEN Preferences ELSE {None}
    /\ screen \in {"landing", "shell", "settings"} /\ keeps \in BOOLEAN /\ split \in BOOLEAN
    /\ control \in [Controls -> Preferences \cup {None}]
    /\ machine \in {"light", "dark"} /\ applied \in {"light", "dark"}

\* The page is painted in what its control says, whatever the machine, the walks and the other
\* tabs did, as long as the two controls of the settings page never differed (theme.ts 57-82).
ThePaintIsTheChoice ==
    ~split => applied = Resolve(control["toggle"], machine)

\* What the proof of it rests on: the controls agree until they are told apart.
ApartOnlyWhenSplit == ~split => control["choice"] \in {None, control["toggle"]}
IInv == TypeOK /\ ThePaintIsTheChoice /\ ApartOnlyWhenSplit

\* The two controls of the settings page say the same. Not run: the code does otherwise.
TheControlsAgree == \A c \in Controls : control[c] \in {None, control["toggle"]}

\* A preference that cannot be kept applies for the visit. Not run: the code does otherwise.
TheVisitKeepsItsPreference ==
    [][~keeps /\ (\E s \in {"landing", "shell", "settings"} : Walks(s)) => applied' = applied]_vars
=============================================================================
