---------------------------- MODULE WizardProofs ----------------------------
(***************************************************************************)
(* Theorems about Wizard, for any ranges of the program and of the user,   *)
(* any drivers, ports and interfaces, and any number of changes.           *)
(***************************************************************************)
EXTENDS Wizard, FiniteSetTheorems, SequenceTheorems, TLAPS

USE DEF where, ranges, options, editing, draws

Entry == [cidr: STRING, selected: BOOLEAN, custom: BOOLEAN]

(* The pending removal is an index; it keeps pointing at the range that    *)
(* the message named, because no edit of a range begins under it.          *)
Pending ==
  /\ cidrs \in Seq(Entry)
  /\ pendingDelete # 0 => /\ pendingDelete \in DOMAIN cidrs
                          /\ cidrs[pendingDelete].custom
                          /\ cidrs[pendingDelete].cidr = asked
  /\ input = "edit" => pendingDelete = 0

Removed == \E i \in DOMAIN cidrs : /\ cidrs' = RemoveAt(cidrs, i) /\ cidrs[i].custom
                                   /\ cidrs[i].cidr = asked
Confirmed == Len(cidrs') < Len(cidrs) => Removed

Kept == Pending' /\ Confirmed

LEMMA Frame ==
  ASSUME Pending, UNCHANGED <<cidrs, asked>>, input' \in {input, "none", "add"},
         pendingDelete' \in {pendingDelete, 0}
  PROVE  Kept
<1>1. Len(cidrs) \in Nat
  BY DEF Pending
<1>. QED
  BY <1>1 DEF Pending, Kept, Confirmed

(* A change of what is listed that names every range as before.            *)
LEMMA SameNames ==
  ASSUME Pending, cidrs' \in Seq(Entry), Len(cidrs') = Len(cidrs),
         \A i \in DOMAIN cidrs : cidrs'[i].cidr = cidrs[i].cidr /\ cidrs'[i].custom = cidrs[i].custom,
         UNCHANGED asked, pendingDelete' \in {pendingDelete, 0}, input' \in {input, "none"}
  PROVE  Kept
<1>1. Len(cidrs) \in Nat /\ DOMAIN cidrs = 1..Len(cidrs) /\ DOMAIN cidrs' = 1..Len(cidrs')
  BY DEF Pending
<1>. QED
  BY <1>1 DEF Pending, Kept, Confirmed

LEMMA FlipFact ==
  ASSUME NEW cs \in Seq(Entry), NEW i \in DOMAIN cs, NEW on \in BOOLEAN
  PROVE  LET ds == [cs EXCEPT ![i].selected = on]
         IN /\ ds \in Seq(Entry) /\ Len(ds) = Len(cs)
            /\ \A j \in DOMAIN cs : ds[j].cidr = cs[j].cidr /\ ds[j].custom = cs[j].custom
<1> DEFINE e == [cs[i] EXCEPT !.selected = on]
           ds == [cs EXCEPT ![i] = e]
<1>1. cs[i] \in Entry
  OBVIOUS
<1>2. e \in Entry /\ e.cidr = cs[i].cidr /\ e.custom = cs[i].custom
  BY <1>1 DEF Entry
<1>3. ds = [cs EXCEPT ![i].selected = on]
  OBVIOUS
<1> HIDE DEF e
<1>4. ds \in Seq(Entry) /\ Len(ds) = Len(cs)
  BY <1>2
<1>5. \A j \in DOMAIN cs : ds[j] = IF j = i THEN e ELSE cs[j]
  OBVIOUS
<1>. QED
  BY <1>2, <1>3, <1>4, <1>5

LEMMA AllFact ==
  ASSUME NEW cs \in Seq(Entry), NEW on \in BOOLEAN
  PROVE  LET ds == [i \in DOMAIN cs |-> [cs[i] EXCEPT !.selected = on]]
         IN /\ ds \in Seq(Entry) /\ Len(ds) = Len(cs)
            /\ \A j \in DOMAIN cs : ds[j].cidr = cs[j].cidr /\ ds[j].custom = cs[j].custom
<1> DEFINE e(i) == [cs[i] EXCEPT !.selected = on]
           ds == [i \in DOMAIN cs |-> e(i)]
<1>1. \A i \in DOMAIN cs : e(i) \in Entry /\ e(i).cidr = cs[i].cidr /\ e(i).custom = cs[i].custom
  <2> TAKE i \in DOMAIN cs
  <2>1. cs[i] \in Entry
    OBVIOUS
  <2>. QED
    BY <2>1 DEF Entry
<1> HIDE DEF e
<1>2. ds \in [1..Len(cs) -> Entry] /\ Len(cs) \in Nat
  BY <1>1
<1>3. ds \in Seq(Entry) /\ Len(ds) = Len(cs)
  BY <1>2
<1>. QED
  BY <1>1, <1>3 DEF e

LEMMA RenameFact ==
  ASSUME NEW cs \in Seq(Entry), NEW i, NEW s \in STRING
  PROVE  [cs EXCEPT ![i].cidr = s] \in Seq(Entry) /\ Len([cs EXCEPT ![i].cidr = s]) = Len(cs)
<1>1. CASE i \in DOMAIN cs
  <2> DEFINE e == [cs[i] EXCEPT !.cidr = s]
  <2>1. cs[i] \in Entry
    BY <1>1
  <2>2. e \in Entry
    BY <2>1 DEF Entry
  <2> HIDE DEF e
  <2>3. [cs EXCEPT ![i] = e] \in Seq(Entry) /\ Len([cs EXCEPT ![i] = e]) = Len(cs)
    BY <1>1, <2>2
  <2>. QED
    BY <2>3 DEF e
<1>2. CASE i \notin DOMAIN cs
  <2>1. [cs EXCEPT ![i].cidr = s] = cs
    BY <1>2
  <2>. QED
    BY <2>1
<1>. QED
  BY <1>1, <1>2

LEMMA SubmitKeeps == ASSUME WizardAssumption, Pending, NEW s \in Typed, SubmitRange(s) PROVE Kept
<1>1. s \in STRING /\ input' = "none" /\ UNCHANGED <<pendingDelete, asked>>
  BY DEF SubmitRange, WizardAssumption
<1>2. CASE input = "edit"
  <2>1. cidrs' = [cidrs EXCEPT ![editIndex].cidr = s] /\ pendingDelete = 0
    BY <1>2 DEF SubmitRange, Changed, Pending
  <2>2. cidrs' \in Seq(Entry) /\ Len(cidrs') = Len(cidrs) /\ Len(cidrs) \in Nat
    <3>1. cidrs \in Seq(Entry) /\ Len(cidrs) \in Nat
      BY DEF Pending
    <3>2. /\ [cidrs EXCEPT ![editIndex].cidr = s] \in Seq(Entry)
          /\ Len([cidrs EXCEPT ![editIndex].cidr = s]) = Len(cidrs)
      BY <1>1, <3>1, RenameFact, Zenon
    <3>. QED
      BY <2>1, <3>1, <3>2
  <2>. QED
    BY <1>1, <2>1, <2>2 DEF Kept, Pending, Confirmed
<1>3. CASE input # "edit" /\ s \in Names(cidrs)
  <2>1. PICK i \in DOMAIN cidrs : cidrs' = [cidrs EXCEPT ![i].selected = TRUE]
    <3> DEFINE i == CHOOSE j \in DOMAIN cidrs : cidrs[j].cidr = s
    <3>1. i \in DOMAIN cidrs
      BY <1>3 DEF Names
    <3>2. cidrs' = [cidrs EXCEPT ![i].selected = TRUE]
      BY <1>3 DEF SubmitRange, Changed
    <3>. QED
      BY <3>1, <3>2
  <2>. QED
    BY <1>1, <2>1, FlipFact, SameNames DEF Pending
<1>4. CASE input # "edit" /\ s \notin Names(cidrs)
  <2> DEFINE e == [cidr |-> s, selected |-> TRUE, custom |-> TRUE]
  <2>1. cidrs' = Append(cidrs, e) /\ e \in Entry /\ cidrs \in Seq(Entry)
    BY <1>1, <1>4 DEF SubmitRange, Changed, Pending, Entry
  <2> HIDE DEF e
  <2>2. /\ cidrs' \in Seq(Entry) /\ Len(cidrs') = Len(cidrs) + 1 /\ Len(cidrs) \in Nat
        /\ \A i \in DOMAIN cidrs : i \in DOMAIN cidrs' /\ cidrs'[i] = cidrs[i]
    BY <2>1
  <2>. QED
    BY <1>1, <2>2 DEF Kept, Pending, Confirmed
<1>. QED
  BY <1>2, <1>3, <1>4

LEMMA RemoveKeeps == ASSUME Pending, RemoveRange PROVE Kept
<1>1. /\ cidrs \in Seq(Entry) /\ Len(cidrs) \in Nat /\ DOMAIN cidrs = 1..Len(cidrs)
      /\ input = "none" /\ input' = "none"
  BY DEF RemoveRange, OnRanges, Pending
<1>2. CASE pendingDelete' = 0 /\ UNCHANGED <<asked, cidrs>>
  BY <1>1, <1>2, Frame
<1>3. CASE pendingDelete' = cursor /\ asked' = Here.cidr /\ Listed /\ Here.custom /\ UNCHANGED cidrs
  BY <1>1, <1>3 DEF Here, Listed, Kept, Pending, Confirmed
<1>4. CASE /\ Listed /\ Here.custom /\ pendingDelete = cursor /\ pendingDelete' = 0
           /\ cidrs' = RemoveAt(cidrs, cursor)
  <2>1. Removed
    BY <1>1, <1>4 DEF Here, Listed, Removed, Pending
  <2>2. RemoveAt(cidrs, cursor) \in Seq(Entry)
    <3>1. cursor \in 1..Len(cidrs)
      BY <1>1, <1>4 DEF Listed
    <3>2. SubSeq(cidrs, 1, cursor - 1) \in Seq(Entry) /\ SubSeq(cidrs, cursor + 1, Len(cidrs)) \in Seq(Entry)
      BY <1>1, <3>1
    <3>. QED
      BY <3>2 DEF RemoveAt
  <2>. QED
    BY <1>1, <1>4, <2>1, <2>2 DEF Kept, Pending, Confirmed
<1>. QED
  BY <1>2, <1>3, <1>4 DEF RemoveRange, Changed

LEMMA RangesKeep == ASSUME WizardAssumption, Pending, RangesStep PROVE Kept
<1>1. CASE \E d \in Arrow : MoveCursor(d) \/ ScrollRanges(d)
  BY <1>1, Frame DEF MoveCursor, ScrollRanges
<1>2. CASE \E i \in DOMAIN cidrs : ToggleRange(i)
  <2>1. PICK i \in DOMAIN cidrs : ToggleRange(i)
    BY <1>2
  <2> DEFINE on == ~cidrs[i].selected
  <2>2. cidrs' = [cidrs EXCEPT ![i].selected = on] /\ UNCHANGED <<input, pendingDelete, asked>>
    BY <2>1 DEF ToggleRange, Changed, Flip
  <2>3. on \in BOOLEAN
    OBVIOUS
  <2> HIDE DEF on
  <2>. QED
    BY <2>2, <2>3, FlipFact, SameNames DEF Pending
<1>3. CASE \E on \in BOOLEAN : SelectAll(on)
  BY <1>3, AllFact, SameNames DEF SelectAll, Changed, Pending
<1>4. CASE ToggleSweep
  BY <1>4, Frame DEF ToggleSweep, Changed
<1>5. CASE OpenAdd \/ OtherKey \/ LeaveInput
  BY <1>5, Frame DEF OpenAdd, OtherKey, LeaveInput
<1>6. CASE OpenEdit
  <2>1. Len(cidrs) \in Nat
    BY DEF Pending
  <2>. QED
    BY <1>6, <2>1 DEF OpenEdit, AfterOpenEdit, Pending, Kept, Confirmed
<1>7. CASE RemoveRange \/ \E s \in Typed : SubmitRange(s)
  BY <1>7, RemoveKeeps, SubmitKeeps
<1>. QED
  BY <1>1, <1>2, <1>3, <1>4, <1>5, <1>6, <1>7 DEF RangesStep

LEMMA SettingsKeep == ASSUME Pending, SettingsStep PROVE Kept
<1>1. UNCHANGED <<cidrs, asked, input, pendingDelete>>
  BY DEF SettingsStep, MoveField, ScrollFields, Nudge, ToggleAdvanced, ActivateField, Changed,
     Preset, TypeNumber, PickPorts, PickInterface, PickFragment, Commit, CancelEdit
<1>. QED
  BY <1>1, Frame

LEMMA StepKeeps == Pending /\ [Next]_vars => Kept
<1> SUFFICES ASSUME Pending, [Next]_vars PROVE Kept
  OBVIOUS
<1>1. CASE RangesStep \/ SettingsStep
  BY <1>1, RangesKeep, SettingsKeep, WizardAssumption
<1>2. CASE ~(RangesStep \/ SettingsStep)
  <2>1. UNCHANGED <<cidrs, asked, input, pendingDelete>>
    BY <1>2 DEF Next, ChangeStep, ReturnToResults, RefreshPreview, Regenerate, PressStart,
       PreviewDone, StartScan, RerunSelected, CustomizeScan, vars
  <2>. QED
    BY <2>1, Frame
<1>. QED
  BY <1>1, <1>2

LEMMA InitKeeps == Init => Pending
<1> SUFFICES ASSUME Init PROVE Pending
  OBVIOUS
<1> DEFINE given(i) == [cidr |-> BuiltIn[i], selected |-> TRUE, custom |-> FALSE]
           added(i) == [cidr |-> Own[i], selected |-> TRUE, custom |-> TRUE]
<1>1. BuiltIn \in Seq(STRING) /\ Own \in Seq(STRING)
  BY WizardAssumption DEF WizardAssumption
<1>2. (\A i \in DOMAIN BuiltIn : given(i) \in Entry) /\ (\A i \in DOMAIN Own : added(i) \in Entry)
  BY <1>1 DEF Entry
<1>3. cidrs = [i \in DOMAIN BuiltIn |-> given(i)] \o [i \in DOMAIN Own |-> added(i)]
  BY DEF Init
<1> HIDE DEF given, added
<1>4. [i \in DOMAIN BuiltIn |-> given(i)] \in Seq(Entry) /\ [i \in DOMAIN Own |-> added(i)] \in Seq(Entry)
  BY <1>1, <1>2
<1>5. cidrs \in Seq(Entry)
  BY <1>3, <1>4
<1>. QED
  BY <1>5 DEF Init, Pending

(* No mix of keys, clicks and edits removes another range than the one the *)
(* message "Press x again to remove" named, nor one of the program         *)
(* (tui/wizard.rs, pending_cidr_delete).                                   *)
THEOREM RemovalConfirmedHolds == Spec => RemovalConfirmed
<1>1. Kept => Pending' /\ [Confirmed]_vars
  BY DEF Kept
<1>2. Confirmed <=> (Len(cidrs') < Len(cidrs) =>
        \E i \in DOMAIN cidrs : /\ cidrs' = RemoveAt(cidrs, i) /\ cidrs[i].custom
                                /\ cidrs[i].cidr = asked)
  BY DEF Confirmed, Removed
<1>. QED
  BY <1>1, <1>2, InitKeeps, StepKeeps, PTL DEF Spec, RemovalConfirmed
-----------------------------------------------------------------------------
(* The settings.  A commit compares the draft with the other bound only, so  *)
(* the bounds have to be in order before; toggles, presets and the sweep key *)
(* keep one strategy each from a state in which the two exclude each other;  *)
(* an index is safe because the list it points into is left alone while it   *)
(* is held.                                                                  *)

Options == [ports : SUBSET Ports, interface : Nat, fragment : Nat, weight : Nat, twoPhase : BOOLEAN,
            driver : {Drivers[i] : i \in DOMAIN Drivers}, min : Nat, max : Nat]

Sensible(c) == /\ c \in Options /\ c.ports # {} /\ c.min <= c.max
               /\ c.twoPhase => c.driver = "sampling"
OptionsOK == Sensible(config) /\ twoPhaseBefore \in BOOLEAN

DraftOK == /\ edit \in 0..Len(Fields) /\ draft \in [number : Nat, ports : SUBSET Ports]
           /\ row \in Nat /\ checked \in Nat
           /\ edit # 0 => ~IsToggle(Fields[edit])

PlaceOK == step = "settings" => cursor \in DOMAIN Fields

EditedOK == /\ input # "edit" => editIndex = 0
            /\ editIndex # 0 => editIndex \in DOMAIN cidrs /\ cidrs[editIndex].custom

Distinct(cs) == \A i, j \in DOMAIN cs : cs[i].cidr = cs[j].cidr => i = j

SavedOK == saved = Staged(config, cidrs)

Sound == OptionsOK /\ DraftOK /\ PlaceOK /\ EditedOK /\ Distinct(cidrs) /\ SavedOK

LEMMA DriversFact ==
  ASSUME WizardAssumption
  PROVE  LET D == {Drivers[i] : i \in DOMAIN Drivers}
         IN "sampling" \in D /\ Drivers[2] \in D /\ \A d \in D : Cycled(d) \in D
<1> DEFINE D == {Drivers[i] : i \in DOMAIN Drivers}
<1>1. /\ Len(Drivers) \in Nat /\ Len(Drivers) >= 2 /\ DOMAIN Drivers = 1..Len(Drivers)
      /\ Drivers[1] = "sampling"
  BY DEF WizardAssumption
<1>2. 1 \in DOMAIN Drivers /\ 2 \in DOMAIN Drivers
  BY <1>1
<1>3. ASSUME NEW d \in D PROVE Cycled(d) \in D
  <2> DEFINE i == CHOOSE j \in DOMAIN Drivers : Drivers[j] = d
  <2>1. i \in DOMAIN Drivers
    OBVIOUS
  <2>2. i \in Nat
    BY <1>1, <2>1
  <2> HIDE DEF i
  <2>3. (i % Len(Drivers)) \in 0..(Len(Drivers) - 1)
    BY <1>1, <2>2
  <2>4. ((i % Len(Drivers)) + 1) \in DOMAIN Drivers
    BY <1>1, <2>3
  <2>. QED
    BY <2>4 DEF Cycled, i
<1>. QED
  BY <1>1, <1>2, <1>3

(* The drafts a commit may take.                                           *)
LEMMA AppliedFact ==
  ASSUME OptionsOK, DraftOK, edit # 0, Accepts(Fields[edit])
  PROVE  Sensible(Applied(Fields[edit]))
<1>1. config \in Options /\ draft.number \in Nat /\ draft.ports \in SUBSET Ports /\ row \in Nat
      /\ checked \in Nat /\ config.ports # {} /\ config.min <= config.max
      /\ (config.twoPhase => config.driver = "sampling")
  BY DEF OptionsOK, DraftOK, Sensible
<1>2. CASE edit = 1
  <2>1. Fields[edit] = "ports"
    BY <1>2 DEF Fields
  <2>2. draft.ports # {}
    BY <2>1 DEF Accepts
  <2>3. Applied("ports") = [config EXCEPT !.ports = draft.ports]
    BY DEF Applied, IsNumeric
  <2>. QED
    BY <1>1, <2>1, <2>2, <2>3 DEF Sensible, Options
<1>3. CASE edit = 2
  <2>1. Fields[edit] = "interface"
    BY <1>3 DEF Fields
  <2>3. Applied("interface") = [config EXCEPT !.interface = row]
    BY DEF Applied, IsNumeric
  <2>. QED
    BY <1>1, <2>1, <2>3 DEF Sensible, Options
<1>4. CASE edit = 3
  <2>1. Fields[edit] = "fragment"
    BY <1>4 DEF Fields
  <2>3. Applied("fragment") = [config EXCEPT !.fragment = checked]
    BY DEF Applied, IsNumeric
  <2>. QED
    BY <1>1, <2>1, <2>3 DEF Sensible, Options
<1>5. CASE edit = 4
  <2>1. Fields[edit] = "weight"
    BY <1>5 DEF Fields
  <2>3. Applied("weight") = [config EXCEPT !.weight = draft.number]
    BY DEF Applied, IsNumeric
  <2>. QED
    BY <1>1, <2>1, <2>3 DEF Sensible, Options
<1>6. CASE edit = 7
  <2>1. Fields[edit] = "min"
    BY <1>6 DEF Fields
  <2>2. draft.number <= config.max
    BY <2>1 DEF Accepts
  <2>3. Applied("min") = [config EXCEPT !.min = draft.number]
    BY DEF Applied, IsNumeric
  <2>. QED
    BY <1>1, <2>1, <2>2, <2>3 DEF Sensible, Options
<1>7. CASE edit = 8
  <2>1. Fields[edit] = "max"
    BY <1>7 DEF Fields
  <2>2. config.min <= draft.number
    BY <2>1 DEF Accepts
  <2>3. Applied("max") = [config EXCEPT !.max = draft.number]
    BY DEF Applied, IsNumeric
  <2>. QED
    BY <1>1, <2>1, <2>2, <2>3 DEF Sensible, Options
<1>8. edit # 5 /\ edit # 6
  BY DEF DraftOK, Fields, IsToggle
<1>9. edit \in 1..8
  BY DEF DraftOK, Fields
<1>. QED
  BY <1>2, <1>3, <1>4, <1>5, <1>6, <1>7, <1>8, <1>9

LEMMA ToggledFact ==
  ASSUME WizardAssumption, Sensible(config), NEW f \in {"twoPhase", "driver"}
  PROVE  Sensible(Toggled(f, config))
<1>1. config \in Options /\ config.ports # {} /\ config.min <= config.max
      /\ (config.twoPhase => config.driver = "sampling")
  BY DEF Sensible
<1>2. CASE f = "twoPhase"
  <2>1. "sampling" \in {Drivers[i] : i \in DOMAIN Drivers}
    BY DriversFact
  <2> DEFINE d == IF config.twoPhase THEN config.driver ELSE "sampling"
  <2>2. d = "sampling" /\ (~config.twoPhase) \in BOOLEAN
    BY <1>1
  <2>3. Toggled(f, config) = [config EXCEPT !.twoPhase = ~config.twoPhase, !.driver = d]
    BY <1>1, <1>2 DEF Toggled, Options
  <2> HIDE DEF d
  <2>. QED
    BY <1>1, <2>1, <2>2, <2>3 DEF Sensible, Options
<1>3. CASE f = "driver"
  <2> DEFINE d == Cycled(config.driver)
             b == config.twoPhase /\ d = "sampling"
  <2>1. d \in {Drivers[i] : i \in DOMAIN Drivers}
    BY <1>1, DriversFact DEF Options
  <2>2. b \in BOOLEAN /\ (b => d = "sampling")
    OBVIOUS
  <2>3. Toggled(f, config) = [config EXCEPT !.driver = d, !.twoPhase = b]
    BY <1>1, <1>3 DEF Toggled, Options
  <2> HIDE DEF d, b
  <2>. QED
    BY <1>1, <2>1, <2>2, <2>3 DEF Sensible, Options
<1>. QED
  BY <1>2, <1>3

(* The actions that change an option, those that change a draft, and the    *)
(* rest.                                                                    *)
LEMMA OptionsSplit ==
  ASSUME [Next]_vars
  PROVE  \/ UNCHANGED <<config, twoPhaseBefore>>
         \/ ToggleSweep
         \/ \E i \in DOMAIN Fields : ActivateField(i)
         \/ \E n \in 1..3 : Preset(n)
         \/ Commit
<1>1. CASE RangesStep
  BY <1>1 DEF RangesStep, MoveCursor, ScrollRanges, ToggleRange, Changed, SelectAll, OpenAdd, OpenEdit,
     RemoveRange, OtherKey, SubmitRange, LeaveInput
<1>2. CASE SettingsStep
  BY <1>2 DEF SettingsStep, MoveField, ScrollFields, Nudge, ToggleAdvanced, TypeNumber, PickPorts,
     PickInterface, PickFragment, CancelEdit
<1>3. CASE ~(RangesStep \/ SettingsStep)
  BY <1>3 DEF Next, ChangeStep, ReturnToResults, RefreshPreview, Regenerate, PressStart,
     PreviewDone, StartScan, RerunSelected, CustomizeScan, vars
<1>. QED
  BY <1>1, <1>2, <1>3

LEMMA OptionsKept == ASSUME WizardAssumption, OptionsOK, DraftOK, [Next]_vars PROVE OptionsOK'
<1>1. /\ config \in Options /\ config.ports # {} /\ config.min <= config.max
      /\ (config.twoPhase => config.driver = "sampling") /\ twoPhaseBefore \in BOOLEAN
  BY DEF OptionsOK, Sensible
<1>2. "sampling" \in {Drivers[i] : i \in DOMAIN Drivers} /\ Drivers[2] \in {Drivers[i] : i \in DOMAIN Drivers}
  BY DriversFact
<1>3. CASE UNCHANGED <<config, twoPhaseBefore>>
  BY <1>3 DEF OptionsOK, Sensible, Options
<1>4. CASE ToggleSweep
  <2>1. config.twoPhase \in BOOLEAN
    BY <1>1 DEF Options
  <2>2. CASE config.driver = "sampling"
    <3>1. /\ twoPhaseBefore' = config.twoPhase
          /\ config' = [config EXCEPT !.driver = Drivers[2], !.twoPhase = FALSE]
      BY <1>4, <2>2 DEF ToggleSweep, Changed
    <3>. QED
      BY <1>1, <1>2, <2>1, <3>1 DEF OptionsOK, Sensible, Options
  <2>3. CASE config.driver # "sampling"
    <3>1. /\ twoPhaseBefore' = twoPhaseBefore
          /\ config' = [config EXCEPT !.driver = "sampling", !.twoPhase = twoPhaseBefore]
      BY <1>4, <2>3 DEF ToggleSweep, Changed
    <3>. QED
      BY <1>1, <1>2, <3>1 DEF OptionsOK, Sensible, Options
  <2>. QED
    BY <2>2, <2>3
<1>5. CASE \E i \in DOMAIN Fields : ActivateField(i)
  <2>1. PICK i \in DOMAIN Fields : ActivateField(i)
    BY <1>5
  <2>2. UNCHANGED twoPhaseBefore
    BY <2>1 DEF ActivateField
  <2>3. CASE IsToggle(Fields[i])
    <3>1. config' = Toggled(Fields[i], config) /\ Fields[i] \in {"twoPhase", "driver"}
      BY <2>1, <2>3 DEF ActivateField, Changed, IsToggle
    <3>2. Sensible(Toggled(Fields[i], config))
      BY <3>1, ToggledFact DEF OptionsOK
    <3>. QED
      BY <1>1, <2>2, <3>1, <3>2 DEF OptionsOK, Sensible, Options
  <2>4. CASE ~IsToggle(Fields[i])
    BY <2>1, <2>4, <1>1 DEF ActivateField, OptionsOK, Sensible, Options
  <2>. QED
    BY <2>3, <2>4
<1>6. CASE \E n \in 1..3 : Preset(n)
  <2>1. PICK n \in 1..3 : Preset(n)
    BY <1>6
  <2> DEFINE b == n = 2
             d == IF n = 2 THEN "sampling" ELSE config.driver
  <2>2. UNCHANGED twoPhaseBefore /\ config' = [config EXCEPT !.twoPhase = b, !.driver = d]
    <3>1. UNCHANGED twoPhaseBefore
          /\ config' = [config EXCEPT !.twoPhase = (n = 2), !.driver = IF n = 2 THEN "sampling" ELSE @]
      BY <2>1 DEF Preset, Changed
    <3>. QED
      BY <1>1, <3>1 DEF Options
  <2>3. b \in BOOLEAN /\ (b => d = "sampling") /\ d \in {Drivers[i] : i \in DOMAIN Drivers}
    BY <1>1, <1>2 DEF Options
  <2> HIDE DEF b, d
  <2>. QED
    BY <1>1, <2>2, <2>3 DEF OptionsOK, Sensible, Options
<1>7. CASE Commit
  <2>1. UNCHANGED twoPhaseBefore
    BY <1>7 DEF Commit
  <2>2. CASE Accepts(Fields[edit])
    <3>1. config' = Applied(Fields[edit]) /\ edit # 0
      BY <1>7, <2>2 DEF Commit, Changed
    <3>2. Sensible(Applied(Fields[edit]))
      BY <2>2, <3>1, AppliedFact
    <3>. QED
      BY <1>1, <2>1, <3>1, <3>2 DEF OptionsOK, Sensible, Options
  <2>3. CASE ~Accepts(Fields[edit])
    BY <1>7, <2>1, <2>3, <1>1 DEF Commit, OptionsOK, Sensible, Options
  <2>. QED
    BY <2>2, <2>3
<1>. QED
  BY <1>3, <1>4, <1>5, <1>6, <1>7, OptionsSplit

LEMMA DraftKept == ASSUME WizardAssumption, OptionsOK, DraftOK, [Next]_vars PROVE DraftOK'
<1>1. /\ config \in Options /\ edit \in 0..8 /\ draft \in [number : Nat, ports : SUBSET Ports]
      /\ row \in Nat /\ checked \in Nat /\ (edit # 0 => ~IsToggle(Fields[edit])) /\ Len(Fields) = 8
      /\ DOMAIN Fields = 1..8 /\ MaxWorkers \in Nat /\ Interfaces \in Nat
  <2>1. Len(Fields) = 8 /\ DOMAIN Fields = 1..8
    BY DEF Fields
  <2>2. MaxWorkers \in Nat /\ Interfaces \in Nat
    BY DEF WizardAssumption
  <2>. QED
    BY <2>1, <2>2 DEF OptionsOK, Sensible, DraftOK
<1>2. ASSUME UNCHANGED editing PROVE DraftOK'
  BY <1>1, <1>2 DEF DraftOK
<1>3. ASSUME Closed PROVE DraftOK'
  BY <1>1, <1>3 DEF DraftOK, Closed, NoDraft
<1>4. ASSUME UNCHANGED <<edit, row, checked>>, draft' \in [number : Nat, ports : SUBSET Ports]
      PROVE  DraftOK'
  BY <1>1, <1>4 DEF DraftOK
<1>5. CASE RangesStep
  BY <1>2, <1>5 DEF RangesStep, MoveCursor, ScrollRanges, ToggleRange, Changed, SelectAll, ToggleSweep,
     OpenAdd, OpenEdit, RemoveRange, OtherKey, SubmitRange, LeaveInput
<1>6. CASE \E d \in Arrow : MoveField(d) \/ ScrollFields(d)
  BY <1>2, <1>6 DEF MoveField, ScrollFields
<1>7. CASE ToggleAdvanced \/ \E n \in 1..3 : Preset(n)
  BY <1>2, <1>7 DEF ToggleAdvanced, Preset, Changed
<1>8. ASSUME NEW i \in DOMAIN Fields, ActivateField(i) PROVE DraftOK'
  <2>1. CASE IsToggle(Fields[i])
    BY <1>2, <1>8, <2>1 DEF ActivateField
  <2>2. CASE ~IsToggle(Fields[i])
    <3> DEFINE n == IF IsNumeric(Fields[i]) THEN config[Fields[i]] ELSE 0
    <3>1. n \in Nat
      <4>1. config.weight \in Nat /\ config.min \in Nat /\ config.max \in Nat
        BY <1>1 DEF Options
      <4>. QED
        BY <4>1 DEF IsNumeric
    <3>2. config.ports \in SUBSET Ports /\ config.interface \in Nat /\ config.fragment \in Nat
      BY <1>1 DEF Options
    <3>3. edit' = i /\ draft' = [number |-> n, ports |-> config.ports]
      BY <1>8, <2>2 DEF ActivateField, Open
    <3>4. row' \in Nat /\ checked' \in Nat
      BY <1>8, <2>2, <3>2 DEF ActivateField, Open
    <3> HIDE DEF n
    <3>5. draft' \in [number : Nat, ports : SUBSET Ports]
      BY <3>1, <3>2, <3>3
    <3>. QED
      BY <1>1, <2>2, <3>3, <3>4, <3>5 DEF DraftOK
  <2>. QED
    BY <2>1, <2>2
<1>9. ASSUME NEW n \in 0..(MaxWorkers + 1), TypeNumber(n) PROVE DraftOK'
  <2>1. n \in Nat
    BY <1>1
  <2>. QED
    BY <1>1, <1>4, <1>9, <2>1 DEF TypeNumber
<1>10. ASSUME NEW d \in Arrow, Nudge(d) PROVE DraftOK'
  <2> DEFINE n == IF d = "up" THEN IF draft.number < MaxWorkers THEN draft.number + 1 ELSE MaxWorkers
                  ELSE IF draft.number > 1 THEN draft.number - 1 ELSE 1
  <2>1. n \in Nat
    BY <1>1
  <2>2. draft' = [draft EXCEPT !.number = n] /\ UNCHANGED <<edit, row, checked>>
    BY <1>1, <1>10 DEF Nudge
  <2> HIDE DEF n
  <2>. QED
    BY <1>1, <1>4, <2>1, <2>2
<1>11. ASSUME NEW S \in SUBSET Ports, PickPorts(S) PROVE DraftOK'
  BY <1>1, <1>4, <1>11 DEF PickPorts
<1>12. ASSUME NEW i \in 0..Interfaces, PickInterface(i) PROVE DraftOK'
  BY <1>1, <1>12 DEF PickInterface, DraftOK
<1>13. CASE PickFragment
  <2>1. row' \in Nat /\ checked' \in Nat
    BY <1>1, <1>13 DEF PickFragment, Custom, Double, Off
  <2>2. UNCHANGED <<edit, draft>>
    BY <1>13 DEF PickFragment
  <2>. QED
    BY <1>1, <2>1, <2>2 DEF DraftOK
<1>14. CASE Commit \/ CancelEdit
  BY <1>2, <1>3, <1>14 DEF Commit, CancelEdit
<1>15. CASE SettingsStep
  BY <1>6, <1>7, <1>8, <1>9, <1>10, <1>11, <1>12, <1>13, <1>14, <1>15 DEF SettingsStep
<1>16. CASE CustomizeScan
  BY <1>3, <1>16 DEF CustomizeScan
<1>17. CASE ~(RangesStep \/ SettingsStep \/ CustomizeScan)
  BY <1>2, <1>17 DEF Next, ChangeStep, ReturnToResults, RefreshPreview, Regenerate, PressStart,
     PreviewDone, StartScan, RerunSelected, vars
<1>. QED
  BY <1>5, <1>15, <1>16, <1>17

(* Where the cursor is.                                                     *)
LEMMA NextFieldFact ==
  ASSUME NEW d \in Arrow, cursor \in DOMAIN Fields
  PROVE  NextField(d) \in DOMAIN Fields
<1>1. DOMAIN Fields = 1..8
  BY DEF Fields
<1> DEFINE R == Reachable(d)
<1>2. R \in SUBSET (1..8)
  BY <1>1 DEF Reachable
<1>3. ASSUME R # {} PROVE \E i \in R : \A j \in R : IF d = "up" THEN j <= i ELSE i <= j
  <2> HIDE DEF R
  <2>1. 1 \in R \/ 2 \in R \/ 3 \in R \/ 4 \in R \/ 5 \in R \/ 6 \in R \/ 7 \in R \/ 8 \in R
    <3>1. PICK r : r \in R
      BY <1>3
    <3>2. r \in Nat /\ 1 <= r /\ r <= 8
      BY <1>2, <3>1
    <3>3. r = 1 \/ r = 2 \/ r = 3 \/ r = 4 \/ r = 5 \/ r = 6 \/ r = 7 \/ r = 8
      BY <3>2
    <3>. QED
      BY <3>1, <3>3
  <2>2. \A j \in R : j = 1 \/ j = 2 \/ j = 3 \/ j = 4 \/ j = 5 \/ j = 6 \/ j = 7 \/ j = 8
    BY <1>2
  <2>3. \E i \in R : \A j \in R : j <= i
    BY <2>1, <2>2, SMTT(30)
  <2>4. \E i \in R : \A j \in R : i <= j
    BY <2>1, <2>2, SMTT(30)
  <2>. QED
    BY <2>3, <2>4
<1>4. R # {} => NextField(d) \in R
  BY <1>3 DEF NextField
<1>. QED
  BY <1>1, <1>2, <1>4 DEF NextField

LEMMA PlaceKept == ASSUME PlaceOK, [Next]_vars PROVE PlaceOK'
<1>1. DOMAIN Fields = 1..8 /\ Len(Fields) = 8
  BY DEF Fields
<1>2. ASSUME UNCHANGED <<step, cursor>> PROVE PlaceOK'
  BY <1>2 DEF PlaceOK
<1>3. CASE RangesStep
  <2>1. step # "settings" /\ UNCHANGED step
    BY <1>3 DEF RangesStep, OnRanges, Typing, MoveCursor, ScrollRanges, ToggleRange, SelectAll, ToggleSweep,
     OpenAdd, OpenEdit, RemoveRange, OtherKey, SubmitRange, LeaveInput
  <2>. QED
    BY <2>1 DEF PlaceOK
<1>4. CASE SettingsStep
  <2>1. step = "settings" /\ cursor \in 1..8
    BY <1>1, <1>4 DEF PlaceOK, SettingsStep, Browsing, Editing, OnSettings, MoveField, ScrollFields, Nudge,
       ToggleAdvanced, ActivateField, Preset, TypeNumber, PickPorts, PickInterface, PickFragment, Commit,
       CancelEdit
  <2>2. ASSUME NEW d \in Arrow, MoveField(d) \/ ScrollFields(d) PROVE cursor' \in 1..8
    BY <1>1, <2>1, <2>2, NextFieldFact DEF MoveField, ScrollFields, Moves
  <2>3. ASSUME ToggleAdvanced PROVE cursor' \in 1..8
    BY <2>1, <2>3 DEF ToggleAdvanced
  <2>4. ASSUME NEW i \in DOMAIN Fields, ActivateField(i) PROVE cursor' \in 1..8
    BY <1>1, <2>4 DEF ActivateField
  <2>5. ASSUME NEW d \in Arrow, Nudge(d) PROVE UNCHANGED <<step, cursor>>
    BY <2>5 DEF Nudge
  <2>6. ASSUME NEW n \in 0..(MaxWorkers + 1), TypeNumber(n) PROVE UNCHANGED <<step, cursor>>
    BY <2>6 DEF TypeNumber
  <2>7. ASSUME NEW n \in 1..3, Preset(n) PROVE UNCHANGED <<step, cursor>>
    BY <2>7 DEF Preset
  <2>8. ASSUME NEW S \in SUBSET Ports, PickPorts(S) PROVE UNCHANGED <<step, cursor>>
    BY <2>8 DEF PickPorts
  <2>9. ASSUME NEW i \in 0..Interfaces, PickInterface(i) PROVE UNCHANGED <<step, cursor>>
    BY <2>9 DEF PickInterface
  <2>10. ASSUME PickFragment \/ CancelEdit PROVE UNCHANGED <<step, cursor>>
    BY <2>10 DEF PickFragment, CancelEdit
  <2>11. ASSUME Commit PROVE UNCHANGED <<step, cursor>>
    BY <2>11 DEF Commit
  <2>12. cursor' \in 1..8 \/ UNCHANGED <<step, cursor>>
    BY <1>4, <2>2, <2>3, <2>4, <2>5, <2>6, <2>7, <2>8, <2>9, <2>10, <2>11, Zenon DEF SettingsStep
  <2>. QED
    BY <1>1, <1>2, <2>12 DEF PlaceOK
<1>5. CASE (\E s \in {"ranges", "settings", "review"} : ChangeStep(s)) \/ CustomizeScan
  BY <1>1, <1>5 DEF ChangeStep, CustomizeScan, PlaceOK
<1>6. CASE ~(RangesStep \/ SettingsStep \/ (\E s \in {"ranges", "settings", "review"} : ChangeStep(s))
             \/ CustomizeScan)
  BY <1>2, <1>6 DEF Next, ReturnToResults, RefreshPreview, Regenerate, PressStart, PreviewDone, StartScan,
     RerunSelected, vars
<1>. QED
  BY <1>3, <1>4, <1>5, <1>6

(* The list of ranges: an edited range is one of the user's, and no range    *)
(* is listed twice.                                                          *)
ListOK == EditedOK /\ Distinct(cidrs)

LEMMA ListFrame ==
  ASSUME ListOK, UNCHANGED cidrs, UNCHANGED <<input, editIndex>> \/ (input' # "edit" /\ editIndex' = 0)
  PROVE  ListOK'
BY DEF ListOK, EditedOK, Distinct

(* A change of what is listed that names every range as before.              *)
LEMMA ListSame ==
  ASSUME ListOK, cidrs \in Seq(Entry), cidrs' \in Seq(Entry), Len(cidrs') = Len(cidrs),
         \A i \in DOMAIN cidrs : cidrs'[i].cidr = cidrs[i].cidr /\ cidrs'[i].custom = cidrs[i].custom,
         UNCHANGED <<input, editIndex>> \/ (input' # "edit" /\ editIndex' = 0)
  PROVE  ListOK'
<1>1. DOMAIN cidrs = DOMAIN cidrs'
  <2>1. DOMAIN cidrs = 1..Len(cidrs) /\ DOMAIN cidrs' = 1..Len(cidrs')
    OBVIOUS
  <2>. QED
    BY <2>1
<1>. QED
  BY <1>1 DEF ListOK, EditedOK, Distinct

LEMMA SubmitLists == ASSUME WizardAssumption, Pending, ListOK, NEW s \in Typed, SubmitRange(s) PROVE ListOK'
<1>1. /\ s \in STRING /\ input' = "none" /\ editIndex' = 0 /\ cidrs \in Seq(Entry) /\ Len(cidrs) \in Nat
      /\ DOMAIN cidrs = 1..Len(cidrs)
  BY DEF SubmitRange, WizardAssumption, Pending
<1>2. EditedOK'
  BY <1>1 DEF EditedOK
<1>3. CASE input = "edit"
  <2>1. cidrs' = [cidrs EXCEPT ![editIndex].cidr = s] /\ \A i \in DOMAIN cidrs : cidrs[i].cidr # s
    BY <1>3 DEF SubmitRange, Changed, Names
  <2>2. \A i \in DOMAIN cidrs : cidrs[i] \in Entry
    BY <1>1
  <2>3. DOMAIN cidrs' = DOMAIN cidrs
    BY <2>1
  <2>4. \A i \in DOMAIN cidrs : cidrs'[i].cidr = IF i = editIndex THEN s ELSE cidrs[i].cidr
    BY <2>1, <2>2 DEF Entry
  <2>. QED
    BY <1>2, <2>1, <2>3, <2>4 DEF ListOK, Distinct
<1>4. CASE input # "edit" /\ s \in Names(cidrs)
  <2>1. PICK i \in DOMAIN cidrs : cidrs' = [cidrs EXCEPT ![i].selected = TRUE]
    <3> DEFINE i == CHOOSE j \in DOMAIN cidrs : cidrs[j].cidr = s
    <3>1. i \in DOMAIN cidrs
      BY <1>4 DEF Names
    <3>2. cidrs' = [cidrs EXCEPT ![i].selected = TRUE]
      BY <1>4 DEF SubmitRange, Changed
    <3>. QED
      BY <3>1, <3>2
  <2>. QED
    BY <1>1, <2>1, FlipFact, ListSame
<1>5. CASE input # "edit" /\ s \notin Names(cidrs)
  <2> DEFINE e == [cidr |-> s, selected |-> TRUE, custom |-> TRUE]
  <2>1. cidrs' = Append(cidrs, e) /\ e.cidr = s /\ \A i \in DOMAIN cidrs : cidrs[i].cidr # s
    BY <1>5 DEF SubmitRange, Changed, Names
  <2> HIDE DEF e
  <2>2. /\ DOMAIN cidrs' = 1..(Len(cidrs) + 1) /\ cidrs'[Len(cidrs) + 1] = e
        /\ \A i \in DOMAIN cidrs : cidrs'[i] = cidrs[i]
    BY <1>1, <2>1
  <2>. QED
    BY <1>1, <1>2, <2>1, <2>2 DEF ListOK, Distinct
<1>. QED
  BY <1>3, <1>4, <1>5

LEMMA RemoveLists == ASSUME Pending, ListOK, RemoveRange PROVE ListOK'
<1>1. /\ cidrs \in Seq(Entry) /\ Len(cidrs) \in Nat /\ DOMAIN cidrs = 1..Len(cidrs)
      /\ input # "edit" /\ UNCHANGED <<input, editIndex>>
  BY DEF RemoveRange, OnRanges, Pending
<1>2. CASE UNCHANGED cidrs
  BY <1>1, <1>2, ListFrame
<1>3. CASE Listed /\ cidrs' = RemoveAt(cidrs, cursor)
  <2>1. cursor \in 1..Len(cidrs)
    BY <1>1, <1>3 DEF Listed
  <2>2. /\ DOMAIN cidrs' = 1..(Len(cidrs) - 1)
        /\ \A i \in DOMAIN cidrs' : cidrs'[i] = IF i < cursor THEN cidrs[i] ELSE cidrs[i + 1]
    <3> DEFINE a == SubSeq(cidrs, 1, cursor - 1)
               b == SubSeq(cidrs, cursor + 1, Len(cidrs))
    <3>1. a \in Seq(Entry) /\ Len(a) = cursor - 1 /\ \A i \in 1..(cursor - 1) : a[i] = cidrs[i]
      BY <1>1, <2>1
    <3>2. b \in Seq(Entry) /\ Len(b) = Len(cidrs) - cursor /\ \A i \in 1..(Len(cidrs) - cursor) : b[i] = cidrs[cursor + i]
      <4>1. cursor + 1 \in Int /\ Len(cidrs) \in Int /\ \A i \in (cursor + 1)..Len(cidrs) : cidrs[i] \in Entry
        BY <1>1, <2>1
      <4>2. /\ b \in Seq(Entry)
            /\ Len(b) = IF cursor + 1 <= Len(cidrs) THEN Len(cidrs) - (cursor + 1) + 1 ELSE 0
            /\ \A i \in 1..(Len(cidrs) - (cursor + 1) + 1) : b[i] = cidrs[(cursor + 1) + i - 1]
        BY <4>1, SubSeqProperties
      <4> HIDE DEF b
      <4> DEFINE n == Len(cidrs)
                 m == Len(b)
      <4>3. m = n - cursor
        <5>1. n \in Nat /\ cursor \in Nat /\ cursor <= n
          BY <1>1, <2>1
        <5>2. m = IF cursor + 1 <= n THEN n - (cursor + 1) + 1 ELSE 0
          BY <4>2
        <5> HIDE DEF n, m
        <5>. QED
          BY <5>1, <5>2
      <4>4. ASSUME NEW i \in 1..(Len(cidrs) - cursor) PROVE b[i] = cidrs[cursor + i]
        <5>1. i \in 1..(Len(cidrs) - (cursor + 1) + 1) /\ (cursor + 1) + i - 1 = cursor + i
          BY <1>1, <2>1
        <5>2. b[i] = cidrs[(cursor + 1) + i - 1]
          BY <4>2, <5>1
        <5>. QED
          BY <5>1, <5>2
      <4>. QED
        BY <4>2, <4>3, <4>4
    <3>3. cidrs' = a \o b
      BY <1>3 DEF RemoveAt
    <3> HIDE DEF a, b
    <3>4. Len(cidrs') = Len(cidrs) - 1 /\ DOMAIN cidrs' = 1..Len(cidrs')
      <4>1. a \o b \in Seq(Entry) /\ Len(a \o b) = Len(a) + Len(b)
        BY <3>1, <3>2
      <4>2. DOMAIN (a \o b) = 1..Len(a \o b)
        BY <4>1
      <4>3. Len(a) + Len(b) = Len(cidrs) - 1
        BY <1>1, <2>1, <3>1, <3>2
      <4>. QED
        BY <3>3, <4>1, <4>2, <4>3
    <3>5. ASSUME NEW i \in 1..(Len(cidrs) - 1) PROVE cidrs'[i] = IF i < cursor THEN cidrs[i] ELSE cidrs[i + 1]
      <4>1. CASE i < cursor
        BY <1>1, <2>1, <3>1, <3>2, <3>3, <4>1
      <4>2. CASE ~(i < cursor)
        <5>1. cidrs'[i] = b[i - (cursor - 1)] /\ i - (cursor - 1) \in 1..(Len(cidrs) - cursor)
          BY <1>1, <2>1, <3>1, <3>2, <3>3, <4>2
        <5>2. cursor + (i - (cursor - 1)) = i + 1
          BY <1>1, <2>1
        <5>. QED
          BY <3>2, <4>2, <5>1, <5>2
      <4>. QED
        BY <4>1, <4>2
    <3>. QED
      BY <3>4, <3>5
  <2>3. Distinct(cidrs)'
    <3>1. SUFFICES ASSUME NEW i \in 1..(Len(cidrs) - 1), NEW j \in 1..(Len(cidrs) - 1),
                          cidrs'[i].cidr = cidrs'[j].cidr
                   PROVE  i = j
      BY <2>2 DEF Distinct
    <3> DEFINE at(k) == IF k < cursor THEN k ELSE k + 1
    <3>2. cidrs'[i] = cidrs[at(i)] /\ cidrs'[j] = cidrs[at(j)]
      BY <2>2
    <3>3. at(i) \in 1..Len(cidrs) /\ at(j) \in 1..Len(cidrs)
      BY <1>1, <2>1
    <3>4. at(i) = at(j)
      BY <1>1, <3>1, <3>2, <3>3 DEF ListOK, Distinct
    <3>. QED
      BY <1>1, <2>1, <3>4
  <2>4. EditedOK'
    BY <1>1 DEF ListOK, EditedOK
  <2>. QED
    BY <2>3, <2>4 DEF ListOK
<1>. QED
  BY <1>2, <1>3 DEF RemoveRange, Changed

LEMMA ListKept == ASSUME WizardAssumption, Pending, ListOK, [Next]_vars PROVE ListOK'
<1>1. CASE RangesStep
  <2>1. ASSUME NEW d \in Arrow, MoveCursor(d) \/ ScrollRanges(d) PROVE ListOK'
    BY <2>1, ListFrame DEF MoveCursor, ScrollRanges
  <2>2. ASSUME NEW i \in DOMAIN cidrs, ToggleRange(i) PROVE ListOK'
    <3> DEFINE on == ~cidrs[i].selected
    <3>1. /\ cidrs' = [cidrs EXCEPT ![i].selected = on] /\ on \in BOOLEAN
          /\ UNCHANGED <<input, editIndex>>
      BY <2>2 DEF ToggleRange, Changed, Flip
    <3> HIDE DEF on
    <3>. QED
      BY <3>1, FlipFact, ListSame DEF Pending
  <2>3. ASSUME NEW on \in BOOLEAN, SelectAll(on) PROVE ListOK'
    BY <2>3, AllFact, ListSame DEF SelectAll, Changed, Pending
  <2>4. ASSUME ToggleSweep PROVE ListOK'
    BY <2>4, ListFrame DEF ToggleSweep, Changed
  <2>5. ASSUME OpenAdd \/ OtherKey \/ LeaveInput PROVE ListOK'
    BY <2>5, ListFrame DEF OpenAdd, OtherKey, LeaveInput
  <2>6. ASSUME OpenEdit PROVE ListOK'
    <3>1. CASE Listed /\ Here.custom
      <4>1. UNCHANGED cidrs /\ editIndex' = cursor /\ input' = "edit" /\ cursor \in DOMAIN cidrs
            /\ cidrs[cursor].custom
        BY <2>6, <3>1 DEF OpenEdit, Listed, Here
      <4>. QED
        BY <4>1 DEF ListOK, EditedOK, Distinct
    <3>2. CASE ~(Listed /\ Here.custom)
      <4>1. UNCHANGED <<cidrs, input, editIndex>>
        BY <2>6, <3>2 DEF OpenEdit
      <4>. QED
        BY <4>1, ListFrame
    <3>. QED
      BY <3>1, <3>2
  <2>7. ASSUME RemoveRange PROVE ListOK'
    BY <2>7, RemoveLists
  <2>8. ASSUME NEW s \in Typed, SubmitRange(s) PROVE ListOK'
    BY <2>8, SubmitLists
  <2>. QED
    BY <1>1, <2>1, <2>2, <2>3, <2>4, <2>5, <2>6, <2>7, <2>8, Zenon DEF RangesStep
<1>2. CASE SettingsStep
  <2>1. UNCHANGED <<cidrs, input, editIndex>>
    BY <1>2 DEF SettingsStep, MoveField, ScrollFields, Nudge, ToggleAdvanced, ActivateField, Changed,
       Preset, TypeNumber, PickPorts, PickInterface, PickFragment, Commit, CancelEdit
  <2>. QED
    BY <2>1, ListFrame
<1>3. CASE ~(RangesStep \/ SettingsStep)
  <2>1. UNCHANGED <<cidrs, input, editIndex>>
    BY <1>3 DEF Next, ChangeStep, ReturnToResults, RefreshPreview, Regenerate, PressStart,
       PreviewDone, StartScan, RerunSelected, CustomizeScan, vars
  <2>. QED
    BY <2>1, ListFrame
<1>. QED
  BY <1>1, <1>2, <1>3

(* Every change saves what it leaves behind.                                 *)
LEMMA SavedKept == ASSUME SavedOK, [Next]_vars PROVE SavedOK'
<1>1. ASSUME UNCHANGED <<saved, config, cidrs>> PROVE SavedOK'
  BY <1>1 DEF SavedOK, Staged, Selected
<1>2. ASSUME NEW c, NEW cs, Changed(c, cs) PROVE SavedOK'
  <2>1. config' = c /\ cidrs' = cs /\ saved' = Staged(c, cs)
    BY <1>2 DEF Changed, Save
  <2>. QED
    BY <2>1 DEF SavedOK, Staged, Selected
<1>3. CASE RangesStep
  <2>1. \/ \E c, cs : Changed(c, cs)
        \/ UNCHANGED <<saved, config, cidrs>>
    BY <1>3, Zenon DEF RangesStep, MoveCursor, ScrollRanges, ToggleRange, SelectAll, ToggleSweep,
       OpenAdd, OpenEdit, RemoveRange, OtherKey, SubmitRange, LeaveInput
  <2>. QED
    BY <1>1, <1>2, <2>1
<1>4. CASE SettingsStep
  <2>1. \/ \E c, cs : Changed(c, cs)
        \/ UNCHANGED <<saved, config, cidrs>>
    BY <1>4, Zenon DEF SettingsStep, MoveField, ScrollFields, Nudge, ToggleAdvanced, ActivateField,
       Preset, TypeNumber, PickPorts, PickInterface, PickFragment, Commit, CancelEdit
  <2>. QED
    BY <1>1, <1>2, <2>1
<1>5. CASE ~(RangesStep \/ SettingsStep)
  BY <1>1, <1>5 DEF Next, ChangeStep, ReturnToResults, RefreshPreview, Regenerate, PressStart,
     PreviewDone, StartScan, RerunSelected, CustomizeScan, vars
<1>. QED
  BY <1>3, <1>4, <1>5

LEMMA InitSound == Init => Sound
<1> SUFFICES ASSUME Init PROVE Sound
  OBVIOUS
<1>1. DOMAIN Fields = 1..8 /\ Len(Fields) = 8
  BY DEF Fields
<1>2. OptionsOK
  <2>1. PICK two \in BOOLEAN :
          /\ config = [ports |-> Ports, interface |-> 0, fragment |-> Off, weight |-> 1,
                       twoPhase |-> two, driver |-> Drivers[1], min |-> 1, max |-> MaxWorkers]
          /\ twoPhaseBefore = two
    BY DEF Init
  <2>2. /\ Ports # {} /\ MaxWorkers \in Nat /\ MaxWorkers >= 1 /\ Drivers[1] = "sampling"
        /\ "sampling" \in {Drivers[i] : i \in DOMAIN Drivers}
    BY WizardAssumption, DriversFact DEF WizardAssumption
  <2>. QED
    BY <2>1, <2>2 DEF OptionsOK, Sensible, Options, Off
<1>3. DraftOK /\ PlaceOK /\ EditedOK /\ SavedOK
  <2>1. DraftOK
    <3>1. NoDraft \in [number : Nat, ports : SUBSET Ports] /\ 0 \in 0..Len(Fields)
      BY <1>1 DEF NoDraft
    <3>2. edit = 0 /\ draft = NoDraft /\ row = 0 /\ checked = 0
      BY DEF Init
    <3>. QED
      BY <3>1, <3>2 DEF DraftOK
  <2>2. PlaceOK /\ EditedOK
    BY DEF Init, PlaceOK, EditedOK
  <2>3. SavedOK
    BY DEF Init, SavedOK
  <2>. QED
    BY <2>1, <2>2, <2>3
<1>4. Distinct(cidrs)
  <2> DEFINE given(i) == [cidr |-> BuiltIn[i], selected |-> TRUE, custom |-> FALSE]
             added(i) == [cidr |-> Own[i], selected |-> TRUE, custom |-> TRUE]
             a == [i \in DOMAIN BuiltIn |-> given(i)]
             b == [i \in DOMAIN Own |-> added(i)]
             names == BuiltIn \o Own
  <2>1. BuiltIn \in Seq(STRING) /\ Own \in Seq(STRING)
    BY WizardAssumption DEF WizardAssumption
  <2>2. cidrs = a \o b
    BY DEF Init
  <2>3. (\A i \in DOMAIN BuiltIn : given(i) \in Entry /\ given(i).cidr = BuiltIn[i])
        /\ (\A i \in DOMAIN Own : added(i) \in Entry /\ added(i).cidr = Own[i])
    BY <2>1 DEF Entry
  <2> HIDE DEF given, added
  <2>4. /\ a \in Seq(Entry) /\ Len(a) = Len(BuiltIn) /\ \A i \in DOMAIN BuiltIn : a[i].cidr = BuiltIn[i]
        /\ b \in Seq(Entry) /\ Len(b) = Len(Own) /\ \A i \in DOMAIN Own : b[i].cidr = Own[i]
    BY <2>1, <2>3
  <2> HIDE DEF a, b
  <2>5. DOMAIN cidrs = DOMAIN names /\ \A i \in DOMAIN cidrs : cidrs[i].cidr = names[i]
    <3>1. /\ DOMAIN cidrs = 1..(Len(a) + Len(b)) /\ DOMAIN names = 1..(Len(BuiltIn) + Len(Own))
          /\ Len(BuiltIn) \in Nat /\ Len(Own) \in Nat
          /\ DOMAIN BuiltIn = 1..Len(BuiltIn) /\ DOMAIN Own = 1..Len(Own)
      BY <2>1, <2>2, <2>4
    <3>2. ASSUME NEW i \in 1..(Len(a) + Len(b)) PROVE cidrs[i].cidr = names[i]
      <4>1. CASE i <= Len(a)
        <5>1. cidrs[i] = a[i] /\ names[i] = BuiltIn[i] /\ i \in DOMAIN BuiltIn
          BY <2>1, <2>2, <2>4, <3>1, <4>1
        <5>. QED
          BY <2>4, <5>1
      <4>2. CASE i > Len(a)
        <5>1. cidrs[i] = b[i - Len(a)] /\ names[i] = Own[i - Len(a)] /\ i - Len(a) \in DOMAIN Own
          BY <2>1, <2>2, <2>4, <3>1, <4>2
        <5>. QED
          BY <2>4, <5>1
      <4>. QED
        BY <2>4, <3>1, <4>1, <4>2
    <3>. QED
      BY <2>4, <3>1, <3>2
  <2>6. \A i, j \in DOMAIN names : names[i] = names[j] => i = j
    BY WizardAssumption DEF WizardAssumption
  <2> HIDE DEF names
  <2>. QED
    BY <2>5, <2>6 DEF Distinct
<1>. QED
  BY <1>2, <1>3, <1>4 DEF Sound

(* Distinct ranges are as many as the list is long.                          *)
LEMMA NamesFact ==
  ASSUME NEW cs \in Seq(Entry), Distinct(cs)
  PROVE  Cardinality(Names(cs)) = Len(cs)
<1> DEFINE n == Len(cs)
           f == [i \in 1..n |-> cs[i].cidr]
<1>1. n \in Nat /\ DOMAIN cs = 1..n
  OBVIOUS
<1>2. f \in [1..n -> Names(cs)]
  BY <1>1 DEF Names
<1>3. \A i, j \in 1..n : f[i] = f[j] => i = j
  BY <1>1 DEF Distinct
<1>4. \A c \in Names(cs) : \E i \in 1..n : f[i] = c
  BY <1>1 DEF Names
<1> HIDE DEF n, f
<1>5. f \in Bijection(1..n, Names(cs))
  BY <1>2, <1>3, <1>4 DEF Bijection, Injection, Surjection, IsInjective
<1>6. ExistsBijection(1..n, Names(cs))
  BY <1>5 DEF ExistsBijection
<1>7. Cardinality(Names(cs)) = n
  BY <1>1, <1>6, FS_CountingElements
<1>. QED
  BY <1>7 DEF n

(* Whatever mix of keys, clicks, presets and toggles: the settings are valid *)
(* and strategies exclusive, indices stay within their lists, no range is    *)
(* listed twice, and the file says what the screen does (tui/wizard.rs,      *)
(* commit_edit, SettingField::toggle; tui/mod.rs, staged_config).            *)
THEOREM SettingsSoundHolds == Spec => []SettingsSound
<1>1. Pending /\ Sound /\ [Next]_vars => Sound'
  BY OptionsKept, DraftKept, PlaceKept, ListKept, SavedKept, WizardAssumption DEF Sound, ListOK
<1>2. Pending /\ Sound => SettingsSound
  BY NamesFact DEF Sound, OptionsOK, Sensible, PlaceOK, EditedOK, SavedOK, Pending, SettingsSound
<1>3. Kept => Pending'
  BY DEF Kept
<1>. QED
  BY <1>1, <1>2, <1>3, InitKeeps, InitSound, StepKeeps, PTL DEF Spec
=============================================================================
