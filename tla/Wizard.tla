------------------------------- MODULE Wizard -------------------------------
(***************************************************************************)
(* The settings wizard (tui/wizard.rs and the mouse and preview parts of   *)
(* tui/mod.rs): ranges, settings and review, edited by keys and by mouse,  *)
(* saved to disk at every change, with a preview of the targets drawn by a *)
(* thread of its own.  One field stands for each way of editing; a draft   *)
(* typed character by character is one step.                               *)
(***************************************************************************)
EXTENDS Naturals, SequencesExt

CONSTANTS
  BuiltIn, Own, \* sequences: the ranges that come with the program, and the user's as saved
  Typed,        \* ranges the user may type: valid, new or already listed
  Drivers,      \* sequence of discovery drivers, "sampling" first
  Ports,        \* CLOUDFLARE_HTTPS_PORTS
  Interfaces,   \* rows of the interface picker below Auto
  MaxWorkers,   \* MAX_CONCURRENCY
  MaxChanges    \* bound: changes of the configuration and of the ranges

ASSUME WizardAssumption ==
  /\ {BuiltIn, Own} \subseteq Seq(STRING) /\ Typed \subseteq STRING
  \* what the program saves names no range twice, and none of its own (App::new)
  /\ \A i, j \in DOMAIN (BuiltIn \o Own) : (BuiltIn \o Own)[i] = (BuiltIn \o Own)[j] => i = j
  /\ Drivers \in Seq(STRING) /\ Drivers[1] = "sampling" /\ Len(Drivers) >= 2
  /\ Ports # {} /\ {MaxWorkers, MaxChanges, Interfaces} \subseteq Nat /\ MaxWorkers >= 1

VARIABLES
  screen, step, returnToResults,
  cidrs,          \* cidr_candidates
  cursor,         \* of the step that is shown, from 1
  input,          \* "none", "add" or "edit": custom_input_mode
  editIndex,      \* cidr_edit_index, 0 for None
  pendingDelete,  \* pending_cidr_delete, 0 for None
  config, floor,  \* the options, and runtime_min_concurrency shared with the scans
  twoPhaseBefore, \* two_phase_before_sweep
  showAdvanced,
  edit,           \* edit_field, 0 for None
  draft,          \* edit_buffer: a number, a set of ports
  row, checked,   \* cursor and checked row of the pickers
  saved,          \* the configuration file
  preview, job, previewFailed,  \* what the preview and its thread are drawn from
  pendingStart,
  changes,
  asked           \* the range of the last "Press x again to remove" (history)

where   == <<screen, step, returnToResults, cursor>>
ranges  == <<cidrs, input, editIndex, pendingDelete, asked>>
options == <<config, floor, twoPhaseBefore, showAdvanced>>
editing == <<edit, draft, row, checked>>
draws   == <<preview, job, previewFailed>>
vars    == <<where, ranges, options, editing, saved, draws, pendingStart, changes>>

\* one field for each way of editing
Fields == <<"ports", "interface", "fragment", "weight", "twoPhase", "driver", "min", "max">>
IsAdvanced(f) == f = "weight"
IsToggle(f) == f \in {"twoPhase", "driver"}
IsNumeric(f) == f \in {"weight", "min", "max"}

\* rows of the fragment picker: a profile the scan can use, a double-fragment
\* profile only the tester can, and the custom text below them
Off == 0
Profile == 1
Double == 2
Custom == 3

NoDraft == [number |-> 0, ports |-> {}]

-----------------------------------------------------------------------------
(* What every change does.                                                 *)

Selected(cs) == {cs[i].cidr : i \in {j \in DOMAIN cs : cs[j].selected}}
Names(cs) == {cs[i].cidr : i \in DOMAIN cs}

\* staged_config
Staged(c, cs) == [config |-> c, selected |-> Selected(cs),
                  custom |-> {cs[i].cidr : i \in {j \in DOMAIN cs : cs[j].custom}}]

\* save_config writes what is shown
Save_Earlier(c, cs) == saved' = Staged(config, cs)
Save(c, cs) == saved' = Staged(c, cs)

\* invalidate_preview forgets what was drawn; a drawing under way goes on and
\* no longer is of the options shown
Outdated(d) == IF d = "current" THEN "old" ELSE d
Invalidate == preview' = "none" /\ previewFailed' = FALSE /\ job' = Outdated(job)

Changed(c, cs) ==
  /\ changes < MaxChanges /\ changes' = changes + 1
  /\ config' = c /\ cidrs' = cs
  /\ Invalidate /\ Save(c, cs)

-----------------------------------------------------------------------------
(* The ranges step.                                                        *)

\* what Start asked for is done before the next key is read
Awake == ~pendingStart

OnRanges == Awake /\ screen = "wizard" /\ step = "ranges" /\ input = "none"
Here == cidrs[cursor]
Listed == cursor \in DOMAIN cidrs

Moves(n, d) == IF d = "up" THEN IF cursor > 1 THEN cursor - 1 ELSE cursor
               ELSE IF cursor < n THEN cursor + 1 ELSE cursor

MoveCursor(d) ==
  /\ OnRanges /\ cursor' = Moves(Len(cidrs), d) /\ pendingDelete' = 0
  /\ UNCHANGED <<screen, step, returnToResults, cidrs, input, editIndex, asked, options, editing,
                 saved, draws, pendingStart, changes>>

\* the wheel leaves a pending removal alone, as a click does
ScrollRanges(d) ==
  /\ OnRanges /\ cursor' = Moves(Len(cidrs), d)
  /\ UNCHANGED <<screen, step, returnToResults, ranges, options, editing, saved, draws, pendingStart,
                 changes>>

Flip(cs, i) == [cs EXCEPT ![i].selected = ~@]

ToggleRange(i) ==
  /\ OnRanges /\ i \in DOMAIN cidrs
  /\ Changed(config, Flip(cidrs, i)) /\ cursor' = i
  /\ UNCHANGED <<screen, step, returnToResults, input, editIndex, pendingDelete, asked, floor,
                 twoPhaseBefore, showAdvanced, editing, pendingStart>>

SelectAll(on) ==
  /\ OnRanges
  /\ Changed(config, [i \in DOMAIN cidrs |-> [cidrs[i] EXCEPT !.selected = on]])
  /\ UNCHANGED <<where, input, editIndex, pendingDelete, asked, floor, twoPhaseBefore,
                 showAdvanced, editing, pendingStart>>

\* a sweep replaces the two-phase pass, whose choice comes back with sampling
ToggleSweep ==
  /\ OnRanges
  /\ IF config.driver = "sampling"
     THEN /\ twoPhaseBefore' = config.twoPhase
          /\ Changed([config EXCEPT !.driver = Drivers[2], !.twoPhase = FALSE], cidrs)
     ELSE /\ Changed([config EXCEPT !.driver = "sampling", !.twoPhase = twoPhaseBefore], cidrs)
          /\ UNCHANGED twoPhaseBefore
  /\ UNCHANGED <<where, input, editIndex, pendingDelete, asked, floor, showAdvanced, editing,
                 pendingStart>>

OpenAdd ==
  /\ OnRanges /\ input' = "add" /\ editIndex' = 0 /\ pendingDelete' = 0
  /\ UNCHANGED <<where, cidrs, asked, options, editing, saved, draws, pendingStart, changes>>

AfterOpenEdit_Kept(p) == p
AfterOpenEdit(p) == 0

OpenEdit ==
  /\ OnRanges /\ pendingDelete' = AfterOpenEdit(pendingDelete)
  /\ IF Listed /\ Here.custom THEN input' = "edit" /\ editIndex' = cursor
                              ELSE UNCHANGED <<input, editIndex>>
  /\ UNCHANGED <<where, cidrs, asked, options, editing, saved, draws, pendingStart, changes>>

\* x on a custom range asks first and removes it the second time
RemoveRange ==
  /\ OnRanges
  /\ IF Listed /\ Here.custom
     THEN IF pendingDelete = cursor
          THEN /\ pendingDelete' = 0 /\ UNCHANGED asked
               /\ Changed(config, RemoveAt(cidrs, cursor))
               /\ cursor' = IF cursor < Len(cidrs) \/ cursor = 1 THEN cursor ELSE cursor - 1
          ELSE /\ pendingDelete' = cursor /\ asked' = Here.cidr
               /\ UNCHANGED <<cidrs, config, saved, draws, changes, cursor>>
     ELSE pendingDelete' = 0 /\ UNCHANGED <<asked, cidrs, config, saved, draws, changes, cursor>>
  /\ UNCHANGED <<screen, step, returnToResults, input, editIndex, floor, twoPhaseBefore,
                 showAdvanced, editing, pendingStart>>

OtherKey ==
  /\ OnRanges /\ pendingDelete # 0 /\ pendingDelete' = 0
  /\ UNCHANGED <<where, cidrs, input, editIndex, asked, options, editing, saved, draws,
                 pendingStart, changes>>

Typing == Awake /\ screen = "wizard" /\ step = "ranges" /\ input # "none"

\* Enter: a range that is listed is selected, another one added; an edited one
\* must not become one that is listed
SubmitRange(s) ==
  /\ Typing /\ s \in Typed
  /\ IF input = "edit"
     THEN /\ s \notin Names(cidrs)
          /\ Changed(config, [cidrs EXCEPT ![editIndex].cidr = s]) /\ cursor' = editIndex
     ELSE IF s \in Names(cidrs)
     THEN LET i == CHOOSE j \in DOMAIN cidrs : cidrs[j].cidr = s
          IN Changed(config, [cidrs EXCEPT ![i].selected = TRUE]) /\ cursor' = i
     ELSE /\ Changed(config, Append(cidrs, [cidr |-> s, selected |-> TRUE, custom |-> TRUE]))
          /\ cursor' = Len(cidrs) + 1
  /\ input' = "none" /\ editIndex' = 0
  /\ UNCHANGED <<screen, step, returnToResults, pendingDelete, asked, floor, twoPhaseBefore,
                 showAdvanced, editing, pendingStart>>

\* Esc, an empty range and an edit that changes nothing
LeaveInput ==
  /\ Typing /\ input' = "none" /\ editIndex' = 0
  /\ UNCHANGED <<where, cidrs, pendingDelete, asked, options, editing, saved, draws,
                 pendingStart, changes>>

-----------------------------------------------------------------------------
(* The settings step.                                                      *)

OnSettings == Awake /\ screen = "wizard" /\ step = "settings"
Browsing == OnSettings /\ edit = 0
Field == Fields[cursor]
Visible(i) == showAdvanced \/ ~IsAdvanced(Fields[i])

\* previous_visible_setting, next_visible_setting
Reachable(d) == {i \in DOMAIN Fields : Visible(i) /\ IF d = "up" THEN i < cursor ELSE i > cursor}
NextField(d) ==
  IF Reachable(d) = {} THEN cursor
  ELSE CHOOSE i \in Reachable(d) : \A j \in Reachable(d) : IF d = "up" THEN j <= i ELSE i <= j

MoveField(d) ==
  /\ Browsing /\ cursor' = NextField(d)
  /\ UNCHANGED <<screen, step, returnToResults, ranges, options, editing, saved, draws,
                 pendingStart, changes>>

\* the wheel also stops at settings that are not shown
ScrollFields(d) ==
  /\ Browsing /\ cursor' = Moves(Len(Fields), d)
  /\ UNCHANGED <<screen, step, returnToResults, ranges, options, editing, saved, draws,
                 pendingStart, changes>>

ToggleAdvanced ==
  /\ Browsing /\ showAdvanced' = ~showAdvanced
  /\ cursor' = IF showAdvanced /\ IsAdvanced(Field) THEN 1 ELSE cursor
  /\ UNCHANGED <<screen, step, returnToResults, ranges, config, floor, twoPhaseBefore, editing,
                 saved, draws, pendingStart, changes>>

Cycled(d) == LET i == CHOOSE j \in DOMAIN Drivers : Drivers[j] = d
             IN Drivers[(i % Len(Drivers)) + 1]

\* SettingField::toggle: the two strategies exclude each other
Toggled(f, c) ==
  IF f = "twoPhase"
  THEN [c EXCEPT !.twoPhase = ~@, !.driver = IF c.twoPhase THEN @ ELSE "sampling"]
  ELSE LET d == Cycled(c.driver)
       IN [c EXCEPT !.driver = d, !.twoPhase = @ /\ d = "sampling"]

\* start_edit fills the draft with the value, the pickers with the row of it
Open(i) ==
  LET f == Fields[i]
  IN /\ edit' = i
     /\ draft' = [number |-> IF IsNumeric(f) THEN config[f] ELSE 0, ports |-> config.ports]
     /\ row' = IF f = "interface" THEN config.interface ELSE IF f = "fragment" THEN config.fragment ELSE 0
     /\ checked' = IF f = "fragment" THEN config.fragment ELSE 0

ActivateField(i) ==
  /\ Browsing /\ i \in DOMAIN Fields /\ cursor' = i
  /\ IF IsToggle(Fields[i])
     THEN Changed(Toggled(Fields[i], config), cidrs) /\ UNCHANGED editing
     ELSE Open(i) /\ UNCHANGED <<config, cidrs, saved, draws, changes>>
  /\ UNCHANGED <<screen, step, returnToResults, input, editIndex, pendingDelete, asked, floor,
                 twoPhaseBefore, showAdvanced, pendingStart>>

\* presets 1 and 3 sample without phases and keep the driver, 2 has two phases
Preset(n) ==
  /\ Browsing
  /\ Changed([config EXCEPT !.twoPhase = (n = 2), !.driver = IF n = 2 THEN "sampling" ELSE @], cidrs)
  /\ UNCHANGED <<where, input, editIndex, pendingDelete, asked, floor, twoPhaseBefore,
                 showAdvanced, editing, pendingStart>>

Editing(f) == OnSettings /\ edit # 0 /\ Fields[edit] = f

\* the text as typed: a weight is any number, a worker count may be out of range
TypeNumber(n) ==
  /\ Editing("min") \/ Editing("max") \/ (Editing("weight") /\ n \in {0, 1})
  /\ draft' = [draft EXCEPT !.number = n]
  /\ UNCHANGED <<where, ranges, options, edit, row, checked, saved, draws, pendingStart, changes>>

\* nudged_value
Nudge(d) ==
  /\ Editing("min") \/ Editing("max")
  /\ draft' = [draft EXCEPT !.number = IF d = "up" THEN IF @ < MaxWorkers THEN @ + 1 ELSE MaxWorkers
                                       ELSE IF @ > 1 THEN @ - 1 ELSE 1]
  /\ UNCHANGED <<where, ranges, options, edit, row, checked, saved, draws, pendingStart, changes>>

\* Space and a click toggle one port, a and n all of them
PickPorts(S) ==
  /\ Editing("ports")
  /\ \/ S \in {Ports, {}}
     \/ \E p \in Ports : S = IF p \in draft.ports THEN draft.ports \ {p} ELSE draft.ports \cup {p}
  /\ draft' = [draft EXCEPT !.ports = S]
  /\ UNCHANGED <<where, ranges, options, edit, row, checked, saved, draws, pendingStart, changes>>

PickInterface(i) ==
  /\ Editing("interface") /\ i \in {row - 1, row + 1} \cap (0..Interfaces)
  /\ row' = i
  /\ UNCHANGED <<where, ranges, options, edit, draft, checked, saved, draws, pendingStart, changes>>

\* arrows move, Space checks; the custom row opens the text, which Up leaves
PickFragment ==
  /\ Editing("fragment")
  /\ IF checked = Custom
     THEN \/ row' = Double /\ checked' = Double
          \/ row' = Custom /\ checked' = Double
     ELSE \/ row' \in {row - 1, row + 1} \cap (0..Custom) /\ UNCHANGED checked
          \/ checked' = (IF checked = row THEN Off ELSE row) /\ UNCHANGED row
          \/ row = Custom /\ checked' = Custom /\ UNCHANGED row
  /\ UNCHANGED <<where, ranges, options, edit, draft, saved, draws, pendingStart, changes>>

\* SettingField::apply with the checks of commit_edit
InBounds(n) == n \in 1..MaxWorkers
Accepts(f) ==
  CASE f = "ports"  -> draft.ports # {}
    [] f = "weight" -> TRUE
    [] f = "min" -> InBounds(draft.number) /\ draft.number <= config.max
    [] f = "max" -> InBounds(draft.number) /\ config.min <= draft.number
    [] f = "interface" -> TRUE
    [] f = "fragment" -> checked # Double
Applied(f) ==
  CASE f = "ports"     -> [config EXCEPT !.ports = draft.ports]
    [] IsNumeric(f)    -> [config EXCEPT ![f] = draft.number]
    [] f = "interface" -> [config EXCEPT !.interface = row]
    [] f = "fragment"  -> [config EXCEPT !.fragment = checked]

\* what the draft and the pickers hold is not read before start_edit sets it
Closed == edit' = 0 /\ draft' = NoDraft /\ row' = 0 /\ checked' = 0

\* apply stores a minimum that is in range before the maximum is consulted
Stored(f) == IF f = "min" /\ InBounds(draft.number) THEN draft.number ELSE floor

Commit ==
  /\ OnSettings /\ edit # 0
  /\ LET f == Fields[edit]
     IN /\ floor' = Stored(f)
        /\ IF Accepts(f) THEN Closed /\ Changed(Applied(f), cidrs)
                         ELSE UNCHANGED <<editing, config, cidrs, saved, draws, changes>>
  /\ UNCHANGED <<where, input, editIndex, pendingDelete, asked, twoPhaseBefore, showAdvanced,
                 pendingStart>>

CancelEdit ==
  /\ OnSettings /\ edit # 0 /\ Closed
  /\ UNCHANGED <<where, ranges, options, saved, draws, pendingStart, changes>>

-----------------------------------------------------------------------------
(* Between the steps.                                                      *)

\* c, Right, Enter and the buttons.  A click on a button commits the edit
\* first: one that is refused stops it, but of a double-fragment profile
\* commit_edit says that it was committed and leaves it open, in whatever step.
Leavable == edit = 0 \/ (edit # 0 /\ Fields[edit] = "fragment" /\ checked = Double)
Adjacent == {<<"ranges", "settings">>, <<"settings", "review">>,
             <<"review", "settings">>, <<"settings", "ranges">>}
ChangeStep(s) ==
  /\ Awake /\ screen = "wizard" /\ input = "none" /\ <<step, s>> \in Adjacent
  /\ Leavable
  /\ step' = s /\ cursor' = 1
  /\ UNCHANGED <<screen, returnToResults, ranges, options, editing, saved, draws, pendingStart,
                 changes>>

ReturnToResults ==
  /\ Awake /\ screen = "wizard" /\ returnToResults /\ input = "none" /\ Leavable
  /\ screen' = "scanning" /\ returnToResults' = FALSE
  /\ UNCHANGED <<step, cursor, ranges, options, editing, saved, draws, pendingStart, changes>>

-----------------------------------------------------------------------------
(* The review step, the preview and the start of a scan.                   *)

OnReview == Awake /\ screen = "wizard" /\ step = "review"

\* the event loop draws a preview as soon as the review shows none
RefreshPreview ==
  /\ OnReview /\ preview = "none" /\ job = "none" /\ ~previewFailed
  /\ job' = "current"
  /\ UNCHANGED <<where, ranges, options, editing, saved, preview, previewFailed, pendingStart,
                 changes>>

\* poll_preview installs what the thread has drawn; no range selected is an error
PreviewDone(ok) ==
  /\ Awake /\ job # "none" /\ job' = "none"
  /\ job = "current" => ok = (Selected(cidrs) # {})
  /\ IF ok THEN preview' = job /\ previewFailed' = FALSE
           ELSE previewFailed' = TRUE /\ UNCHANGED preview
  /\ UNCHANGED <<where, ranges, options, editing, saved, pendingStart, changes>>

\* s draws again at once, from a new seed that is not saved
Regenerate ==
  /\ OnReview /\ previewFailed' = (Selected(cidrs) = {})
  /\ preview' = IF previewFailed' THEN preview ELSE "current"
  /\ UNCHANGED <<where, ranges, options, editing, saved, job, pendingStart, changes>>

PressStart ==
  /\ OnReview /\ pendingStart' = TRUE
  /\ UNCHANGED <<where, ranges, options, editing, saved, draws, changes>>

\* start_wizard_scan, at the end of the pass of the event loop
StartScan ==
  /\ pendingStart /\ pendingStart' = FALSE
  /\ LET sweep == config.driver # "sampling"
         given == IF preview = "none" THEN "current" ELSE preview
     IN IF Selected(cidrs) = {} \/ (job # "none" /\ ~sweep)
        THEN UNCHANGED <<where, draws>>
        ELSE /\ preview' = IF sweep THEN "none" ELSE given
             /\ previewFailed' = FALSE /\ UNCHANGED job
             /\ screen' = "scanning" /\ returnToResults' = FALSE /\ UNCHANGED <<step, cursor>>
  /\ UNCHANGED <<ranges, options, editing, saved, changes>>

\* R scans some of the last targets again, which become the preview
RerunSelected ==
  /\ Awake /\ screen = "scanning" /\ preview' = "old" /\ previewFailed' = FALSE
  /\ UNCHANGED <<where, ranges, options, editing, saved, job, pendingStart, changes>>

\* enter_customization
CustomizeScan ==
  /\ Awake /\ screen = "scanning" /\ screen' = "wizard" /\ step' = "settings" /\ cursor' = 1
  /\ returnToResults' = TRUE /\ Closed
  /\ UNCHANGED <<ranges, options, saved, draws, pendingStart, changes>>

-----------------------------------------------------------------------------
Init ==
  /\ screen = "wizard" /\ step = "ranges" /\ returnToResults = FALSE /\ cursor = 1
  /\ cidrs = [i \in DOMAIN BuiltIn |-> [cidr |-> BuiltIn[i], selected |-> TRUE, custom |-> FALSE]]
             \o [i \in DOMAIN Own |-> [cidr |-> Own[i], selected |-> TRUE, custom |-> TRUE]]
  /\ input = "none" /\ editIndex = 0 /\ pendingDelete = 0 /\ asked = ""
  \* bound: the saved configuration samples; other drivers are one change away
  /\ \E two \in BOOLEAN :
       /\ config = [ports |-> Ports, interface |-> 0, fragment |-> Off, weight |-> 1,
                    twoPhase |-> two, driver |-> Drivers[1], min |-> 1, max |-> MaxWorkers]
       /\ twoPhaseBefore = two
  /\ floor = 1 /\ showAdvanced = FALSE
  /\ edit = 0 /\ draft = NoDraft /\ row = 0 /\ checked = 0
  /\ saved = Staged(config, cidrs)
  /\ preview = "none" /\ job = "none" /\ previewFailed = FALSE
  /\ pendingStart = FALSE /\ changes = 0

Arrow == {"up", "down"}

RangesStep ==
  \/ \E d \in Arrow : MoveCursor(d) \/ ScrollRanges(d)
  \/ \E i \in DOMAIN cidrs : ToggleRange(i)
  \/ \E on \in BOOLEAN : SelectAll(on)
  \/ ToggleSweep \/ OpenAdd \/ OpenEdit \/ RemoveRange \/ OtherKey
  \/ \E s \in Typed : SubmitRange(s)
  \/ LeaveInput

SettingsStep ==
  \/ \E d \in Arrow : MoveField(d) \/ ScrollFields(d) \/ Nudge(d)
  \/ ToggleAdvanced
  \/ \E i \in DOMAIN Fields : ActivateField(i)
  \/ \E n \in 1..3 : Preset(n)
  \/ \E n \in 0..(MaxWorkers + 1) : TypeNumber(n)
  \/ \E S \in SUBSET Ports : PickPorts(S)
  \/ \E i \in 0..Interfaces : PickInterface(i)
  \/ PickFragment \/ Commit \/ CancelEdit

Next ==
  \/ RangesStep \/ SettingsStep
  \/ \E s \in {"ranges", "settings", "review"} : ChangeStep(s)
  \/ ReturnToResults \/ RefreshPreview \/ Regenerate \/ PressStart
  \/ \E ok \in BOOLEAN : PreviewDone(ok)
  \/ StartScan \/ RerunSelected \/ CustomizeScan

Spec == Init /\ [][Next]_vars

-----------------------------------------------------------------------------
(* Properties.                                                             *)

\* Whatever sequence of keys, clicks, presets and toggles: the options make
\* sense together (commit_edit, toggle, the sweep key), no index points beyond
\* its list, which would panic (SettingField::ALL[cursor],
\* cidr_candidates[idx]), and only a range of the user can be under edit.  And
\* what is shown is what the next start of the program reads: no way of
\* changing an option or a range forgets to save (staged_config: "no stale
\* write can ever drop a CIDR").
SettingsSound ==
  /\ config.min <= config.max /\ config.ports # {}
  /\ config.twoPhase => config.driver = "sampling"
  /\ step = "settings" => cursor \in DOMAIN Fields
  /\ editIndex # 0 => editIndex \in DOMAIN cidrs /\ cidrs[editIndex].custom
  /\ Cardinality(Names(cidrs)) = Len(cidrs)
  /\ saved = Staged(config, cidrs)

\* A range is removed only if it is the user's and the one that the message
\* "Press x again to remove" named, although the pending removal is kept as an
\* index while the list changes.
RemovalConfirmed ==
  [][Len(cidrs') < Len(cidrs) =>
       \E i \in DOMAIN cidrs : /\ cidrs' = RemoveAt(cidrs, i) /\ cidrs[i].custom
                               /\ cidrs[i].cidr = asked]_vars

\* A scan that samples probes targets drawn from the ranges and options on the
\* screen (README.md:486: the review shows "the random seed and exact
\* deduplicated target count").
StartsWhatIsSelected ==
  [][pendingStart /\ screen' = "scanning" /\ config.driver = "sampling" => preview # "old"]_vars

\* The live minimum the scheduler reads is the minimum that was set.
FloorFollows == floor = config.min
=============================================================================
