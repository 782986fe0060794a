----------------------------- MODULE SourceControls -----------------------------
(***************************************************************************)
(* What the graphical user interface changes of the sources that are       *)
(* selected: by keys, and in the dialog QSourceProperties, which shows the *)
(* source that was clicked last and is updated by a timer.                 *)
(*                                                                         *)
(* The dialog's boxes emit toggled() for each change of theirs, also for   *)
(* one that the update of the dialog makes; the slot then asks for a value *)
(* that nobody has chosen.  Sources do not come and go here (that is       *)
(* UserInterface), and a request is done at once (Publication has its      *)
(* steps); other clients make requests at any time.  The model of a source *)
(* is left out: the box that shows it emits nothing when it is updated.    *)
(***************************************************************************)
EXTENDS Integers, FiniteSets

CONSTANT SourceIds   \* bound: sources in the Scene

ASSUME SourceIdsAssumption == SourceIds \subseteq Nat

VARIABLES
  members,     \* of each source, in the Scene: fixed and mute
  marked,      \* the selected sources, and the last one that was clicked
  boxes,       \* of the dialog: fixed and mute are checked
  updating,    \* where update_displays() is, and its copy of the source
  toggling,    \* what a key does: to which member of which sources, and what was read
  asked,       \* history: what was asked for last, by anybody
  overtaken    \* history: members asked for since update_displays() copied the source

control_vars == <<members, marked, boxes, updating, toggling, asked, overtaken>>

Members == {"fixed", "mute"}
NewMembers == [m \in Members |-> FALSE]
NotUpdating == [at |-> "none", fixed |-> FALSE, mute |-> FALSE]
NotToggling == [member |-> "none", todo |-> {}, id |-> 0, value |-> FALSE]

ControlsInit ==
  /\ members = [id \in SourceIds |-> NewMembers]
  /\ marked = [ids |-> {}, last |-> 0]
  /\ boxes = NewMembers
  /\ updating = NotUpdating
  /\ toggling = NotToggling
  /\ asked = members
  /\ overtaken = {}

\* The GUI thread is in no handler.
Idle == updating.at = "none" /\ toggling.member = "none"

\* A request, by anybody; the value is what the one who asks has chosen.
Request(id, member, value) ==
  /\ members' = [members EXCEPT ![id][member] = value]
  /\ asked' = [asked EXCEPT ![id][member] = value]
  /\ overtaken' = overtaken \ {<<id, member>>}

\* Of another client, at any time.
OtherRequest ==
  \E id \in SourceIds, flag \in BOOLEAN, member \in Members :
    /\ members' = [members EXCEPT ![id][member] = flag]
    /\ asked' = [asked EXCEPT ![id][member] = flag]
    /\ overtaken' = IF updating.at # "none" /\ id = marked.last
                    THEN overtaken \cup {<<id, member>>} ELSE overtaken \ {<<id, member>>}
    /\ UNCHANGED <<marked, boxes, updating, toggling>>

\* Any of UserInterface's selections.
Mark ==
  /\ Idle
  /\ \E ids \in SUBSET SourceIds, last \in SourceIds :
       /\ ids # {} => last \in ids
       /\ marked' = [ids |-> ids, last |-> last]
  /\ UNCHANGED <<members, boxes, updating, toggling, asked, overtaken>>

------------------------------------------------------------------------------
(* QSourceProperties                                                       *)

\* _update_screen(), with the dialog shown: get_source() returns a copy.
Update ==
  /\ Idle
  /\ marked.last \in SourceIds
  /\ updating' = [at |-> "fixed", fixed |-> members[marked.last].fixed,
                  mute |-> members[marked.last].mute]
  /\ UNCHANGED <<members, marked, boxes, toggling, asked, overtaken>>

\* Mutant: the slot changes all sources that are selected, not the one shown.
Mutant_Shown == marked.ids

\* _set_source_mute() and _set_source_position_fixed() change the source that was
\* clicked last.
Shown == {marked.last}

Written(m, flag) ==
  [id \in SourceIds |-> IF id \in Shown THEN [members[id] EXCEPT ![m] = flag] ELSE members[id]]

\* setChecked(): if that is a change, the slot is called.
setChecked(m, flag) ==
  /\ boxes' = [boxes EXCEPT ![m] = flag]
  /\ members' = IF boxes[m] = flag THEN members ELSE Written(m, flag)

UpdateFixed ==
  /\ updating.at = "fixed"
  /\ setChecked("fixed", updating.fixed)
  /\ updating' = [updating EXCEPT !.at = "mute"]
  /\ UNCHANGED <<marked, toggling, asked, overtaken>>

UpdateMute ==
  /\ updating.at = "mute"
  /\ setChecked("mute", updating.mute)
  /\ updating' = NotUpdating
  /\ UNCHANGED <<marked, toggling, asked, overtaken>>

\* The user clicks on a box, and has asked for what it shows then.
ClickBox(member) ==
  /\ Idle
  /\ marked.last \in SourceIds
  /\ setChecked(member, ~ boxes[member])
  /\ asked' = [asked EXCEPT ![marked.last][member] = ~ boxes[member]]
  /\ overtaken' = overtaken \ {<<marked.last, member>>}
  /\ UNCHANGED <<marked, updating, toggling>>

------------------------------------------------------------------------------
(* Keys: F and M toggle something of each selected source; it is read,     *)
(* then the opposite is written                                            *)

ToggleKey ==
  /\ Idle
  /\ marked.ids # {}
  /\ \E member \in Members :
       toggling' = [NotToggling EXCEPT !.member = member, !.todo = marked.ids]
  /\ UNCHANGED <<members, marked, boxes, updating, asked, overtaken>>

ReadMember ==
  /\ toggling.member \in Members /\ toggling.id = 0
  /\ LET id == CHOOSE i \in toggling.todo : \A j \in toggling.todo : i <= j
     IN  toggling' = [toggling EXCEPT !.id = id, !.value = members[id][toggling.member]]
  /\ UNCHANGED <<members, marked, boxes, updating, asked, overtaken>>

\* What is left to do, after id.
Continued(id) ==
  IF toggling.todo = {id} THEN NotToggling
  ELSE [toggling EXCEPT !.todo = @ \ {id}, !.id = 0, !.value = FALSE]

WriteOpposite ==
  /\ toggling.member \in Members /\ toggling.id # 0
  /\ Request(toggling.id, toggling.member, ~ toggling.value)
  /\ toggling' = Continued(toggling.id)
  /\ UNCHANGED <<marked, boxes, updating>>

\* S: the selected sources are heard and all others are not, or, with none selected,
\* all are heard.  One source after the other.
SoloKey ==
  /\ Idle
  /\ toggling' = [NotToggling EXCEPT !.member = "solo", !.todo = SourceIds]
  /\ UNCHANGED <<members, marked, boxes, updating, asked, overtaken>>

Soloed(id) == marked.ids = {} \/ id \in marked.ids

\* The selected ones first.
Solo ==
  /\ toggling.member = "solo"
  /\ \E id \in toggling.todo :
       /\ (\E i \in toggling.todo : i \in marked.ids) => id \in marked.ids
       /\ Request(id, "mute", ~ Soloed(id))
       /\ toggling' = Continued(id)
  /\ UNCHANGED <<marked, boxes, updating>>

ControlsNext ==
  \/ OtherRequest \/ Mark
  \/ Update \/ UpdateFixed \/ UpdateMute
  \/ (\E member \in Members : ClickBox(member))
  \/ ToggleKey \/ ReadMember \/ WriteOpposite \/ SoloKey \/ Solo

ControlsSpec == ControlsInit /\ [][ControlsNext]_control_vars

------------------------------------------------------------------------------

\* What was asked for last stands: the dialog, which asks for something whenever a
\* box changes (connect(_muted_check_box, SIGNAL(toggled(bool)))), also when another
\* source is shown or another client has changed this one, asks for nothing new.
\* Only while the dialog is updated with a copy of the source can it undo another
\* client's request.
RequestStands ==
  \A id \in SourceIds : \A m \in Members :
    members[id][m] = asked[id][m] \/ <<id, m>> \in overtaken
==============================================================================
