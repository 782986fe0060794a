------------------------------ MODULE UserInterface ------------------------------
(***************************************************************************)
(* Which sources are selected in ssr::QUserInterface (and its base class,  *)
(* QOpenGLPlotter), and what its event handlers do with them.  The handlers *)
(* run in the GUI thread, one at a time, and look everything up in the      *)
(* Scene, which other threads change at any time, in a handler as well.    *)
(*                                                                         *)
(* A source is shown at an index, its place in the Scene; it is changed by *)
(* its ID.  The selection maps one to the other, as they were when it was  *)
(* made.  Positions are left out: any source may be hit by the mouse.      *)
(***************************************************************************)
EXTENDS Integers, FiniteSets, Sequences, SequencesExt

CONSTANTS MaxId,         \* bound: sources are not added beyond this ID
          Loudspeakers   \* does the renderer have any?

ASSUME MaxIdAssumption == MaxId \in Nat
ASSUME LoudspeakersAssumption == Loudspeakers \in BOOLEAN

VARIABLES
  sources,       \* IDs of the sources of the Scene
  _highest_id,
  selection,     \* _selected_sources_map, _id_of_last_clicked_source (last)
                 \* and _reference_selected
  keys,          \* _ctrl_pressed, _alt_pressed: those that are held down
  button,        \* the mouse button that is held down
  handle,        \* _volume_slider_selected, _direction_handle_selected, or "none"
  band,          \* the rubber band has two different corners
  dialog,        \* _source_properties is visible
  handler,       \* how far mousePressEvent() is, and its local variables
  fate,          \* "fine", or where the GUI has used a source that is not there
  disturbed      \* history: the IDs are not 1, 2, ... or were given anew

vars == <<sources, _highest_id, selection, keys, button, handle, band, dialog,
          handler, fate, disturbed>>
scene == <<sources, _highest_id, disturbed>>
mouse == <<button, handle, band, handler>>

Empty == [index \in {} |-> 0]
NoHandler == [at |-> "none", object |-> 0, lastlast |-> 0, button |-> "none"]

Init ==
  /\ sources = {} /\ _highest_id = 0
  /\ selection = [map |-> Empty, last |-> 0, reference |-> FALSE]
  /\ keys = {}
  /\ button = "none" /\ handle = "none" /\ band = FALSE
  /\ dialog = FALSE
  /\ handler = NoHandler
  /\ fate = "fine"
  /\ disturbed = FALSE

ctrl == "ctrl" \in keys
alt == "alt" \in keys

------------------------------------------------------------------------------
(* The scene: what get_sources() returns, and what other threads do to it  *)

size == Cardinality(sources)

\* In the order of their IDs: the nth is the one with n IDs up to its own.
list == [n \in 1 .. size |-> CHOOSE id \in sources : Cardinality({j \in sources : j <= id}) = n]

new_source ==
  /\ _highest_id < MaxId
  /\ _highest_id' = _highest_id + 1
  /\ sources' = sources \cup {_highest_id'}
  /\ UNCHANGED <<selection, keys, mouse, dialog, fate, disturbed>>

\* An ID is used up by a source that cannot be made, too.
new_source_fails ==
  /\ _highest_id < MaxId
  /\ _highest_id' = _highest_id + 1
  /\ disturbed' = TRUE
  /\ UNCHANGED <<sources, selection, keys, mouse, dialog, fate>>

delete_source(id) ==
  /\ id \in sources
  /\ sources' = sources \ {id}
  /\ disturbed' = TRUE
  /\ UNCHANGED <<_highest_id, selection, keys, mouse, dialog, fate>>

\* load_scene(): all sources are removed, then n others get IDs from 1 on.
Loaded(n) == sources' = 1 .. n /\ _highest_id' = n

load_scene(n) ==
  /\ Loaded(n)
  /\ disturbed' = TRUE
  /\ UNCHANGED <<selection, keys, mouse, dialog, fate>>

------------------------------------------------------------------------------
(* QOpenGLPlotter: the selection                                           *)

_deselect_all_sources(s) == [s EXCEPT !.map = Empty, !.last = 0]

\* Mutant: the last selected source can be deselected, too.
Mutant__deselect_source(s, source) ==
  [s EXCEPT !.map = [i \in DOMAIN s.map \ {source} |-> s.map[i]]]

\* At least one source stays selected; the last one clicked is now the first.
_deselect_source(s, source) ==
  IF Cardinality(DOMAIN s.map) <= 1 THEN s
  ELSE LET rest == [i \in DOMAIN s.map \ {source} |-> s.map[i]]
           first == CHOOSE i \in DOMAIN rest : \A j \in DOMAIN rest : i <= j
       IN  [s EXCEPT !.map = rest, !.last = rest[first]]

WithSource(s, source) ==
  [s EXCEPT !.map = [i \in DOMAIN s.map \cup {source} |->
                       IF i = source THEN list[i] ELSE s.map[i]],
            !.last = list[source]]

\* Index 0 is the listener.  Its place is looked up in a map that has just been
\* cleared: the end of the map reads as an ID 0 (its number of elements is there).
_select_source(s, source, add_to_selection) ==
  LET kept == IF add_to_selection /\ source > 0 THEN s
              ELSE IF add_to_selection THEN [s EXCEPT !.map = Empty]
              ELSE _deselect_all_sources(s)
      t == [kept EXCEPT !.reference = (source = 0)]
  IN  CASE source > 0 /\ source \notin DOMAIN t.map ->
             IF source > size THEN t ELSE WithSource(t, source)
        [] ~ (source > 0 /\ source \notin DOMAIN t.map) /\ ~ alt ->
             [t EXCEPT !.last = IF source > 0 THEN t.map[source] ELSE 0]
        [] OTHER -> _deselect_source(t, source)

_select_all_sources(s) ==
  [s EXCEPT !.map = list, !.last = IF list = <<>> THEN 0 ELSE Last(list)]

\* The nth source is drawn; those with an index in B lie within the rubber band.
Banded(s, n, B) ==
  IF n \in B
  THEN IF ctrl /\ alt THEN _deselect_source(s, n) ELSE _select_source(s, n, TRUE)
  ELSE IF ctrl THEN s ELSE _deselect_source(s, n)

_draw_rubber_band(s, B) ==
  LET drawn[n \in 0 .. size] == IF n = 0 THEN s ELSE Banded(drawn[n - 1], n, B)
  IN  drawn[size]

\* Mutant: one step too far.
Mutant_MayDraw(s) == s.last < size

\* _draw_objects() takes the ID of the last source clicked for an index; beyond the
\* end of the list of sources anything may happen.
MayDraw(s) == s.last <= size

\* paintGL(), with the selection s before and t after it.
paintGL(s, t) ==
  \/ ~ band /\ t = s
  \/ band /\ \E B \in SUBSET (1 .. size) : t = _draw_rubber_band(s, B)

Draw ==
  /\ handler.at = "none"
  /\ \E t \in {selection} \cup { _draw_rubber_band(selection, B) : B \in SUBSET (1 .. size) } :
       paintGL(selection, t) /\ selection' = t
  /\ \/ fate' = fate
     \/ ~ MayDraw(selection) /\ fate' = "drawn"
  /\ UNCHANGED <<scene, keys, mouse, dialog>>

------------------------------------------------------------------------------
(* The name stack: what is under the mouse, as a number                    *)

REFERENCEINDEX1 == 2
NAMESTACKOFFSET == 6
NAMESTACKSTEP == 5

Name(index, kind) == NAMESTACKOFFSET + index * NAMESTACKSTEP + kind
Kind(object) == (object - NAMESTACKOFFSET) % NAMESTACKSTEP
Index(object) == (object - NAMESTACKOFFSET) \div NAMESTACKSTEP

\* Nothing, the background, the listener, its handle and the logo; sources with their
\* volume slider (2) and direction handle (3); the loudspeakers.
Objects ==
  (0 .. 4) \cup { Name(n, kind) : n \in 1 .. size, kind \in 1 .. 3 }
           \cup (IF Loudspeakers THEN {Name(size, 4)} ELSE {})

------------------------------------------------------------------------------
(* QUserInterface: the mouse                                               *)

\* mousePressEvent() draws everything once to find what is under the mouse.
_find_selected_object ==
  /\ handler.at = "none" /\ button = "none"
  /\ \E b \in {"left", "right"}, object \in Objects :
       LET s == [selection EXCEPT !.reference = FALSE]
       IN  /\ \E t \in {s} \cup { _draw_rubber_band(s, B) : B \in SUBSET (1 .. size) } :
                paintGL(s, t) /\ selection' = t
           /\ button' = b
           /\ band' = (band /\ b # "right")
           /\ handler' = [at |-> "found", object |-> object,
                          lastlast |-> selection.last, button |-> b]
  /\ handle' = "none"
  /\ \/ fate' = fate
     \/ ~ MayDraw(selection) /\ fate' = "drawn"
  /\ UNCHANGED <<scene, keys, dialog>>

\* No source is under the mouse.
PressBackground ==
  /\ handler.at = "found" /\ handler.object <= NAMESTACKOFFSET
  /\ LET s == IF handler.object = REFERENCEINDEX1 /\ ~ ctrl
              THEN _select_source(selection, 0, FALSE) ELSE selection
     IN  selection' = IF handler.button = "left" THEN _deselect_all_sources(s) ELSE s
  /\ dialog' = FALSE
  /\ handler' = NoHandler
  /\ UNCHANGED <<scene, keys, button, handle, band, fate>>

PressLoudspeaker ==
  /\ handler.at = "found" /\ handler.object > NAMESTACKOFFSET
  /\ Kind(handler.object) = 4 /\ ~ ctrl
  /\ dialog' = FALSE
  /\ selection' = _deselect_all_sources(selection)
  /\ handler' = NoHandler
  /\ UNCHANGED <<scene, keys, button, handle, band, fate>>

\* With the control key a loudspeaker is taken for the last source.
PressSource ==
  /\ handler.at = "found" /\ handler.object > NAMESTACKOFFSET
  /\ ~ (Kind(handler.object) = 4 /\ ~ ctrl)
  /\ handle' = CASE handler.button = "left" /\ Kind(handler.object) = 2 -> "volume"
                 [] handler.button = "left" /\ Kind(handler.object) = 3 -> "direction"
                 [] OTHER -> "none"
  /\ selection' = _select_source(selection, Index(handler.object), ctrl)
  /\ handler' = [handler EXCEPT !.at = "selected"]
  /\ UNCHANGED <<scene, keys, button, band, dialog, fate>>

\* The rest of mousePressEvent(): the position of the source is taken as it is, there
\* is none if the source has been removed.
PressLocate ==
  /\ handler.at = "selected"
  /\ handler' = NoHandler
  /\ \/ /\ selection.last \notin sources
        /\ fate' = "pressed"
        /\ UNCHANGED dialog
     \/ /\ selection.last \in sources
        /\ fate' = fate
        /\ dialog' = IF handler.button = "right" /\ Kind(handler.object) = 1
                     THEN ~ (dialog /\ selection.last = handler.lastlast) ELSE dialog
  /\ UNCHANGED <<scene, selection, keys, button, handle, band>>

\* mouseMoveEvent(): the selected sources are moved, or rotated, from the place of the
\* last one clicked; a source that was removed has no place.  Everything else needs
\* none.  With the right button the rubber band gets wider.
Dragged ==
  CASE selection.map # Empty /\ handle = "none" ->
         {selection.last} \cup { selection.map[i] : i \in DOMAIN selection.map }
    [] ~ (selection.map # Empty /\ handle = "none") /\ handle = "direction" ->
         {selection.last}
    [] OTHER -> {}

mouseMoveEvent ==
  /\ handler.at = "none" /\ button # "none"
  /\ band' = (band \/ (button = "right" /\ ~ selection.reference))
  /\ fate' = IF button = "left" /\ ~ (Dragged \subseteq sources) THEN "moved" ELSE fate
  /\ UNCHANGED <<scene, selection, keys, button, handle, dialog, handler>>

mouseReleaseEvent ==
  /\ handler.at = "none" /\ button # "none"
  /\ button' = "none"
  /\ band' = (band /\ button # "right")
  /\ UNCHANGED <<scene, selection, keys, handle, dialog, handler, fate>>

mouseDoubleClickEvent ==
  /\ handler.at = "none" /\ dialog
  /\ dialog' = FALSE
  /\ UNCHANGED <<scene, selection, keys, mouse, fate>>

------------------------------------------------------------------------------
(* Keys, the dialog with a source's properties, the timer and the menu     *)

PressModifier(k) ==
  /\ handler.at = "none" /\ k \notin keys
  /\ keys' = keys \cup {k}
  /\ UNCHANGED <<scene, selection, mouse, dialog, fate>>

keyReleaseEvent(k) ==
  /\ handler.at = "none" /\ k \in keys
  /\ keys' = keys \ {k}
  /\ UNCHANGED <<scene, selection, mouse, dialog, fate>>

\* The keys that select: digits, and control A.
keyPressEvent ==
  /\ handler.at = "none"
  /\ \/ selection' = _deselect_all_sources(selection)
     \/ \E n \in 1 .. MaxId : selection' = _select_source(selection, n, ctrl)
     \/ ctrl /\ selection' = _select_all_sources(selection)
  /\ UNCHANGED <<scene, keys, mouse, dialog, fate>>

\* The model is chosen in the dialog: the source is turned towards the reference,
\* from its position.
_set_source_model ==
  /\ handler.at = "none" /\ dialog
  /\ selection.last \notin sources
  /\ fate' = "model"
  /\ UNCHANGED <<scene, selection, keys, mouse, dialog>>

\* The timer moves the dialog to the source it belongs to.
_update_screen ==
  /\ handler.at = "none" /\ dialog
  /\ selection.last # 0 /\ selection.last \notin sources
  /\ fate' = "updated"
  /\ UNCHANGED <<scene, selection, keys, mouse, dialog>>

\* Mutant: nothing is deselected.
Mutant__load_scene(n) ==
  /\ handler.at = "none"
  /\ Loaded(n)
  /\ disturbed' = FALSE
  /\ UNCHANGED <<selection, keys, mouse, dialog, fate>>

\* A scene is chosen by the user; its IDs start again.
_load_scene(n) ==
  /\ handler.at = "none"
  /\ selection' = _deselect_all_sources(selection)
  /\ Loaded(n)
  /\ disturbed' = FALSE
  /\ UNCHANGED <<keys, mouse, dialog, fate>>

Next ==
  /\ fate = "fine"
  /\ \/ new_source \/ new_source_fails
     \/ \E id \in sources : delete_source(id)
     \/ \E n \in 0 .. MaxId : load_scene(n) \/ _load_scene(n)
     \/ Draw
     \/ _find_selected_object \/ PressBackground \/ PressLoudspeaker
     \/ PressSource \/ PressLocate
     \/ mouseMoveEvent \/ mouseReleaseEvent \/ mouseDoubleClickEvent
     \/ \E k \in {"ctrl", "alt"} : PressModifier(k) \/ keyReleaseEvent(k)
     \/ keyPressEvent
     \/ _set_source_model \/ _update_screen

Spec == Init /\ [][Next]_vars

------------------------------------------------------------------------------
(* Properties                                                              *)

Selected == { selection.map[i] : i \in DOMAIN selection.map }

\* "id_of_last_clicked_source has a valid value" (qopenglplotter.cpp:1073): it is one
\* of the selected sources, or 0 if there are none, in every order of keys, clicks and
\* rubber bands.  (Both modifiers and a click on a loudspeaker when all sources were
\* removed clear the selection and keep the ID.)
LastIsSelected ==
  IF selection.map = Empty THEN disturbed \/ selection.last = 0
  ELSE selection.last \in Selected

\* The sources that are shown as selected are those that the next operation changes,
\* as long as the list of sources has only grown since the scene was loaded.
ShownAreChanged ==
  ~ disturbed =>
    /\ DOMAIN selection.map \subseteq 1 .. size
    /\ { list[i] : i \in DOMAIN selection.map } = Selected

\* The handlers rely on sources that are there.  One is missing only if it was removed
\* (or could not be made), or none is selected while a handler counts on one: in the
\* dialog, at a direction handle, or at a loudspeaker of an empty scene.
MissingOnlyIfDisturbed == fate # "fine" => disturbed \/ selection.last = 0
==============================================================================
