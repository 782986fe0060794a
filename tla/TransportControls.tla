---------------------------- MODULE TransportControls ----------------------------
(***************************************************************************)
(* The controls of the graphical user interface that show, and change,     *)
(* what is the same for all sources: JACK's transport (buttons, keys,      *)
(* QSSRTimeLine), the processing state and the master volume               *)
(* (QVolumeSlider).                                                        *)
(*                                                                         *)
(* Nothing that is clicked changes what is shown.  A request goes to JACK  *)
(* or to the Scene; JACK's state comes back by the realtime thread         *)
(* (query_state::query), the query thread (update) and the Scene, and a    *)
(* timer shows what is in the Scene then (_update_screen).                 *)
(*                                                                         *)
(* Times are seconds.  A pixel of the time line is a second: distances     *)
(* from its left margin are its TIMESPAN.                                  *)
(***************************************************************************)
EXTENDS Integers, Sequences, SequencesExt

CONSTANTS TIMESPAN,              \* length of the time line
          Skip,                  \* what a click on its margins skips (5 s)
          MaxTime,               \* bound: of the transport's time
          MINVOLUME, MAXVOLUME   \* of the slider, in dB

ASSUME TransportAssumption ==
  /\ TIMESPAN \in Nat \ {0} /\ Skip \in Nat /\ MaxTime \in Nat
  /\ MINVOLUME \in Nat \ {0} /\ MAXVOLUME \in Nat /\ MINVOLUME <= MAXVOLUME

VARIABLES
  transport,    \* JACK's: rolling or not, and its time
  state,        \* of the query_state: what query() has read, and who has it
  shared,       \* the Scene: transport state, processing state, master volume
  buttons,      \* those that are checked: "play", "pause", "processing"
  time_line,    \* _progress, and what was stored when a mouse button was pressed
  slider        \* volume_dB, and whether a mouse button is held down on it

transport_vars == <<transport, state, shared, buttons, time_line, slider>>

Times == 0 .. MaxTime
Volumes == MINVOLUME - 1 .. MAXVOLUME + 1   \* bound: other clients' volumes

NotPressed == [pressed |-> FALSE, x |-> 0, progress |-> 0]
NoTransport == [rolling |-> FALSE, time |-> 0]

\* Controller::run() calls start_processing() before the window is made.
TransportInit ==
  /\ transport = NoTransport
  /\ state = [at |-> "pushed", read |-> NoTransport]
  /\ shared = [transport |-> NoTransport, processing |-> TRUE, volume |-> MAXVOLUME]
  /\ buttons = {}
  /\ time_line = [progress |-> 0, at_click |-> NotPressed]
  /\ slider = [volume_dB |-> MINVOLUME, moving |-> FALSE]

------------------------------------------------------------------------------
(* JACK and the way of its state to the Scene                              *)

\* JACK rolls, and any of its clients may start, stop and locate it.
Jack ==
  /\ \E t \in Times, r \in BOOLEAN : transport' = [rolling |-> r, time |-> t]
  /\ UNCHANGED <<state, shared, buttons, time_line, slider>>

QueryTransport ==
  /\ state.at = "pushed"
  /\ state' = [at |-> "executed", read |-> transport]
  /\ UNCHANGED <<transport, shared, buttons, time_line, slider>>

\* Mutant: the query is not pushed again.
Mutant_Pushed(s) == s

\* QueryCommand::cleanup() pushes the command again.
Pushed(s) == [s EXCEPT !.at = "pushed"]

PublishTransport ==
  /\ state.at = "executed"
  /\ shared' = [shared EXCEPT !.transport = state.read]
  /\ state' = Pushed(state)
  /\ UNCHANGED <<transport, buttons, time_line, slider>>

transport_start(t) == [t EXCEPT !.rolling = TRUE]
transport_stop(t) == [t EXCEPT !.rolling = FALSE]
transport_locate(t, time) == [t EXCEPT !.time = IF time > MaxTime THEN MaxTime ELSE time]

------------------------------------------------------------------------------
(* QSSRTimeLine                                                            *)

set_progress(time) == [time_line EXCEPT !.progress = time]
lower_time_boundary == (time_line.progress \div TIMESPAN) * TIMESPAN

\* QUserInterface::_transport_locate(): the time line shows where the transport is
\* as far as the Scene knows, and that is not where it goes now.
_transport_locate(time) ==
  transport' = transport_locate(transport, IF time >= 0 THEN time ELSE 0)

Located == set_progress(shared.transport.time)

\* Distance from the left margin: on the margin, on the line, on the right margin.
LeftMargin(x) == x <= 0
RightMargin(x) == x >= TIMESPAN
Pixels == 0 .. TIMESPAN

Clicked(x) ==
  CASE LeftMargin(x) -> time_line.progress - Skip
    [] RightMargin(x) -> time_line.progress + Skip
    [] OTHER -> x + lower_time_boundary

PressTimeLine ==
  /\ ~ time_line.at_click.pressed
  /\ \E x \in Pixels :
       LET click == [pressed |-> TRUE, x |-> x, progress |-> time_line.progress]
       IN  \/ /\ _transport_locate(Clicked(x))
              /\ time_line' = [Located EXCEPT !.at_click = click]
           \* a double click, after the press of the first one
           \/ /\ ~ LeftMargin(x) /\ ~ RightMargin(x)
              /\ _transport_locate(0)
              /\ time_line' = [Located EXCEPT !.at_click = click]
           \* the right button: show_time_edit()
           \/ /\ transport' = transport
              /\ time_line' = [time_line EXCEPT !.at_click = click]
  /\ UNCHANGED <<state, shared, buttons, slider>>

\* Whatever button is held down.
MoveOnTimeLine ==
  /\ time_line.at_click.pressed
  /\ \E x \in Pixels :
       LET current == x - time_line.at_click.x + time_line.at_click.progress
       IN  _transport_locate(IF current > 0 THEN current ELSE 0)
  /\ time_line' = Located
  /\ UNCHANGED <<state, shared, buttons, slider>>

ReleaseTimeLine ==
  /\ time_line.at_click.pressed
  /\ time_line' = [time_line EXCEPT !.at_click = NotPressed]
  /\ UNCHANGED <<transport, state, shared, buttons, slider>>

\* A field of a text for a time: a number, and how many characters it has.
Field(n, characters) == [value |-> n, size |-> characters]
Digits(n) == CHOOSE d \in 1 .. 10 : n < 10 ^ d /\ (d = 1 \/ n >= 10 ^ (d - 1))
Padded(n) == Field(n, IF Digits(n) > 2 THEN Digits(n) ELSE 2)

\* paintEvent(): the fields of what is written below the handle.
Displayed(progress) ==
  LET hours == progress \div 3600
      min == (progress - hours * 3600) \div 60
      sec == progress % 60
  IN  IF hours # 0 THEN <<Field(hours, Digits(hours)), Padded(min), Padded(sec)>>
      ELSE <<Field(min, Digits(min)), Padded(sec)>>

\* The fields, with colons between them.
Characters(text) == FoldLeft(LAMBDA n, field : n + field.size + 1, -1, text)

\* _interpret_time_edit(): the places of the colons count, from the end.  -1: the
\* text is not a number.
Interpreted(text) ==
  LET n == Len(text)
      size_of_text == Characters(text)
      Colon3 == size_of_text > 3 /\ n >= 2 /\ text[n].size = 2
      Colon6 == size_of_text > 6 /\ n >= 3 /\ text[n].size = 2 /\ text[n - 1].size = 2
  IN  CASE ~ Colon3 -> IF n = 1 THEN text[1].value ELSE -1
        [] Colon3 /\ ~ Colon6 -> text[n].value + 60 * text[n - 1].value
        \* section(':', 0, -3) is all that precedes
        [] OTHER -> IF n > 3 THEN -1
                    ELSE text[n].value + 60 * text[n - 1].value + 3600 * text[1].value

\* string2time(), which understands the attribute "seek" of a request: the fields may
\* have a minus sign before them and, behind them, a fraction (in ms, here) and a
\* suffix.  The result is in ms; <<>>: not converted.  `represented` are the
\* milliseconds that divided by 1000, and multiplied again, are the same.
string2time(text, represented) ==
  LET f == text.fields
      last == f[Len(f)]
      sign == IF text.negative THEN -1 ELSE 1
      two_chars(k) == f[k].size = 2 /\ f[k].value <= 59
      the_rest == 1000 * last.value + text.fraction
      above == FoldLeft(LAMBDA sum, field : 60 * sum + field.value, 0, Front(f))
      understood == CASE Len(f) = 2 -> f[1].value <= 59 /\ two_chars(2)
                      [] Len(f) = 3 -> two_chars(2) /\ two_chars(3)
                      [] OTHER -> FALSE
      suffixes == [h |-> 3600, min |-> 60, s |-> 1, none |-> 1]
  IN  CASE \E k \in DOMAIN f : f[k].size = 0 -> <<>>
        [] Len(f) = 1 /\ text.suffix \in DOMAIN suffixes -> <<sign * the_rest * suffixes[text.suffix]>>
        [] Len(f) = 1 /\ text.suffix = "ms" /\ last.value \in represented -> <<sign * last.value>>
        [] Len(f) # 1 /\ text.suffix = "none" /\ understood /\ the_rest < 60000 ->
             <<sign * (60000 * above + the_rest)>>
        [] OTHER -> <<>>

\* A text of nothing but fields.
Plain(f) == [negative |-> FALSE, fields |-> f, fraction |-> 0, suffix |-> "none"]

\* Texts that are typed: as they are shown, and with one digit for the seconds.
Texts == { Displayed(t) : t \in Times } \cup { <<Field(0, 1), Field(t, 1)>> : t \in Times }

\* Return in the time edit, which hides itself.
TimeEdit ==
  /\ \E text \in Texts :
       LET time == Interpreted(text)
       IN  IF time < 0 THEN UNCHANGED <<transport, time_line>>
           ELSE _transport_locate(time) /\ time_line' = Located
  /\ UNCHANGED <<state, shared, buttons, slider>>

------------------------------------------------------------------------------
(* Buttons and keys                                                        *)

\* A checkable button is toggled, then its slot is called.
Toggle(b) == buttons' = (buttons \ {b}) \cup ({b} \ buttons)

PlayButton ==
  /\ Toggle("play")
  /\ transport' = transport_start(transport)
  /\ UNCHANGED <<state, shared, time_line, slider>>

PauseButton ==
  /\ Toggle("pause")
  /\ transport' = transport_stop(transport)
  /\ UNCHANGED <<state, shared, time_line, slider>>

ProcessingButton ==
  /\ Toggle("processing")
  /\ shared' = [shared EXCEPT !.processing = ~ @]
  /\ UNCHANGED <<transport, state, time_line, slider>>

\* The skip-back button and the backspace key; the space key asks the Scene what to
\* do, which may be late.
TransportKey ==
  /\ \/ transport' = transport_locate(transport, 0)
     \/ shared.transport.rolling /\ transport' = transport_stop(transport)
     \/ ~ shared.transport.rolling /\ transport' = transport_start(transport)
  /\ UNCHANGED <<state, shared, buttons, time_line, slider>>

------------------------------------------------------------------------------
(* The master volume                                                       *)

Clamped(volume) ==
  IF volume > MAXVOLUME THEN MAXVOLUME ELSE IF volume < MINVOLUME THEN MINVOLUME ELSE volume

_set_master_volume(volume) == shared' = [shared EXCEPT !.volume = Clamped(volume)]

\* Plus and minus, with no source selected.
VolumeKey ==
  /\ \E d \in {-1, 1} : _set_master_volume(shared.volume + d)
  /\ UNCHANGED <<transport, state, buttons, time_line, slider>>

PressSlider ==
  /\ slider' = [slider EXCEPT !.moving = ~ @]
  /\ UNCHANGED <<transport, state, shared, buttons, time_line>>

\* The movement since the last event is added to what is shown.
MoveSlider ==
  /\ slider.moving
  /\ \E d \in {-1, 1} : _set_master_volume(Clamped(slider.volume_dB + d))
  /\ UNCHANGED <<transport, state, buttons, time_line, slider>>

\* Other clients know no limits.
OtherClient ==
  /\ \/ \E v \in Volumes : shared' = [shared EXCEPT !.volume = v]
     \/ \E p \in BOOLEAN : shared' = [shared EXCEPT !.processing = p]
  /\ UNCHANGED <<transport, state, buttons, time_line, slider>>

------------------------------------------------------------------------------

UpdateScreen ==
  /\ time_line' = set_progress(shared.transport.time)
  /\ slider' = [slider EXCEPT !.volume_dB = Clamped(shared.volume)]
  /\ buttons' = {IF shared.transport.rolling THEN "play" ELSE "pause"}
                \cup (IF shared.processing THEN {"processing"} ELSE {})
  /\ UNCHANGED <<transport, state, shared>>

TransportNext ==
  \/ Jack \/ QueryTransport \/ PublishTransport
  \/ PressTimeLine \/ MoveOnTimeLine \/ ReleaseTimeLine \/ TimeEdit
  \/ PlayButton \/ PauseButton \/ TransportKey
  \/ UpdateScreen

LevelNext ==
  \/ ProcessingButton \/ VolumeKey \/ PressSlider \/ MoveSlider \/ OtherClient
  \/ UpdateScreen

\* The realtime thread, the query thread and the timer of the window go on.
TransportFairness ==
  /\ WF_transport_vars(QueryTransport)
  /\ WF_transport_vars(PublishTransport)
  /\ WF_transport_vars(UpdateScreen)

------------------------------------------------------------------------------

\* Whoever has started, stopped or moved the transport, or changed the volume, and
\* however often somebody clicks: what the controls show becomes true again.  A
\* button that was clicked shows the opposite of the transport's state until the
\* timer sets it (QUserInterface::_update_screen); JACK's state takes the way
\* through two threads that hand one command to each other.
ControlsShow ==
  /\ \A r \in BOOLEAN :
       <>[](transport.rolling = r) => []<>(("play" \in buttons) = r /\ ("pause" \in buttons) = ~ r)
  /\ \A t \in Times : <>[](transport.time = t) => []<>(time_line.progress = t)
  /\ \A v \in Volumes : <>[](shared.volume = v) => []<>(slider.volume_dB = Clamped(v))
==============================================================================
