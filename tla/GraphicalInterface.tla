---------------------------- MODULE GraphicalInterface ----------------------------
(***************************************************************************)
(* The parts of the graphical user interface, and of what it shows.  They  *)
(* have no state in common but the Scene, of which each reads other        *)
(* members; each is looked at on its own, while the others keep their      *)
(* initial values:                                                         *)
(*   "selection"   the mouse, keys and the selected sources (UserInterface) *)
(*   "properties"  what is changed of them (SourceControls)                *)
(*   "transport", "volume"   the other controls (TransportControls)        *)
(*   "levels"      the levels of the sources (Queries)                     *)
(***************************************************************************)
EXTENDS UserInterface, Queries, TransportControls, SourceControls

VARIABLE part

Parts == {"selection", "properties", "transport", "volume", "levels"}

InterfaceInit ==
  /\ part \in Parts
  /\ Init /\ ControlsInit /\ TransportInit /\ QueriesInit

InterfaceNext ==
  /\ \/ part = "selection" /\ Next /\ UNCHANGED <<control_vars, transport_vars, queries>>
     \/ part = "properties" /\ ControlsNext /\ UNCHANGED <<vars, transport_vars, queries>>
     \/ part = "transport" /\ TransportNext /\ UNCHANGED <<vars, control_vars, queries>>
     \/ part = "volume" /\ LevelNext /\ UNCHANGED <<vars, control_vars, queries>>
     \/ part = "levels" /\ QueriesNext /\ UNCHANGED <<vars, control_vars, transport_vars>>
  /\ UNCHANGED part

\* The threads and the timer that the controls of the transport rely on go on.
InterfaceSpec ==
  InterfaceInit /\ [][InterfaceNext]_<<vars, control_vars, transport_vars, queries, part>>
                /\ TransportFairness

\* The time that is written below the handle can be typed, or sent to the network
\* interface: it is understood as the same time, below and above a minute and an hour.
ASSUME TimesAreUnderstood ==
  \A t \in {0, 9, 59, 60, 61, 599, 600, 3599, 3600, 3601, 3661, 7325, 35999, 36000, 36061} :
    /\ Interpreted(Displayed(t)) = t
    /\ string2time(Plain(Displayed(t)), {}) = <<1000 * t>>

SomeFields ==
  {Field(0, 0), Field(0, 1), Field(0, 2), Field(5, 1), Field(7, 2), Field(59, 2), Field(60, 2), Field(100, 3)}

\* Both do not understand all of the same texts, but what the network interface
\* understands the time edit understands as the same time; and a time that is negative
\* is the other one's opposite, whatever its suffix or fraction.
ASSUME TextsMeanOneTime ==
  \A n \in 1 .. 4 : \A f \in [1 .. n -> SomeFields] :
    /\ string2time(Plain(f), {}) \in {<<>>, <<1000 * Interpreted(f)>>}
    /\ \A suffix \in {"none", "h", "min", "s", "ms", "m"}, fraction \in {0, 500, 50000} :
         LET time(negative) == string2time([negative |-> negative, fields |-> f,
                                            fraction |-> fraction, suffix |-> suffix], {0, 7})
         IN  IF time(FALSE) = <<>> THEN time(TRUE) = <<>>
             ELSE time(TRUE) = << - time(FALSE)[1] >>
==============================================================================
