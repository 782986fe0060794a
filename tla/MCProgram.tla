------------------------------- MODULE MCProgram -------------------------------
(***************************************************************************)
(* Program for TLC: two of the four default files are there, with up to    *)
(* three lines; or none is, and the options try out the program.           *)
(***************************************************************************)
EXTENDS Program, SequencesExt

File(file) == [is |-> "file", file |-> file]
Flag(option) == [is |-> "option", option |-> option]
With(option, arg) == [is |-> "option", option |-> option, arg |-> arg]
Argument(number, arg) == [is |-> "argument", number |-> number, arg |-> arg]

Lines == {Comment, Setting("TRACKER", "razor"), Setting("OUTPUT_PREFIX", "hw"), EmptyValue("TRACKER"),
          Setting("IN_PHASE_RENDERING", "perhaps"), Setting("LOUDNESS", "high")}
Files == {Missing} \cup SeqOf(Lines, 2)
         \cup {<<Setting("NAME", "ssr"), EmptyValue("TRACKER"), l>> : l \in Lines}

Silent == Flag("-G")

\* Files and options against each other: the program exits in the end.
Configured ==
  {<<File(Missing), File(global), File(Missing), File(user), option, Flag("-h")>> :
     global \in {Missing} \cup SeqOf(Lines, 1), user \in Files,
     option \in {With("-t", "vrpn"), Flag("-T"), With("-c", <<Setting("GUI", "off"), EmptyValue("TRACKER")>>)}}
  \cup
  {<<File(<<l>>), option, Argument(1, "scene"), option2, Argument(2, "another"), Flag("-V")>> :
     l \in {NoValue, NoQuote, Quote, Setting("RENDERER_TYPE", "wfs"), Setting("IN_PHASE_RENDERING", "true"),
            Setting("FREEWHEEL", "yes"), Setting("NETWORK_INTERFACE", "on")},
     option \in {Flag("-g"), With("-n", "ssr"), Flag("--in-phase-rendering"), With("-r", "rec"),
                 With("-c", <<Quote>>), With("-c", Missing)},
     option2 \in {Flag("-i"), Flag("-I"), Flag("-f"), With("--output-prefix", "out")}}

\* Programs that start: sources and ports, or a tracker.
Started ==
  {<<Silent, option, net, With("-T", ""), Argument(1, "scene")>> :
     option \in {Flag("-f"), With("-r", "rec"), With("--output-prefix", "hw")},
     net \in {Flag("-i"), Flag("-I")}}
  \cup {<<With("-t", kind), Silent, Flag("-i")>> : kind \in Kinds \cup {"unknown"}}

AllInputs == Configured \cup Started

Ports == {<<"system:playback_", 1>>, <<"system:playback_", 2>>, <<"hw", 1>>, <<"capture", 1>>}
HardwareSets == {Ports}
SomeVisitors == {<<"player", 1>>, <<"recorder", 1>>}
SomeTargets == {NoPort, <<"player", 1>>, <<"capture", 1>>}
SomeScenes == {<<>>, <<<<"player", 1>>>>, <<<<"capture", 1>>, <<"player", 1>>>>}
==============================================================================
