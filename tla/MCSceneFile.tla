------------------------------ MODULE MCSceneFile ------------------------------
(* The directories /, /d and /d/e; the program is started in one of the last  *)
(* two.  A scene above the working directory and one with an absolute name;   *)
(* audio files beside, above and below them, with one channel and with two.   *)
EXTENDS SceneFile

TwoCwds == { <<"d">>, <<"d", "e">> }
Above == <<"..", "s.asd">>
TwoScenes == { Above, <<"", "d", "e", "t.asd">> }
Audio == { <<"..", "d", "a.wav">>, <<"", "d", "b.wav">> }
OneFile == { <<"a.wav">> }

\* Found from /d; nothing is found from /d/e but by the absolute name.
Files == <<"d", "a.wav">> :> 2 @@ <<"d", "b.wav">> :> 1

Nothing == [save |-> <<>>, load |-> <<>>, volume |-> None, clear |-> FALSE]
SceneElements ==
  { [Nothing EXCEPT !.save = name] : name \in TwoScenes } \cup
  { [Nothing EXCEPT !.load = name] : name \in TwoScenes \cup OneFile } \cup
  { [Nothing EXCEPT !.volume = "zero"], [Nothing EXCEPT !.clear = TRUE],
    [save |-> Above, load |-> Above, volume |-> "zero", clear |-> FALSE] }

Unchanged == [position |-> None, fixed |-> None, gain |-> None, model |-> None]
SourceElements ==
  { [Unchanged EXCEPT !.position = "exponent"], [Unchanged EXCEPT !.gain = "zero"],
    [position |-> "exponent", fixed |-> TRUE, gain |-> None, model |-> "plane"] }

\* A source that is played from the second channel of a file, one on a port, and
\* one that is left out, because it has no orientation.
Written1 ==
  [file |-> <<"d", "a.wav">>, channel |-> 2, port |-> None, model |-> None, volume |-> None,
   position |-> "short", fixed |-> None, orientation |-> FALSE, properties |-> <<"d", "p.xml">>,
   place |-> <<"d", "a.wav">>]
Written2 ==
  [Written1 EXCEPT !.file = None, !.channel = None, !.port = <<"2">>, !.fixed = TRUE,
                   !.properties = <<>>, !.place = <<>>]
HandWritten ==
  <<"s.asd">> :> [contents |-> [volume |-> "audible", reference |-> "short", ampl |-> "given",
                                sources |-> <<Written1, Written2, [Written2 EXCEPT !.model = "plane"]>>],
                  view |-> None]
==============================================================================
