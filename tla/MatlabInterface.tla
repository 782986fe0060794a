---------------------------- MODULE MatlabInterface ----------------------------
(***************************************************************************)
(* The MEX file ssr_nfc_hoa: an NFC-HOA renderer that MATLAB or GNU Octave *)
(* calls for each block (apf::pointer_policy).  Its state is in global     *)
(* variables.  Each call checks its arguments one after the other, and an  *)
(* error ends it where it is: what has been changed until then stays.      *)
(*                                                                         *)
(* A matrix is its size, a position, angle or model of a source is one of  *)
(* two.  What the renderer makes of them is modelled in NfcHoaRenderer.    *)
(***************************************************************************)
EXTENDS Integers, Sequences

CONSTANTS Files,       \* [names of reproduction setups -> [outputs, fails]]; what
                       \* fails: "nothing", or one of Failures
          BlockSizes,
          MaxChannels  \* bound on the number of input channels

\* The file cannot be read; it has a subwoofer; it has too many loudspeakers for
\* the coefficients of the highest mode.
Failures == {"document", "subwoofer", "order"}

ASSUME FilesAssumption ==
  \A f \in DOMAIN Files : Files[f].outputs \in Nat /\ Files[f].fails \in Failures \cup {"nothing"}

VARIABLES
  engine,           \* [block_size, outputs, inputs, sources: those get_source() finds],
                    \* or <<>> if there is none
  in_channels, out_channels, block_size,
  input_pointers,   \* sizes of the vectors `inputs` and `outputs`
  output_pointers,
  answer,           \* what the last call has returned: Error, nothing, a number, the size of a matrix
  fate,             \* of the process MATLAB runs in
  failed            \* history: an init failed after the last one that did not

matlab == <<engine, in_channels, out_channels, block_size, input_pointers, output_pointers,
            answer, fate, failed>>

Bad == -1  \* an argument that is missing or has the wrong type, size or value
Error == <<Bad>>
globals == <<in_channels, out_channels, block_size, input_pointers, output_pointers>>

MatlabInit ==
  /\ engine = <<>>
  /\ in_channels = 0 /\ out_channels = 0 /\ block_size = 0
  /\ input_pointers = 0 /\ output_pointers = 0
  /\ answer = <<>>
  /\ fate = "running"
  /\ failed = FALSE

------------------------------------------------------------------------------
(* init                                                                    *)

NewSource == [position |-> 0, orientation |-> 0, model |-> "point"]

\* load_reproduction_setup(): the subwoofer is found when the outputs are there.
NewEngine(size, file) ==
  [block_size |-> size, outputs |-> IF file.fails = "document" THEN 0 ELSE file.outputs,
   inputs |-> 0, sources |-> <<>>]

\* add_source() for each channel: a source that cannot be connected stays in the
\* renderer, with its input, but get_source() does not find it, and no other follows.
WithSources(e, file, number) ==
  IF file.fails = "order" THEN [e EXCEPT !.inputs = IF number > 0 THEN 1 ELSE 0]
  ELSE [e EXCEPT !.inputs = number, !.sources = [id \in 1 .. number |-> NewSource]]

\* The arguments of a call of init, after the name of the setup.
Arguments ==
  [number : {Bad} \cup 0 .. MaxChannels, size : {Bad} \cup BlockSizes, others : {Bad, 0}]

\* Converted one after the other, straight into the global variables.
Converted(a) ==
  /\ in_channels' = IF a.number = Bad THEN in_channels ELSE a.number
  /\ block_size' = IF Bad \in {a.number, a.size} THEN block_size ELSE a.size

\* Mutant: the outputs are only made room for at the first time.
Mutant_Resized(done, number, file) ==
  /\ input_pointers' = IF done THEN number ELSE input_pointers
  /\ output_pointers' = IF done /\ output_pointers = 0 THEN file.outputs ELSE output_pointers

Resized(done, number, file) ==
  /\ input_pointers' = IF done THEN number ELSE input_pointers
  /\ output_pointers' = IF done THEN file.outputs ELSE output_pointers

\* The old engine makes way for the new one before this has read its setup.
InitCall ==
  /\ fate = "running"
  /\ \E a \in Arguments, name \in DOMAIN Files :
       LET file == Files[name]
           accepted == Bad \notin {a.number, a.size, a.others}
           loaded == accepted /\ file.fails \notin {"document", "subwoofer"}
           done == loaded /\ (file.fails = "order" => a.number = 0)
           new == NewEngine(a.size, file)
       IN  /\ Converted(a)
           /\ engine' = IF ~ accepted THEN engine
                        ELSE <<IF loaded THEN WithSources(new, file, a.number) ELSE new>>
           /\ out_channels' = IF loaded THEN file.outputs ELSE out_channels
           /\ Resized(done, a.number, file)
           /\ answer' = IF done THEN <<>> ELSE Error
           /\ failed' = ~ done
  /\ UNCHANGED fate

------------------------------------------------------------------------------
(* Calls that need an engine (error_init())                                *)

\* Input::fetch_buffer() and Output::fetch_buffer() take the pointers at their IDs,
\* which may be more than the call has set, or more than the vectors have ever held.
Strays ==
  \/ engine[1].inputs > in_channels \/ engine[1].outputs > out_channels
  \/ in_channels > input_pointers \/ out_channels > output_pointers

\* process, with a matrix of one column for each input.  Pointers are set for one
\* channel more than there are: the last one is written behind the end of its
\* vector, where there may be spare memory or not.
ProcessCall ==
  /\ fate = "running" /\ engine # <<>>
  /\ \E rows \in BlockSizes, columns \in 0 .. MaxChannels :
       LET taken == rows = block_size /\ columns = in_channels
       IN  /\ answer' = IF taken THEN <<block_size, out_channels>> ELSE Error
           /\ fate' \in CASE ~ taken -> {"running"}
                          [] taken /\ block_size # engine[1].block_size -> {"assertion"}
                          [] OTHER -> {"running", IF Strays THEN "stray pointer" ELSE "one too many"}
  /\ UNCHANGED <<engine, globals, failed>>

\* Each channel's source gets its value, one after the other.  get_source() is not
\* asked whether it has found one.
Assigned(member, values) ==
  LET sources == engine[1].sources IN
  /\ fate' = IF Len(values) > Len(sources) THEN "null source" ELSE fate
  /\ engine' = <<[engine[1] EXCEPT !.sources = [id \in DOMAIN sources |->
                  IF id <= Len(values) THEN [sources[id] EXCEPT ![member] = values[id]]
                                       ELSE sources[id]]]>>

ValuesOf(member) == IF member = "model" THEN {"point", "plane"} ELSE {0, 1}
Lists(S) == UNION {[1 .. n -> S] : n \in 0 .. MaxChannels}

\* source position, orientation and model: a list of the wrong length is refused.  A
\* model that is no model is found when those before it have been set (`good`).
SourceCall ==
  /\ fate = "running" /\ engine # <<>>
  /\ \E member \in DOMAIN NewSource : \E values \in Lists(ValuesOf(member)), good \in 0 .. MaxChannels :
       /\ good = Len(values) \/ (member = "model" /\ good < Len(values))
       /\ IF Len(values) = in_channels
          THEN /\ Assigned(member, SubSeq(values, 1, good))
               /\ answer' = IF good = Len(values) THEN <<>> ELSE Error
          ELSE answer' = Error /\ UNCHANGED <<engine, fate>>
  /\ UNCHANGED <<globals, failed>>

\* block_size and out_channels
QueryCall ==
  /\ fate = "running" /\ engine # <<>>
  /\ answer' \in {<<block_size>>, <<out_channels>>}
  /\ UNCHANGED <<engine, globals, fate, failed>>

------------------------------------------------------------------------------

\* clear, free and delete work without an engine, too.
ClearCall ==
  /\ fate = "running"
  /\ engine' = <<>>
  /\ answer' = <<>>
  /\ UNCHANGED <<globals, fate, failed>>

\* help, and everything that mexFunction() or error_init() refuses.
OtherCall ==
  /\ fate = "running"
  /\ answer' \in {<<>>, Error}
  /\ UNCHANGED <<engine, globals, fate, failed>>

\* A process that has not survived the call is started again.
Again ==
  /\ fate # "running"
  /\ engine' = <<>>
  /\ in_channels' = 0 /\ out_channels' = 0 /\ block_size' = 0
  /\ input_pointers' = 0 /\ output_pointers' = 0
  /\ answer' = <<>>
  /\ fate' = "running"
  /\ failed' = FALSE

MatlabNext ==
  \/ InitCall \/ ProcessCall \/ SourceCall \/ QueryCall \/ ClearCall \/ OtherCall \/ Again

MatlabSpec == MatlabInit /\ [][MatlabNext]_matlab

------------------------------------------------------------------------------
(* Properties                                                              *)

\* Whatever calls have failed before, as soon as an init succeeds, the globals that
\* process and source rely on fit the engine: every channel has its source and its
\* pointer, and no call ends the process but by the pointer that is one too many
\* (init(), process() and source() of ssr_nfc_hoa.cpp).
EngineFits ==
  ~ failed =>
    /\ fate \in {"running", "one too many"}
    /\ engine # <<>> =>
         /\ in_channels = engine[1].inputs /\ in_channels = Len(engine[1].sources)
         /\ out_channels = engine[1].outputs /\ block_size = engine[1].block_size
         /\ in_channels = input_pointers /\ out_channels = output_pointers
==============================================================================
