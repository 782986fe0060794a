----------------------------- MODULE Configuration -----------------------------
(***************************************************************************)
(* configuration() and load_config_file(): the settings of the program     *)
(* from the hard-coded defaults, the configuration files and the command   *)
(* line, which overwrite each other in this order.                         *)
(*                                                                         *)
(* A configuration is a function from the names of the settings to their   *)
(* values.  A file is a sequence of lines, a line is what parse() finds in *)
(* it; a program that is compiled with everything is assumed.  A setting   *)
(* whose value is taken as it stands is there once for each use the        *)
(* program makes of it (NAME stands for the parameters of the renderer).   *)
(* The paths in a file are made relative to the current directory (Paths): *)
(* here they are values like the others.                                   *)
(***************************************************************************)
EXTENDS Integers, Sequences

CONSTANTS
  Missing,      \* a file that cannot be opened
  Uninitialized \* what the value buffer holds at first

Defaults ==
  [NAME |-> "", SCENE_FILE_NAME |-> "", AUDIO_RECORDER_FILE_NAME |-> "",
   OUTPUT_PREFIX |-> "system:playback_", TRACKER |-> "", IN_PHASE_RENDERING |-> "false",
   FREEWHEEL |-> FALSE, GUI |-> TRUE, NETWORK_INTERFACE |-> TRUE]

\* What is_comment_or_empty() and parse() make of a line.
Comment == [result |-> "comment"]
Setting(key, value) == [result |-> "CONFIG_SUCCESS", key |-> key, value |-> value]
EmptyValue(key) == [result |-> "CONFIG_EMPTY", key |-> key]
NoValue == [result |-> "CONFIG_NOVALUE"]
NoQuote == [result |-> "CONFIG_NOQUOTE"]
Quote == [result |-> "CONFIG_QUOTE"]

Results == {"comment", "CONFIG_SUCCESS", "CONFIG_EMPTY", "CONFIG_NOVALUE", "CONFIG_NOQUOTE",
            "CONFIG_QUOTE"}

\* RENDERER_TYPE is deprecated: it is known and sets nothing.
Known(key) == key \in DOMAIN Defaults \cup {"RENDERER_TYPE"}

Fails(line) ==
  \/ line.result \in {"CONFIG_NOVALUE", "CONFIG_NOQUOTE", "CONFIG_QUOTE"}
  \/ line.result # "comment" /\ ~ Known(line.key)

\* What is not understood for in-phase rendering leaves it as it was.
Understood(key, value) ==
  key \in DOMAIN Defaults /\ (key = "IN_PHASE_RENDERING" => value \in {"true", "false"})

\* What a value means for a key.
Meaning(key, value) ==
  CASE key = "FREEWHEEL" -> value = "yes"
    [] key \in {"GUI", "NETWORK_INTERFACE"} -> value = "on"
    [] OTHER -> value

Set(conf, key, value) ==
  IF Understood(key, value) THEN [conf EXCEPT ![key] = Meaning(key, value)] ELSE conf

\* Mutant: a setting that has been made is not made again.
Mutant_ReadLine(state, line) ==
  IF state.failed \/ line.result = "comment" THEN state
  ELSE IF Fails(line) THEN [state EXCEPT !.failed = TRUE]
  ELSE LET value == IF line.result = "CONFIG_EMPTY" THEN state.value ELSE line.value
       IN  [conf |-> IF line.key \in DOMAIN Defaults
                        /\ state.conf[line.key] = Defaults[line.key]
                     THEN Set(state.conf, line.key, value)
                     ELSE state.conf,
            value |-> value, failed |-> FALSE]

\* One line.  A line without a value leaves the buffer of the value as it is,
\* and goes on; the first bad line ends the file.
ReadLine(state, line) ==
  IF state.failed \/ line.result = "comment" THEN state
  ELSE IF Fails(line) THEN [state EXCEPT !.failed = TRUE]
  ELSE LET value == IF line.result = "CONFIG_EMPTY" THEN state.value ELSE line.value
       IN  [conf |-> Set(state.conf, line.key, value), value |-> value, failed |-> FALSE]

\* The result says what has been read before a failure.
load_config_file(conf, file) ==
  LET read[n \in 0..Len(file)] ==
        IF n = 0 THEN [conf |-> conf, value |-> Uninitialized, failed |-> FALSE]
        ELSE ReadLine(read[n - 1], file[n])
  IN  IF file = Missing THEN [conf |-> conf, value |-> Uninitialized, failed |-> TRUE]
      ELSE read[Len(file)]

\* The options that stop the program, and those that set something.
Exits(option) == option.option \in {"-h", "-V", "-?"}

OptionSetting(option) ==
  CASE option.option = "-f" -> [key |-> "FREEWHEEL", value |-> TRUE]
    [] option.option \in {"-g", "-G"} -> [key |-> "GUI", value |-> option.option = "-g"]
    [] option.option \in {"-i", "-I"} ->
         [key |-> "NETWORK_INTERFACE", value |-> option.option = "-i"]
    [] option.option = "-n" -> [key |-> "NAME", value |-> option.arg]
    [] option.option = "-r" -> [key |-> "AUDIO_RECORDER_FILE_NAME", value |-> option.arg]
    [] option.option = "-t" -> [key |-> "TRACKER", value |-> option.arg]
    [] option.option = "-T" -> [key |-> "TRACKER", value |-> ""]
    [] option.option = "--output-prefix" -> [key |-> "OUTPUT_PREFIX", value |-> option.arg]
    [] option.option = "--in-phase-rendering" ->
         [key |-> "IN_PHASE_RENDERING", value |-> "true"]

Option(conf, option) ==
  IF option.option = "-c" THEN load_config_file(conf, option.arg).conf
  ELSE [conf EXCEPT ![OptionSetting(option).key] = OptionSetting(option).value]

\* A configuration file named on the command line has to be there and correct.
Throws(conf, option) == option.option = "-c" /\ load_config_file(conf, option.arg).failed

\* At the end of configuration(): "" is no prefix for the outputs.
system_output_prefix(conf) == IF conf.FREEWHEEL THEN "" ELSE conf.OUTPUT_PREFIX
==============================================================================
