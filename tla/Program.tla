-------------------------------- MODULE Program --------------------------------
(***************************************************************************)
(* One run of the program: main() of the renderers, which makes a          *)
(* Controller, calls run() and destroys it.  Configuration, the client of  *)
(* the JACK server with its ports, the network interface, the head tracker *)
(* and the thread that reads from it are started one after the other, and  *)
(* stopped in another order; clients of the network interface, the GUI or  *)
(* the keyboard act as soon as they can.                                   *)
(*                                                                         *)
(* phase    what has been done last                                        *)
(* conf     conf_struct                                                    *)
(* todo     the files and arguments that configuration() has still to read *)
(* given    history: all of them, until the program is configured          *)
(* ignored  history: freewheel mode was asked for, and ignored             *)
(* client   the JACK client (JackClient)                                   *)
(* sources  the IDs of the sources, highest_id the last one given          *)
(* doomed   inputs of deleted sources, until the command queue destroys    *)
(*          them (CommandQueue, SourceLifecycle)                           *)
(* asked    history: the connections that were asked for, of the ports     *)
(*          that exist                                                     *)
(* stale    history: ports that were made while a connection of an earlier *)
(*          port with their name was pending                               *)
(* loads    the number of scenes that have been loaded                     *)
(***************************************************************************)
EXTENDS Configuration, JackClient, HeadTrackers

CONSTANTS
  Inputs,     \* what configuration() may be given: sequences of inputs
  Outputs,    \* the number of outputs of the renderer
  Hardware,   \* the ports there may be before the program starts: a set of sets
  Visitors,   \* ports of other clients that come and go
  Targets,    \* what a source may be connected to: ports, or NoPort
  Scenes,     \* the scenes there are: sequences of targets
  MaxSources, \* bound on the IDs of sources
  MaxLoads    \* bound on the scenes that are loaded

\* The ports of other clients have a name, which is not one of the program's own.
ASSUME PortsAssumption ==
  \A port \in Visitors \cup UNION Hardware : port[1] \notin {"in", "out", ""}

IsSequence(s) == s \in Seq({s[n] : n \in DOMAIN s})
IsFile(file) ==
  \/ file = Missing
  \/ IsSequence(file) /\ \A n \in DOMAIN file : file[n].result \in Results

ASSUME InputsAssumption ==
  \A inputs \in Inputs :
    /\ IsSequence(inputs)
    /\ \A n \in DOMAIN inputs :
         /\ inputs[n].is \in {"file", "option", "argument"}
         /\ inputs[n].is = "file" => IsFile(inputs[n].file)
         /\ inputs[n].is = "option" /\ inputs[n].option = "-c" => IsFile(inputs[n].arg)

ASSUME ScenesAssumption == \A scene \in Scenes : IsSequence(scene)

VARIABLES phase, conf, todo, given, ignored, client, sources, highest_id, doomed,
          asked, stale, loads

configVars == <<conf, todo, given>>
portVars == <<client, sources, highest_id, doomed, asked, stale, loads>>
vars == <<phase, configVars, ignored, portVars, trackerVars>>

ProgramInit ==
  /\ phase = "started"
  /\ conf = Defaults
  /\ given \in Inputs
  /\ todo = given
  /\ ignored = FALSE
  /\ \E others \in Hardware : client = NewClient(others)
  /\ sources = {} /\ highest_id = 0 /\ doomed = {}
  /\ asked = {} /\ stale = {}
  /\ loads = 0
  /\ TrackerInit

\* ------------------------------------------------------------ configuration()
\* The inputs are the default files in their order, the options, and the
\* arguments that are no options.
Configure ==
  /\ phase = "started" /\ todo # <<>>
  /\ LET input == Head(todo)
     IN  IF input.is = "option" /\ (Exits(input) \/ Throws(conf, input))
         THEN phase' = "ended" /\ UNCHANGED conf
         ELSE /\ UNCHANGED phase
              /\ conf' = CASE input.is = "file" -> load_config_file(conf, input.file).conf
                           [] input.is = "option" -> Option(conf, input)
                           [] input.is = "argument" /\ input.number = 1 ->
                                [conf EXCEPT !.SCENE_FILE_NAME = input.arg]
                           [] OTHER -> conf
  /\ todo' = Tail(todo)
  /\ UNCHANGED <<given, ignored, portVars, trackerVars>>

\* ------------------------------------------------------------ the constructor
OutputPorts == {<<"out", k>> : k \in 1..Outputs}

\* Connections for the outputs with this prefix.
Connections(prefix) == {<<<<"out", k>>, <<prefix, k>>>> : k \in 1..Outputs}

\* RendererBase::load_reproduction_setup(), after configuration() has decided on
\* the prefix; then freewheel mode is checked.
OpenRenderer ==
  /\ phase = "started" /\ todo = <<>>
  /\ LET prefix == system_output_prefix(conf)
     IN  asked' = IF prefix = "" THEN {} ELSE Connections(prefix)
  /\ client' = NewPorts(client, OutputPorts, asked')
  /\ ignored' = (conf.NETWORK_INTERFACE /\ conf.FREEWHEEL)
  /\ conf' = IF conf.NETWORK_INTERFACE THEN [conf EXCEPT !.FREEWHEEL = FALSE]
             ELSE [conf EXCEPT !.GUI = conf.GUI /\ ~ conf.FREEWHEEL]
  /\ phase' = "renderer"
  /\ given' = <<>>
  /\ UNCHANGED <<todo, sources, highest_id, doomed, stale, loads, trackerVars>>

\* _load_audio_recorder(): the ports of the recorder may take their time.
LoadRecorder ==
  /\ phase = "renderer"
  /\ IF conf.AUDIO_RECORDER_FILE_NAME = ""
     THEN phase' = "recorder" /\ UNCHANGED <<client, asked>>
     ELSE \/ /\ phase' = "recorder"
             /\ client' = connect_ports(client, Connections("recorder"))
             /\ asked' = asked \cup Connections("recorder")
          \/ phase' = "failed" /\ UNCHANGED <<client, asked>>
  /\ UNCHANGED <<configVars, ignored, sources, highest_id, doomed, stale, loads, trackerVars>>

\* ------------------------------------------------------------ sources
InputPort(id) == <<"in", id>>

\* RendererBase::add_source(): a port, connected or waiting to be.
AddSource(state, target) ==
  LET id == state.highest_id + 1
      port == InputPort(id)
      wanted == IF target = NoPort THEN {} ELSE {<<target, port>>}
  IN  [client |-> NewPorts(state.client, {port}, wanted),
       sources |-> state.sources \cup {id},
       highest_id |-> id,
       asked |-> state.asked \cup wanted,
       stale |-> IF \E c \in state.client.pending : c[2] = port
                 THEN state.stale \cup {port} ELSE state.stale]

SourcesNow == [client |-> client, sources |-> sources, highest_id |-> highest_id,
               asked |-> asked, stale |-> stale]

Becomes(state) ==
  /\ client' = state.client
  /\ sources' = state.sources
  /\ highest_id' = state.highest_id
  /\ asked' = state.asked
  /\ stale' = state.stale

\* The inputs of deleted sources are destroyed.
Without(state, ports) ==
  [state EXCEPT !.client = unregister_ports(state.client, ports),
                !.asked = {c \in @ : c[2] \notin ports},
                !.stale = @ \ ports]

\* Controller::new_source().
NewSource(target) ==
  /\ highest_id < MaxSources
  /\ Becomes(AddSource(SourcesNow, target))
  /\ UNCHANGED <<doomed, loads>>

\* Controller::delete_source(): the input goes at once if the client is not
\* active, with one of the next commands if it is.
DeleteSource(id) ==
  /\ id \in sources
  /\ LET without == [SourcesNow EXCEPT !.sources = @ \ {id}]
     IN  IF client.active
         THEN Becomes(without) /\ doomed' = doomed \cup {InputPort(id)}
         ELSE Becomes(Without(without, {InputPort(id)})) /\ UNCHANGED doomed
  /\ UNCHANGED loads

CleanUp ==
  /\ doomed # {}
  /\ Becomes(Without(SourcesNow, doomed))
  /\ doomed' = {}
  /\ UNCHANGED <<phase, configVars, ignored, loads, trackerVars>>

\* Controller::load_scene(): all sources are removed, and the controller waits
\* until their inputs are destroyed; the IDs start again.
LoadScene(scene) ==
  /\ Len(scene) <= MaxSources
  /\ LET ports == doomed \cup {InputPort(id) : id \in sources}
         empty == [Without(SourcesNow, ports) EXCEPT !.sources = {}, !.highest_id = 0]
         added[n \in 0..Len(scene)] ==
           IF n = 0 THEN empty ELSE AddSource(added[n - 1], scene[n])
     IN  Becomes(added[Len(scene)])
  /\ doomed' = {}
  /\ loads' = loads + 1

\* In the constructor: a scene that cannot be loaded ends the program.
LoadFirstScene ==
  /\ phase = "recorder"
  /\ IF conf.SCENE_FILE_NAME = ""
     THEN LoadScene(<<>>) /\ phase' = "loaded"
     ELSE \/ \E scene \in Scenes : LoadScene(scene) /\ phase' = "loaded"
          \/ LoadScene(<<>>) /\ phase' = "failed"
  /\ UNCHANGED <<configVars, ignored, trackerVars>>

\* The end of the constructor: JACK may refuse to freewheel.
StartServer ==
  /\ phase = "loaded"
  /\ \/ phase' = "constructed"
     \/ conf.FREEWHEEL /\ phase' = "failed"
  /\ UNCHANGED <<configVars, ignored, portVars, trackerVars>>

\* ------------------------------------------------------------ run()
\* _start_tracker(): without the tracker the program goes on.
StartTracker ==
  /\ phase = "constructed"
  /\ \/ conf.TRACKER \in Kinds /\ StartThread(conf.TRACKER) /\ phase' = "tracking"
     \/ phase' = "tracked" /\ UNCHANGED trackerVars
  /\ UNCHANGED <<configVars, ignored, portVars>>

TrackerStarted ==
  /\ phase = "tracking"
  /\ FinishCreation
  /\ phase' = "tracked"
  /\ UNCHANGED <<configVars, ignored, portVars>>

Activate ==
  /\ phase = "tracked"
  /\ \/ client' = activate(client) /\ phase' = "running"
     \/ UNCHANGED client /\ phase' = "leaving"
  /\ UNCHANGED <<configVars, ignored, sources, highest_id, doomed, asked, stale, loads, trackerVars>>

\* The GUI is closed or could not be started, or a key is pressed.
Quit ==
  /\ phase = "running"
  /\ phase' = "leaving"
  /\ UNCHANGED <<configVars, ignored, portVars, trackerVars>>

\* ------------------------------------------------------------ ~Controller()
Deactivate ==
  /\ phase = "leaving"
  /\ phase' = "deactivated"
  /\ client' = deactivate(client)
  /\ UNCHANGED <<configVars, ignored, sources, highest_id, doomed, asked, stale, loads, trackerVars>>

\* The destructor of the tracker tells the thread, and waits for its end.
StopTracker ==
  /\ phase = "deactivated"
  /\ phase' = "stopping"
  /\ tracker' = [tracker EXCEPT !.stopped = TRUE]
  /\ UNCHANGED <<configVars, ignored, portVars, device, calibrations, seen, zero, orientation>>

\* Then the network interface and the renderer are destroyed.
Finish ==
  /\ phase = "stopping"
  /\ tracker.pc \in {"none", "ended"}
  /\ phase' = "ended"
  /\ Becomes(Without([SourcesNow EXCEPT !.sources = {}],
                     client.ports))
  /\ tracker' = [tracker EXCEPT !.ready = FALSE]
  /\ doomed' = {}
  /\ UNCHANGED <<configVars, ignored, loads, device, calibrations, seen, zero, orientation>>

\* ------------------------------------------------------------ the others
Serving ==
  /\ conf.NETWORK_INTERFACE
  /\ phase \in {"constructed", "tracking", "tracked", "running", "leaving",
                "deactivated", "stopping"}

\* Bound: a program without a tracker has clients that create and delete sources
\* and other clients of the JACK server, one with a tracker has none of them.
\* They have no state in common with it.
NoTrackerHere == conf.TRACKER = ""

\* Clients of the network interface, and the GUI for scenes.
ClientStep ==
  /\ NoTrackerHere
  /\ \/ Serving /\ \E target \in Targets : NewSource(target)
     \/ Serving /\ \E id \in sources : DeleteSource(id)
     \/ /\ Serving \/ (conf.GUI /\ phase = "running")
        /\ loads < MaxLoads
        /\ \E scene \in Scenes : LoadScene(scene)
  /\ UNCHANGED <<phase, configVars, ignored, trackerVars>>

CalibrateStep ==
  /\ Serving \/ phase = "running"
  /\ calibrate_client
  /\ UNCHANGED <<phase, configVars, ignored, portVars>>

\* External: other clients of the JACK server.  Bound: before the program is
\* left, after that nothing is connected.
VisitorStep ==
  /\ NoTrackerHere
  /\ phase \in {"renderer", "recorder", "loaded", "constructed", "tracked", "running"}
  /\ \E port \in Visitors :
       client' = IF port \in client.others THEN Vanish(client, port) ELSE Appear(client, port)
  /\ UNCHANGED <<phase, configVars, ignored, sources, highest_id, doomed, asked, stale, loads,
                 trackerVars>>

TrackerStep ==
  /\ tracker.pc # "none" /\ phase # "ended"
  /\ DeviceStep \/ ThreadStep \/ RazorEnds \/ RazorAgain
  /\ UNCHANGED <<phase, configVars, ignored, portVars>>

Main ==
  \/ Configure \/ OpenRenderer \/ LoadRecorder \/ LoadFirstScene \/ StartServer
  \/ StartTracker \/ TrackerStarted \/ Activate \/ Quit
  \/ Deactivate \/ StopTracker \/ Finish

ProgramNext ==
  Main \/ ClientStep \/ CleanUp \/ CalibrateStep \/ VisitorStep \/ TrackerStep

\* The main thread goes on with the destructor, and what the thread of the
\* tracker does sooner or later it does.
Program ==
  /\ ProgramInit /\ [][ProgramNext]_vars
  /\ WF_vars(Deactivate) /\ WF_vars(StopTracker) /\ WF_vars(Finish)
  /\ WF_trackerVars(ThreadStep)

\* ------------------------------------------------------------ properties
\* The lines of a file that are read: those before the first bad one.  The value
\* of an empty one is that of the last line before it that has one.
Accepted(file) ==
  LET good == {n \in 0..Len(file) : \A i \in 1..n : ~ Fails(file[i])}
      before == {i \in 1..Len(file) : i \in good /\ file[i].result # "comment"}
      full(i) == {j \in before : j <= i /\ file[j].result = "CONFIG_SUCCESS"}
      value(i) == IF full(i) = {} THEN Uninitialized
                  ELSE file[CHOOSE j \in full(i) : \A k \in full(i) : k <= j].value
  IN  [i \in before |-> [key |-> file[i].key, value |-> value(i)]]

\* Everything that sets something: the position of the input and of the line in
\* it, the key and what it sets it to.
FileSettings(n, file) ==
  IF file = Missing THEN {}
  ELSE LET lines == Accepted(file)
       IN  {<<n, i, lines[i].key, Meaning(lines[i].key, lines[i].value)>> :
              i \in {j \in DOMAIN lines : Understood(lines[j].key, lines[j].value)}}

Read == SubSeq(given, 1, Len(given) - Len(todo))

Settings ==
  UNION {LET input == Read[n]
         IN  CASE input.is = "file" -> FileSettings(n, input.file)
               [] input.is = "option" /\ input.option = "-c" -> FileSettings(n, input.arg)
               [] input.is = "option" /\ input.option # "-c" ->
                    {<<n, 0, OptionSetting(input).key, OptionSetting(input).value>>}
               [] input.is = "argument" ->
                    IF input.number = 1 THEN {<<n, 0, "SCENE_FILE_NAME", input.arg>>} ELSE {} :
         n \in DOMAIN Read}

Later(s, t) == s[1] > t[1] \/ (s[1] = t[1] /\ s[2] >= t[2])

\* "If a parameter is specified more than once, the last occurrence counts!"
\* (data/ssr.conf.example): over the files and arguments read so far every setting
\* has the value of its last occurrence in what is accepted of them, or its
\* default.
LastCounts ==
  phase = "started" =>
    LET settings == Settings
    IN  \A key \in DOMAIN Defaults :
      LET all == {s \in settings : s[3] = key}
      IN  \/ all = {} /\ conf[key] = Defaults[key]
          \/ \E s \in all : conf[key] = s[4] /\ \A t \in all : Later(s, t)

\* Ports are connected as it was asked for, in whatever order sources are created
\* and deleted and scenes loaded, before and after the client is active.  No
\* other connection is ever made; the step that activates the client makes all
\* that are possible then.  An input is excepted if an earlier one had its name,
\* whose connection was still pending when it was deleted.  The outputs are
\* connected with the configured prefix unless freewheel mode was asked for.
AsAsked ==
  [][/\ {c \in client'.connections : c[2] \notin stale'} \subseteq asked'
     /\ ~ client.active /\ client'.active =>
          /\ {c \in asked : CanConnect(client', c)} \subseteq client'.connections
          /\ conf.FREEWHEEL \/ ignored
             \/ \A k \in 1..Outputs :
                  <<conf.OUTPUT_PREFIX, k>> \in client'.others =>
                    <<<<"out", k>>, <<conf.OUTPUT_PREFIX, k>>>> \in client'.connections]_vars

\* What a head tracker publishes is relative to the last calibration
\* (HeadTrackers!CalibratedStep).
Calibrated == [][CalibratedStep]_vars

\* A program that leaves run() ends: the threads it waits for come to an end,
\* except that of a tracker that is stuck.
Terminates == (phase = "leaving") ~> (phase = "ended" \/ Stuck)
==============================================================================
