------------------------------- MODULE SceneFile -------------------------------
(***************************************************************************)
(* Scenes and the files they are kept in: the requests of the network      *)
(* interface that make, change, save, load and clear a scene, the loading  *)
(* of scenes and of plain audio files, the autosave at the end of the      *)
(* program and its next start, perhaps in another directory.               *)
(*                                                                         *)
(* A number is what its text form is: a position is "short" or has an      *)
(* "exponent" (1e-05), a gain is "audible" or "zero" (-inf dB).  Names,    *)
(* mute and orientations go the way of `fixed` and are left out.           *)
(***************************************************************************)
EXTENDS Integers, FiniteSets, Paths

CONSTANTS
  None,          \* model value: no port, no attribute, no file
  Cwds,          \* directories (locations) the program may be started in
  SceneNames,    \* paths of .asd files, relative to the working directory or absolute
  SceneRequests, \* [save, load, volume, clear] of <scene> elements
  SourceRequests, \* [position, fixed, gain, model] of <source id=...> elements
  AudioPaths,    \* paths by which a client names audio files
  Spontaneous,   \* paths that are opened like scenes, but are not .asd files
  Channels,      \* [locations of audio files that exist -> number of channels]
  Written,       \* [locations -> scene files that were there before, written by hand]
  MaxId,         \* bound on source IDs
  MaxRequests,   \* bound on requests that make or change something, over all runs
  MaxSaves,      \* bound on scenes saved by request, over all runs
  MaxRuns        \* bound on runs of the program

Autosave == <<"ssr_scene_autosave.asd">>
Port == <<"port">>
Prefix == "prefix"

VARIABLES
  cwd,       \* working directory; never changes while the program runs
  running,
  scene,     \* the Scene, and whether audio is processed
  disk,      \* [locations -> scene files]
  opened,    \* location of the file the scene is a copy of, or None
  count      \* [what is bounded -> how often it has happened]

vars == <<cwd, running, scene, disk, opened, count>>

------------------------------------------------------------------------------
(* The audio player and new sources                                        *)

ChannelsOf(location) == IF location \in DOMAIN Channels THEN Channels[location] ELSE 0

\* The port that plays a channel of a file, by the place of the file; none if
\* the file cannot be opened or has too few channels.
get_port_name(location, channel) ==
  IF channel <= ChannelsOf(location) THEN [file |-> location, channel |-> channel] ELSE None

EmptyScene == [sources |-> << >>, highest |-> 0, volume |-> "audible",
               reference |-> "short", offset |-> "short", ampl |-> "default",
               processing |-> FALSE]

\* Controller::new_source() in directory `dir`, for `s` = [name, channel, model,
\* gain, position, fixed, properties, place]; `place` remembers which file the
\* one who wrote the name meant, and no code looks at it.
new_source(sc, s, dir) ==
  LET file == s.channel > 0
      port == IF file THEN get_port_name(Resolve(s.name, dir), s.channel)
              ELSE IF s.name = <<>> THEN None ELSE s.name
      source == [file |-> IF file THEN s.name ELSE <<>>,
                 channel |-> IF file THEN s.channel ELSE 0,
                 port |-> port, model |-> s.model, gain |-> s.gain,
                 position |-> s.position, fixed |-> s.fixed,
                 properties |-> s.properties,
                 place |-> s.place]
  IN  [sc EXCEPT !.highest = @ + 1,
                 !.sources = [id \in DOMAIN @ \cup {sc.highest + 1} |->
                                IF id = sc.highest + 1 THEN source ELSE @[id]]]

delete_all_sources(sc) == [sc EXCEPT !.sources = << >>, !.highest = 0]

------------------------------------------------------------------------------
(* Saving                                                                  *)

\* The sources in the order of their IDs.
InOrder(sources) ==
  LET ids == SetToSortSeq(DOMAIN sources, <) IN [k \in 1 .. Len(ids) |-> sources[ids[k]]]

\* What a listener would notice of a source after the scene was stored: the
\* file and channel that is played, and everything a scene file has room for.
\* A port is not stored.
View(source) ==
  [plays |-> IF source.file = <<>> THEN None ELSE source.port,
   place |-> source.place, channel |-> source.channel, model |-> source.model,
   gain |-> source.gain, position |-> source.position, fixed |-> source.fixed]

SceneView(sc) ==
  [volume |-> sc.volume, reference |-> sc.reference,
   sources |-> LET s == InOrder(sc.sources) IN [k \in DOMAIN s |-> View(s[k])]]

Mutant_SavedSource(source, filename, dir) ==
  [file |-> IF source.file = <<>> THEN None
            ELSE make_path_relative_to_file(source.file, filename, dir),
   channel |-> None,
   port |-> None, model |-> source.model, volume |-> source.gain,
   position |-> source.position,
   fixed |-> IF source.fixed THEN TRUE ELSE None,
   orientation |-> TRUE,
   properties |-> source.properties,
   place |-> source.place]

\* _add_sources(): attributes that have their default value are not written.
SavedSource(source, filename, dir) ==
  [file |-> IF source.file = <<>> THEN None
            ELSE make_path_relative_to_file(source.file, filename, dir),
   channel |-> IF source.file = <<>> \/ source.channel = 1 THEN None ELSE source.channel,
   port |-> None, model |-> source.model, volume |-> source.gain,
   position |-> source.position,
   fixed |-> IF source.fixed THEN TRUE ELSE None,
   orientation |-> TRUE,
   properties |-> source.properties,
   place |-> source.place]

\* save_scene_as_XML(): the reference offset and the amplitude reference
\* distance are not written.  `view` is the scene as it was.
Contents(sc, filename, dir) ==
  [volume |-> sc.volume, reference |-> sc.reference, ampl |-> None,
   sources |-> LET s == InOrder(sc.sources)
               IN  [k \in DOMAIN s |-> SavedSource(s[k], filename, dir)]]

save_scene_as_XML(d, sc, filename, dir) ==
  LET at == Resolve(filename, dir)
      written == [contents |-> Contents(sc, filename, dir), view |-> SceneView(sc)]
  IN  [f \in DOMAIN d \cup {at} |-> IF f = at THEN written ELSE d[f]]

------------------------------------------------------------------------------
(* Loading                                                                 *)

\* The schema: decimal numbers have no exponent, minus infinity is spelled
\* differently, and line sources are unknown.
Valid(contents) ==
  /\ contents.volume = "audible"
  /\ contents.reference = "short"
  /\ \A k \in DOMAIN contents.sources :
       LET s == contents.sources[k] IN
       /\ s.position = "short"
       /\ s.volume \in {None, "audible"}
       /\ s.model \in {None, "point", "plane", "directional"}
       /\ s.channel # 0

\* One source of a scene file; only a point source may lack an orientation.
LoadedSource(sc, s, filename, dir) ==
  LET model == IF s.model = None THEN "point" ELSE s.model
      channel == IF s.file = None THEN 0 ELSE IF s.channel = None THEN 1 ELSE s.channel
      name == CASE s.file # None -> make_path_relative_to_current_dir(s.file, filename, dir)
                [] s.file = None /\ s.port # None -> <<Prefix>> \o s.port
                [] OTHER -> <<>>
  IN  IF model # "point" /\ ~ s.orientation THEN sc
      ELSE new_source(sc,
             [name |-> name, channel |-> channel, model |-> model,
              gain |-> IF s.volume = None THEN "audible" ELSE s.volume,
              position |-> s.position, fixed |-> s.fixed = TRUE,
              properties |-> make_path_relative_to_current_dir(s.properties, filename, dir),
              place |-> s.place],
             dir)

LoadedScene(sc, contents, filename, dir) ==
  FoldLeft(LAMBDA acc, s : LoadedSource(acc, s, filename, dir),
           [sc EXCEPT !.volume = contents.volume, !.reference = contents.reference,
                      !.offset = "short",
                      !.ampl = IF contents.ampl = None THEN "default" ELSE contents.ampl],
           contents.sources)

\* One source per channel; two channels are plane waves, otherwise points.
create_spontaneous_scene(sc, filename, dir) ==
  LET n == ChannelsOf(Resolve(filename, dir))
      source(k) == [name |-> filename, channel |-> k,
                    model |-> IF n = 2 THEN "plane" ELSE "point",
                    gain |-> "audible", position |-> "short", fixed |-> FALSE,
                    properties |-> <<>>, place |-> Resolve(filename, dir)]
  IN  FoldLeft(LAMBDA acc, k : new_source(acc, source(k), dir),
               [sc EXCEPT !.volume = "audible", !.reference = "short",
                          !.offset = "short", !.ampl = "default"],
               [k \in 1 .. n |-> k])

\* Processing stops and all sources go before anything else is known.
Emptied(sc) == delete_all_sources([sc EXCEPT !.processing = FALSE])

IsReadable(d, filename, dir) ==
  LET at == Resolve(filename, dir) IN at \in DOMAIN d /\ Valid(d[at].contents)

\* load_scene() of a file name with an extension: the scene it leaves behind.
load_scene(d, sc, filename, dir) ==
  IF filename \in Spontaneous
  THEN [create_spontaneous_scene(Emptied(sc), filename, dir) EXCEPT !.processing = TRUE]
  ELSE IF IsReadable(d, filename, dir)
  THEN [LoadedScene(Emptied(sc), d[Resolve(filename, dir)].contents, filename, dir)
         EXCEPT !.processing = TRUE]
  ELSE Emptied(sc)

------------------------------------------------------------------------------
(* The program                                                             *)

Init ==
  /\ cwd \in Cwds
  /\ running = FALSE
  /\ scene = EmptyScene
  /\ disk = Written
  /\ opened = None
  /\ count = [requests |-> 0, saves |-> 0, runs |-> 0]

Count(what, max) ==
  /\ count[what] < max
  /\ count' = [count EXCEPT ![what] = @ + 1]

\* The location the scene is a copy of after loading `filename`.
CopyOf(d, filename, dir) ==
  LET at == Resolve(filename, dir)
  IN  IF IsReadable(d, filename, dir) /\ d[at].view # None THEN at ELSE None

Loads(filename, dir) ==
  \/ filename \in Spontaneous /\ Resolve(filename, dir) \in DOMAIN Channels
  \/ filename \notin Spontaneous /\ IsReadable(disk, filename, dir)

\* The constructor of Controller loads the scene given on the command line, if
\* any; if that fails it throws, and nothing is saved.  Then run() begins.
Start ==
  /\ ~ running
  /\ Count("runs", MaxRuns)
  /\ cwd' \in Cwds
  /\ \E filename \in SceneNames \cup Spontaneous \cup {Autosave, <<>>} :
       IF filename = <<>>
       THEN /\ running' = TRUE
            /\ scene' = [EmptyScene EXCEPT !.processing = TRUE]
            /\ opened' = None
       ELSE /\ running' = Loads(filename, cwd')
            /\ scene' = IF running' THEN load_scene(disk, EmptyScene, filename, cwd')
                        ELSE EmptyScene
            /\ opened' = IF running' THEN CopyOf(disk, filename, cwd') ELSE None
  /\ UNCHANGED disk

\* The destructor saves the scene in the working directory.
Quit ==
  /\ running
  /\ disk' = save_scene_as_XML(disk, scene, Autosave, cwd)
  /\ running' = FALSE
  /\ scene' = EmptyScene
  /\ opened' = None
  /\ UNCHANGED <<cwd, count>>

\* The scene changed otherwise than by loading.
Changed ==
  /\ opened' = None
  /\ Count("requests", MaxRequests)
  /\ UNCHANGED <<cwd, running, disk>>

\* <source new="true" port=... file=... channel=...>: a channel makes it a file
\* only if a file is given; a file without a channel is its first channel.
NewSourceRequest ==
  /\ running
  /\ scene.highest < MaxId
  /\ \E port \in {<<>>, Port}, file \in AudioPaths \cup {<<>>}, channel \in {None, 0, 1, 2} :
       LET name == IF file # <<>> THEN file ELSE port
           number == CASE file = <<>> -> 0
                       [] file # <<>> /\ channel = None -> 1
                       [] OTHER -> channel
       IN  /\ name # <<>>
           /\ scene' = new_source(scene,
                [name |-> name, channel |-> number, model |-> "point", gain |-> "audible",
                 position |-> "short", fixed |-> FALSE, properties |-> <<>>,
                 place |-> IF number > 0 THEN Resolve(name, cwd) ELSE <<>>],
                cwd)
  /\ Changed

\* <source id=...>: each attribute that is given, the position before `fixed`.
SourceRequest ==
  /\ running
  /\ \E id \in DOMAIN scene.sources, r \in SourceRequests :
       LET s == scene.sources[id]
           or(given, old) == IF given = None THEN old ELSE given
       IN  scene' = [scene EXCEPT !.sources[id] =
             [s EXCEPT !.position = IF s.fixed THEN @ ELSE or(r.position, @),
                       !.fixed = or(r.fixed, @), !.gain = or(r.gain, @),
                       !.model = or(r.model, @)]]
  /\ Changed

\* <delete><source id=.../></delete>
DeleteRequest ==
  /\ running
  /\ \E id \in DOMAIN scene.sources :
       scene' = [scene EXCEPT !.sources = [k \in DOMAIN @ \ {id} |-> @[k]]]
  /\ Changed

\* <reference> and <reference_offset>
ReferenceRequest ==
  /\ running
  /\ \/ scene' = [scene EXCEPT !.reference = "exponent"]
     \/ scene' = [scene EXCEPT !.offset = "exponent"]
  /\ Changed

\* <scene save=... load=... volume=... clear=...>, in this order; the menus of
\* the user interface do one of the first two.  Opening what is not there as an
\* audio file throws, which nobody catches.
SceneRequest ==
  /\ running
  /\ \E r \in SceneRequests :
       LET throws == r.load \in Spontaneous /\ Resolve(r.load, cwd) \notin DOMAIN Channels
           louder(sc) == IF r.volume = None THEN sc ELSE [sc EXCEPT !.volume = r.volume]
           cleared(sc) == IF r.clear THEN delete_all_sources(sc) ELSE sc
       IN  /\ Count("saves", MaxSaves)
           /\ disk' = IF r.save = <<>> THEN disk ELSE save_scene_as_XML(disk, scene, r.save, cwd)
           /\ running' = ~ throws
           /\ scene' = IF throws THEN EmptyScene
                       ELSE cleared(louder(IF r.load = <<>> THEN scene
                                           ELSE load_scene(disk', scene, r.load, cwd)))
           /\ opened' = IF throws \/ r.clear \/ r.volume # None THEN None
                        ELSE IF r.load # <<>> THEN CopyOf(disk', r.load, cwd) ELSE opened
  /\ UNCHANGED cwd

\* <state processing=...>
StateRequest ==
  /\ running
  /\ scene' = [scene EXCEPT !.processing = ~ @]
  /\ Count("requests", MaxRequests)
  /\ UNCHANGED <<cwd, running, disk, opened>>

Next ==
  \/ Start \/ Quit
  \/ NewSourceRequest \/ SourceRequest \/ DeleteRequest \/ ReferenceRequest
  \/ SceneRequest \/ StateRequest

Spec == Init /\ [][Next]_vars

------------------------------------------------------------------------------
(* Properties                                                              *)

\* A scene may be saved and loaded from several directories, under absolute and
\* relative names: the audio files of its sources are always those their
\* author meant, and each scene file points to them from where it lies.
FilesFound ==
  /\ \A id \in DOMAIN scene.sources :
       LET s == scene.sources[id] IN s.file # <<>> => Resolve(s.file, cwd) = s.place
  /\ \A f \in DOMAIN disk : \A k \in DOMAIN disk[f].contents.sources :
       LET s == disk[f].contents.sources[k]
       IN  s.file # None => Resolve(s.file, Front(f)) = s.place

\* A scene that was loaded from a file the program wrote (load_scene() after
\* save_scene_as_XML()) is the one that was saved: all sources, with the
\* channels they play and the values a file keeps, under IDs from 1 upwards.
LoadedIsSaved ==
  opened # None =>
    /\ SceneView(scene) = disk[opened].view
    /\ DOMAIN scene.sources = 1 .. Len(disk[opened].view.sources)
==============================================================================
