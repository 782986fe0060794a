--------------------------------- MODULE Paths ---------------------------------
(***************************************************************************)
(* The path operations of posixpathtools.h.  A path is the sequence of its *)
(* components, what tokenize() makes of it: "/d/a" is <<"", "d", "a">>, a  *)
(* trailing slash is an empty last component, and the empty string is <<>>.*)
(* The location a path stands for in a directory tree without symbolic     *)
(* links is the sequence of names from the root to it.                     *)
(***************************************************************************)
EXTENDS Naturals, Sequences, SequencesExt

Absolute(path) == path # <<>> /\ Head(path) = ""

\* The working directory at `location` as getcwd() spells it, in components.
getcwd(location) == IF location = <<>> THEN <<"", "">> ELSE <<"">> \o location

\* Joining no components, or a single empty one, gives ".".
untokenize(tokens) == IF tokens \in {<<>>, <<"">>} THEN <<".">> ELSE tokens

\* One component, from the right: ".." takes the next ordinary name with it.
CleanStep(name, acc) ==
  CASE name \in {"", "."} -> acc
    [] name = ".." -> [acc EXCEPT !.levels = @ + 1]
    [] name \notin {"", ".", ".."} /\ acc.levels > 0 -> [acc EXCEPT !.levels = @ - 1]
    [] OTHER -> [acc EXCEPT !.kept = <<name>> \o @]

\* What is left of the components between the leading and the trailing slash,
\* with the ".."s that found nothing to take in front.
Kept(tokens) ==
  LET r == FoldRight(CleanStep, tokens, [kept |-> <<>>, levels |-> 0])
  IN  [k \in 1 .. r.levels |-> ".."] \o r.kept

\* Removes "." and ".." and keeps a leading and a trailing slash.
clean_path(tokens) ==
  LET inner == IF Absolute(tokens) THEN Tail(tokens) ELSE tokens
      slash == inner # <<>> /\ Last(inner) = ""
      rooted == (IF Absolute(tokens) THEN <<"">> ELSE <<>>)
                  \o Kept(IF slash THEN Front(inner) ELSE inner)
      path == (IF rooted = <<>> THEN <<".">> ELSE rooted)
                \o (IF slash THEN <<"">> ELSE <<>>)
  IN  IF tokens = <<>> THEN tokens
      ELSE IF path = <<"">> THEN <<"", "">> ELSE path

remove_last_component(tokens) ==
  IF tokens = <<>> \/ Last(tokens) \in {".", ".."} THEN tokens ELSE Front(tokens)

make_absolute(path, cwd) ==
  IF path # <<>> /\ ~ Absolute(path) THEN getcwd(cwd) \o path ELSE path

\* `path` relative to `directory`, both seen from the working directory: the
\* common parents go, and one ".." comes for each name left of the directory.
make_relative(path, directory, cwd) ==
  LET to == clean_path(make_absolute(path, cwd))
      from == clean_path(make_absolute(IF directory = <<>> THEN <<".">> ELSE directory, cwd))
      common == Len(LongestCommonPrefix({to, from}))
      up == SelectSeq(SubSeq(from, common + 1, Len(from)), LAMBDA name : name # "")
      result == [k \in 1 .. Len(up) |-> ".."] \o SubSeq(to, common + 1, Len(to))
  IN  IF result = <<"">> THEN <<".", "">> ELSE result

Mutant_make_path_relative_to_file(path, filename, cwd) ==
  IF path = <<>> \/ Absolute(path) THEN path
  ELSE untokenize(make_relative(path, filename, cwd))

\* From the working directory to the directory of `filename` (saving).
make_path_relative_to_file(path, filename, cwd) ==
  LET directory == remove_last_component(filename)
  IN  IF path = <<>> \/ Absolute(path) THEN path
      ELSE IF directory \in {<<>>, <<".">>} THEN untokenize(clean_path(path))
      ELSE untokenize(make_relative(path, directory, cwd))

\* From the directory of `filename` to the working directory (loading).
make_path_relative_to_current_dir(path, filename, cwd) ==
  IF path = <<>> \/ Absolute(path) THEN path
  ELSE untokenize(make_relative(remove_last_component(filename) \o path, <<>>, cwd))

\* The place a path stands for when it is used in the directory at `location`:
\* what the operating system makes of it, the reference for the operations above.
Resolve(path, location) ==
  FoldLeft(LAMBDA at, name :
             CASE name \in {"", "."} -> at
               [] name = ".." -> IF at = <<>> THEN at ELSE Front(at)
               [] OTHER -> Append(at, name),
           IF Absolute(path) THEN <<>> ELSE location, path)
==============================================================================
