------------------------------- MODULE MCSync -------------------------------
(***************************************************************************)
(* Small instances of Sync for TLC.                                        *)
(***************************************************************************)
EXTENDS Sync, TLC

CONSTANTS A, B, Torn, p1, p2

(* One script, two whose names need no sanitising, or two of which one has *)
(* a space in its name, which sanitising turns into that of the other.     *)
OneId      == {"script.js.heating"}
OneStem    == {"heating"}
TwoIds     == {"script.js.heating", "script.js.lights"}
TwoStems   == {"heating", "lights"}
SpacedIds   == {"script.js.sun rise", "script.js.sun_rise"}
SpacedStems == {"sun rise", "sun_rise"}

StemTable == [id \in Ids |->
                CASE id = "script.js.heating" -> "heating"
                  [] id = "script.js.lights"  -> "lights"
                  [] id = "script.js.sun rise" -> "sun rise"
                  [] id = "script.js.sun_rise" -> "sun_rise"]

IdTable == [stem \in Stems |->
              CASE stem = "heating" -> "script.js.heating"
                [] stem = "lights"  -> "script.js.lights"
                [] stem \in SpacedStems -> "script.js.sun_rise"]

ExtRank  == [ext \in EngineTypes |->
               CASE ext = ".js" -> 0 [] ext = ".ts" -> 1 [] ext = ".txt" -> 2]
StemRank == [stem \in Stems |->
               IF stem \in {"heating", "sun rise"} THEN 0 ELSE 1]

RankTable == [path \in Paths |-> 3 * StemRank[path[1]] + ExtRank[path[2]]]

OneExt  == {".ts"}
TwoExts == {".js", ".ts"}

OneInstance  == {"javascript.0"}
TwoInstances == {"javascript.0", "javascript.1"}

Everything == Ids \cup Paths

Plain(cmd)  == [cmd |-> cmd, force |-> FALSE, dry |-> FALSE, pattern |-> Everything]
Forced(cmd) == [Plain(cmd) EXCEPT !.force = TRUE]
Dry(cmd)    == [Plain(cmd) EXCEPT !.dry = TRUE]
Only(cmd, id) == [Plain(cmd) EXCEPT !.pattern = {id}]

PlainCommands  == {Plain("pull"), Plain("push")}
ForcedCommands == PlainCommands \cup {Forced("pull"), Forced("push")}
AllCommands    == ForcedCommands \cup {Dry("pull"), Dry("push")}
QuietCommands  == AllCommands \cup {Only("pull", "script.js.lights"),
                                       Only("push", "script.js.lights")}
PullOnly == {Plain("pull")}
PushOnly == {Plain("push")}

ScriptPaths == {path \in Paths : path[2] \in ScriptExts}
AllPaths    == Paths
SpacedPaths == {path \in ScriptPaths : path[1] = "sun rise"}

TypedSources == Sources \ {Torn}

(* Scripts as saved in Admin: enabled on the instance given.               *)
Saved(types, enabled, instances) ==
  [source : TypedSources, engineType : types, enabled : enabled,
   engine : instances]

TypeScripts   == Saved({".ts"}, {TRUE}, {"javascript.0"})
KnownScripts  == Saved(ScriptExts, {TRUE}, {"javascript.0"})
AnyScripts    == Saved(EngineTypes, {TRUE}, {"javascript.0"})
MovedScripts  == Saved({".ts"}, {TRUE}, Instances)
AwayScripts   == {[source |-> A, engineType |-> ".ts", enabled |-> TRUE,
                   engine |-> "javascript.1"]}
TextScripts   == Saved({TextExt}, {TRUE}, {"javascript.0"})

ProcSymmetry   == Permutations(Procs)
SourceSymmetry == Permutations(TypedSources)
Symmetry == ProcSymmetry \cup SourceSymmetry

=============================================================================
