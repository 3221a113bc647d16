--------------------------- MODULE MCDestructive ---------------------------
(***************************************************************************)
(* Small instances of Destructive for TLC.                                 *)
(***************************************************************************)
EXTENDS Destructive

CONSTANTS A, B, p1

TwoIds   == {"script.js.heating", "script.js.lights"}
TwoStems == {"heating", "lights"}
OneExt   == {".ts"}
OneInstance == {"javascript.0"}
OneMark  == {"javascript.1.scriptEnabled"}

StemTable == [id \in Ids |-> IF id = "script.js.heating" THEN "heating" ELSE "lights"]
IdTable   == [stem \in Stems |-> IF stem = "heating" THEN "script.js.heating"
                                                     ELSE "script.js.lights"]
RankTable == [path \in Paths |-> IF path[1] = "heating" THEN 0 ELSE 1]

Line(cmd, id, to) ==
  [cmd |-> cmd, id |-> id, to |-> to, path |-> <<StemOf[to], ".ts">>,
   deleteLocal |-> FALSE, pattern |-> {}]

Heating == "script.js.heating"
Lights  == "script.js.lights"

Renames  == {Line("rename", Heating, Lights), Line("move", Lights, Heating)}
Removes  == {[Line("remove", Heating, Heating) EXCEPT !.deleteLocal = local] :
               local \in BOOLEAN}
News     == {Line("new", Heating, Heating)}
Toggles  == {[Line(cmd, Heating, Heating) EXCEPT !.pattern = Ids] :
               cmd \in {"start", "stop", "restart"}}
Backups  == {[Line("backup", Heating, Heating) EXCEPT !.pattern = Ids]}

AllRequests == Renames \cup Removes \cup News \cup Toggles \cup Backups

AdminSources == Sources \ {Empty}
RunningScripts == [source : AdminSources, engineType : {".ts"}, enabled : {TRUE},
                   engine : Instances]
OldScripts == [source : {A}, engineType : {".ts"}, enabled : BOOLEAN, engine : Instances]

=============================================================================
