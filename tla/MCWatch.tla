------------------------------ MODULE MCWatch ------------------------------
(***************************************************************************)
(* Small instances of Watch for TLC.                                       *)
(***************************************************************************)
EXTENDS Watch, TLC

CONSTANTS A, B, C

OneId   == {"script.js.heating"}
OneStem == {"heating"}
OneExt  == {".ts"}

StemTable == [id \in Ids |-> "heating"]
IdTable   == [stem \in Stems |-> "script.js.heating"]
RankTable == [path \in Paths |-> 0]

OneInstance == {"javascript.0"}
AllPaths    == Paths
AllTypes    == EngineTypes

Symmetry == Permutations(Sources)

=============================================================================
