----------------------------- MODULE MCSession -----------------------------
(***************************************************************************)
(* Small instances of Session for TLC: one for the config and the pin in   *)
(* it, one for the credentials file.                                       *)
(***************************************************************************)
EXTENDS Session, TLC

CONSTANTS home, away, C1, C2, P1, P2, p1, p2

OneRoot == {"project"}
TwoRoots == {"project", "other"}
OneUser == {"admin"}

Plain == [url |-> home, username |-> "admin", allowSelfSigned |-> TRUE,
          certFingerprint |-> Absent]

(* A command line with none of its options, on a terminal.                 *)
Bare(cmd) == [cmd |-> cmd, root |-> "project", tty |-> TRUE, yes |-> FALSE,
              force |-> FALSE, piped |-> FALSE, stdin |-> Absent, env |-> P1,
              config |-> Plain]
Piped(cmd) == [Bare(cmd) EXCEPT !.tty = FALSE, !.piped = TRUE, !.stdin = P1]
Unattended(cmd) == [Bare(cmd) EXCEPT !.tty = FALSE]

(* The password comes from the environment, the credentials file is empty. *)
TrustRequests ==
  {Bare("ordinary"), Unattended("ordinary"), Unattended("doctor"),
   [Bare("trust") EXCEPT !.yes = TRUE],
   [Bare("init") EXCEPT !.force = TRUE, !.config.url = away]}

TrustConfigs == {[Plain EXCEPT !.certFingerprint = pin] : pin \in {Absent, C1}}
TrustEdits == {[Plain EXCEPT !.url = away],
               [Plain EXCEPT !.allowSelfSigned = FALSE]}
NoStore == {noCredentials}
OAuthOnly == {{"oauth"}}

(* The certificate never changes, several accounts share one file.         *)
Elsewhere(req) == [req EXCEPT !.root = "other"]
Asking(cmd) == [Bare(cmd) EXCEPT !.env = Absent]
StoreRequests ==
  {Asking("ordinary"), Piped("login"), Elsewhere(Piped("login")),
   Bare("logout"), Elsewhere(Bare("logout"))}

StoreConfigs == {[Plain EXCEPT !.certFingerprint = C1],
                 [Plain EXCEPT !.certFingerprint = C1, !.url = away]}
Stores == [Keys -> {P1, Absent}]
NoEdits == {}
AnyLogin == {{}, {"oauth"}, {"legacy"}}

Symmetry == Permutations(Procs)

=============================================================================
