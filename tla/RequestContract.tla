-------------------------- MODULE RequestContract --------------------------
(***************************************************************************)
(* What AdminSocketClient (client/socket.ts) promises to whoever sends     *)
(* requests through it, whatever becomes of the connection:                *)
(*                                                                         *)
(*   a request is refused and never carried out, or it is taken and waits; *)
(*   a request that waits is answered, and then the server has carried it  *)
(*   out, or it fails, and then nobody knows: it may have been carried out *)
(*   already, may be later, or never;                                      *)
(*   nothing that waits outlives the connection it was sent on.            *)
(*                                                                         *)
(* The other modules rest on this: to them an await either returns what    *)
(* the server did, or the command dies before or after the server did it.  *)
(***************************************************************************)
CONSTANT Calls    \* requests

VARIABLES
  link,    \* can a request be sent
  call,    \* what has become of each request
  done     \* the requests the server has carried out

vars == <<link, call, done>>

Fates == {"unmade", "refused", "waiting", "answered", "failed"}

Waiting == {n \in Calls : call[n] = "waiting"}

TypeOK ==
  /\ link \in {"up", "down"}
  /\ call \in [Calls -> Fates]
  /\ done \subseteq Calls

Init ==
  /\ link = "down"
  /\ call = [n \in Calls |-> "unmade"]
  /\ done = {}

(* A connection becomes usable: nothing waits on an earlier one.           *)
Up ==
  /\ link = "down"
  /\ Waiting = {}
  /\ link' = "up"
  /\ UNCHANGED <<call, done>>

(* The connection is lost, or what waits is given up, or both.             *)
Down ==
  /\ link' \in {link, "down"}
  /\ \E lost \in SUBSET Waiting :
       call' = [n \in Calls |-> IF n \in lost THEN "failed" ELSE call[n]]
  /\ UNCHANGED done

Take(n) ==
  /\ call[n] = "unmade"
  /\ link = "up"
  /\ call' = [call EXCEPT ![n] = "waiting"]
  /\ UNCHANGED <<link, done>>

Refuse(n) ==
  /\ call[n] = "unmade"
  /\ call' = [call EXCEPT ![n] = "refused"]
  /\ UNCHANGED <<link, done>>

CarryOut(n) ==
  /\ call[n] \in {"waiting", "failed"}
  /\ done' = done \cup {n}
  /\ UNCHANGED <<link, call>>

Answer(n) ==
  /\ call[n] = "waiting"
  /\ n \in done
  /\ call' = [call EXCEPT ![n] = "answered"]
  /\ UNCHANGED <<link, done>>

Next ==
  \/ Up
  \/ Down
  \/ \E n \in Calls : Take(n) \/ Refuse(n) \/ CarryOut(n) \/ Answer(n)

Spec == Init /\ [][Next]_vars

=============================================================================
