--------------------------- MODULE ContractProofs ---------------------------
(***************************************************************************)
(* AdminSocket implements RequestContract: each of its steps is a step of  *)
(* the contract, or none.                                                  *)
(***************************************************************************)
EXTENDS SocketProofs

(* A promise that waits has its entry in the table, so that whatever       *)
(* empties the table settles it.                                           *)
WaitingPending ==
  \A n \in Calls : client.call[n] = "waiting" => \E i \in Ids : client.pending[i] = n

CInv == IInv /\ WaitingPending

-----------------------------------------------------------------------------
(* What each step does to the requests and to the connection *)

(* The tables of the client are functions.                                  *)
LEMMA CallsTyped ==
  ASSUME IInv
  PROVE  /\ client \in Client
         /\ client.call = [n \in Calls |-> client.call[n]]
         /\ DOMAIN client.call = Calls /\ DOMAIN client.pending = Ids
BY DEF IInv, Routed, TypeOK, Client

(* A drop fails what waits, and the client is not connected after it.       *)
LEMMA DropsCalls ==
  ASSUME CInv, NEW c \in Conns, NEW s, Drops(c, s)
  PROVE  /\ ~connected' /\ done' = done
         /\ client'.call = [n \in Calls |-> IF \E i \in Ids : client.pending[i] = n
                                           THEN "failed" ELSE client.call[n]]
         /\ WaitingPending'
<1>1. client \in Client /\ c = client.ws /\ sock' = [sock EXCEPT ![c] = s]
  BY DEF CInv, IInv, Routed, Linked, TypeOK, Drops, OneAlive
<1>2. ~connected'
  BY <1>1 DEF Drops, connected, CInv, IInv, Routed, TypeOK
<1>3. client'.call = [n \in Calls |-> IF \E i \in Ids : client.pending[i] = n
                                     THEN "failed" ELSE client.call[n]]
  BY <1>1, FailAllFacts DEF Drops
<1>4. WaitingPending'
  BY <1>3 DEF WaitingPending, CInv
<1> QED BY <1>2, <1>3, <1>4 DEF Drops, server

(* close() with no websocket, or with one that has closed.                 *)
LEMMA IdleCloseCalls ==
  ASSUME CInv, close, client.ws = None \/ sock[client.ws] = "closed"
  PROVE  /\ connected' = connected /\ done' = done
         /\ client'.call = client.call /\ client'.pending = client.pending
<1> DEFINE m == [client EXCEPT !.userClosed = TRUE]
           n == failAll(m)
<1>1. client \in Client /\ \A i \in Ids : client.pending[i] = None
  BY DEF CInv, IInv, Routed, Linked, TypeOK, PendingAlive
<1>2. /\ m \in Client /\ m.ws = client.ws
      /\ m.pending = client.pending /\ m.call = client.call
  BY <1>1 DEF Client
<1>3. /\ client' = [n EXCEPT !.ready = FALSE, !.connectPromise = None]
      /\ UNCHANGED <<wire, server, history>>
  BY DEF close
<1> HIDE DEF m
<1>4. n \in Client /\ n.call = m.call /\ n.pending = m.pending
  <2>1. m.pending = [i \in Ids |-> None] /\ failAll(m).call = m.call
    BY <1>1, <1>2, FailNothing
  <2> QED BY <1>2, <2>1, FailAllFacts
<1> HIDE DEF n
<1>5. ~client'.ready /\ client'.call = n.call /\ client'.pending = n.pending
  BY <1>3, <1>4 DEF Client
<1>6. connected' = connected
  BY <1>1, <1>5 DEF connected, CInv, IInv, Linked, ReadyAlive
<1> QED BY <1>2, <1>3, <1>4, <1>5, <1>6 DEF server

(* A request sent waits.                                                    *)
LEMMA emitCalls ==
  ASSUME CInv, NEW n \in Calls, NEW command \in Commands, emit(n, command)
  PROVE  /\ connected /\ connected' /\ done' = done
         /\ client.call[n] = "unmade"
         /\ client'.call = [client.call EXCEPT ![n] = "waiting"]
         /\ WaitingPending'
<1> DEFINE m  == Registering(client, command)
           id == NextId(client)
           P  == [client.pending EXCEPT ![id] = n]
           C  == [client.call EXCEPT ![n] = "waiting"]
<1>1. Asks(n, command) /\ connected /\ IInv
  BY DEF emit, CInv
<1>2. /\ m \in Client /\ m.ws = client.ws /\ m.ready = client.ready
      /\ m.idCounter = client.idCounter
      /\ m.pending = client.pending /\ m.call = client.call /\ id \in Ids
  BY <1>1, AsksFacts DEF IInv
<1>3. NextId(m) = id
  BY <1>2 DEF NextId
<1>4. client' = [m EXCEPT !.idCounter = id, !.pending = P, !.call = C]
  BY <1>2, <1>3 DEF emit
<1>5. client \in Client /\ client.call[n] = "unmade" /\ client.pending[id] = None
  <2>1. client \in Client /\ client.call[n] = "unmade"
    BY <1>1, CallsTyped DEF Asks
  <2>2. client.idCounter < id
    BY <2>1 DEF Client, NextId
  <2>3. client.pending[id] # None => id <= client.idCounter
    BY <1>1, <1>2 DEF IInv, Routed, Waiting
  <2>4. client.idCounter \in Nat /\ id \in Nat
    BY <1>2, <2>1 DEF Client, Ids
  <2> QED BY <2>1, <2>2, <2>3, <2>4
<1>6. /\ P \in [Ids -> Calls \cup {None}]
      /\ C \in [Calls -> {"unmade", "refused", "waiting", "answered", "failed"}]
      /\ \A i \in Ids : P[i] = IF i = id THEN n ELSE client.pending[i]
      /\ \A k \in Calls : C[k] = IF k = n THEN "waiting" ELSE client.call[k]
  BY <1>2, <1>5 DEF Client
<1>7. sock' = sock /\ done' = done
  BY DEF emit, server
<1> HIDE DEF m, id
<1>8. /\ client'.ws = client.ws /\ client'.ready = client.ready
      /\ client'.pending = P /\ client'.call = C
  BY <1>2, <1>4 DEF Client
<1> HIDE DEF P
<1>9. WaitingPending'
  <2>1. ASSUME NEW k \in Calls, C[k] = "waiting"
        PROVE  \E i \in Ids : P[i] = k
    <3>1. CASE k = n
      BY <1>2, <1>6, <3>1
    <3>2. CASE k # n
      <4>1. PICK i \in Ids : client.pending[i] = k
        BY <1>6, <2>1, <3>2 DEF CInv, WaitingPending
      <4>2. i # id
        BY <1>5, <4>1, NoneIsNoCall
      <4> QED BY <1>6, <4>1, <4>2
    <3> QED BY <3>1, <3>2
  <2> QED BY <1>8, <2>1 DEF WaitingPending
<1> QED BY <1>1, <1>5, <1>7, <1>8, <1>9 DEF connected

(* A request refused does not.                                              *)
LEMMA emitRefusedCalls ==
  ASSUME CInv, NEW n \in Calls, NEW command \in Commands, emitRefused(n, command)
  PROVE  /\ connected' = connected /\ done' = done
         /\ client.call[n] = "unmade"
         /\ client'.call = [client.call EXCEPT ![n] = "refused"]
         /\ WaitingPending'
<1> DEFINE m == Registering(client, command)
           C == [client.call EXCEPT ![n] = "refused"]
           r == [m EXCEPT !.call[n] = "refused"]
<1>1. Asks(n, command) /\ IInv
  BY DEF emitRefused, CInv
<1>2. /\ m \in Client /\ m.ws = client.ws /\ m.ready = client.ready
      /\ m.pending = client.pending /\ m.call = client.call
  BY <1>1, AsksFacts DEF IInv
<1>3. client \in Client /\ client.call[n] = "unmade"
  BY <1>1, CallsTyped DEF Asks
<1>4. /\ C \in [Calls -> {"unmade", "refused", "waiting", "answered", "failed"}]
      /\ \A k \in Calls : C[k] = IF k = n THEN "refused" ELSE client.call[k]
  BY <1>3 DEF Client
<1>5. r = [m EXCEPT !.call = C]
  BY <1>2
<1>6. client' = IF connected THEN [r EXCEPT !.idCounter = NextId(r)] ELSE r
  BY DEF emitRefused
<1> HIDE DEF m, C
<1>7. /\ r \in Client /\ r.ws = client.ws /\ r.ready = client.ready
      /\ r.pending = client.pending /\ r.call = C
  BY <1>2, <1>4, <1>5 DEF Client
<1> HIDE DEF r
<1>8. /\ client'.ws = client.ws /\ client'.ready = client.ready
      /\ client'.pending = client.pending /\ client'.call = C
  BY <1>6, <1>7 DEF Client
<1>9. sock' = sock /\ done' = done
  BY DEF emitRefused, wire, server
<1>10. WaitingPending'
  BY <1>4, <1>8 DEF WaitingPending, CInv
<1> QED BY <1>3, <1>8, <1>9, <1>10 DEF connected, C

(* A timeout fails one request.                                             *)
LEMMA requestTimeoutCalls ==
  ASSUME CInv, NEW id \in Ids, requestTimeout(id)
  PROVE  /\ connected' = connected /\ done' = done
         /\ client.pending[id] \in Calls /\ client.call[client.pending[id]] = "waiting"
         /\ client'.call = [client.call EXCEPT ![client.pending[id]] = "failed"]
         /\ WaitingPending'
<1> DEFINE n == client.pending[id]
           P == [client.pending EXCEPT ![id] = None]
           C == [client.call EXCEPT ![n] = "failed"]
<1>1. client \in Client /\ n \in Calls /\ client.call[n] = "waiting"
  BY DEF CInv, IInv, Routed, requestTimeout, TypeOK, Client, Waiting
<1>2. client' = [client EXCEPT !.pending = P, !.call = C] /\ UNCHANGED <<wire, server, history>>
  BY DEF requestTimeout
<1>3. /\ \A i \in Ids : P[i] = IF i = id THEN None ELSE client.pending[i]
      /\ \A k \in Calls : C[k] = IF k = n THEN "failed" ELSE client.call[k]
  BY <1>1 DEF Client
<1> HIDE DEF P
<1>4. /\ client'.ws = client.ws /\ client'.ready = client.ready
      /\ client'.pending = P /\ client'.call = C
  BY <1>1, <1>2 DEF Client
<1>5. WaitingPending'
  BY <1>3, <1>4 DEF WaitingPending, CInv
<1> QED BY <1>1, <1>2, <1>4, <1>5 DEF connected, wire, server

(* A frame read: the websocket is ready, a request is answered, or nothing *)
(* becomes of it.                                                          *)
LEMMA MessageCalls ==
  ASSUME CInv, NEW c \in Conns, Message(c)
  PROVE  /\ sock' = sock /\ done' = done /\ WaitingPending'
         /\ \/ client' = client
            \/ /\ ~connected /\ client'.call = client.call
               /\ \A n \in Calls : client.call[n] # "waiting"
            \/ \E n \in Calls : /\ connected' = connected /\ n \in done
                                /\ client.call[n] = "waiting"
                                /\ client'.call = [client.call EXCEPT ![n] = "answered"]
<1> DEFINE frame == Head(down[c])
<1>1. /\ sock' = sock /\ done' = done /\ client \in Client /\ IInv
      /\ down[c] \in Seq(DownFrame) /\ down[c] # <<>>
  BY DEF Message, server, CInv, IInv, Routed, TypeOK
<1>2. /\ frame \in DownFrame /\ frame = down[c][1] /\ 1 \in 1 .. Len(down[c])
  BY <1>1, TailFacts
<1>3. CASE client' = client
  BY <1>1, <1>3 DEF CInv, WaitingPending
<1>4. CASE client' = OnReady(client, c) /\ client.outcome[c] = "pending"
  <2>1. /\ client'.call = client.call /\ client'.pending = client.pending /\ ~client.ready
        /\ \A i \in Ids : client.pending[i] = None
    BY <1>1, <1>4, OnReadyFacts, PendingOutcome
  <2>2. \A n \in Calls : client.call[n] # "waiting"
    BY <2>1, NoneIsNoCall DEF CInv, WaitingPending
  <2> QED BY <1>1, <2>1, <2>2 DEF connected, WaitingPending
<1>5. CASE /\ frame.type = "answer" /\ client' = handleCallback(client, frame.id)
           /\ client.pending[frame.id] # None
  <2> DEFINE id == frame.id
             n  == frame.of
             P  == [client.pending EXCEPT ![id] = None]
             C  == [client.call EXCEPT ![n] = "answered"]
  <2>1. id \in Ids /\ n \in Calls
    BY <1>2, <1>5 DEF DownFrame
  <2>2. client.pending[id] = n /\ n \in done
    BY <1>1, <1>2, <1>5 DEF IInv, Routed, FramesNamed, Names
  <2>3. client.call[n] = "waiting"
    BY <1>1, <1>5, <2>1, <2>2 DEF IInv, Routed, Waiting
  <2>4. /\ client'.ws = client.ws /\ client'.ready = client.ready
        /\ client'.pending = P /\ client'.call = C
    <3> HIDE DEF id, n
    <3>1. client' = handleCallback(client, id) /\ client.pending[id] # None
      BY <1>5 DEF id
    <3> QED BY <1>1, <2>1, <2>2, <3>1, handleCallbackFacts
  <2> HIDE DEF id, n
  <2>5. /\ \A i \in Ids : P[i] = IF i = id THEN None ELSE client.pending[i]
        /\ \A k \in Calls : C[k] = IF k = n THEN "answered" ELSE client.call[k]
    BY <1>1, <2>1 DEF Client
  <2>6. WaitingPending'
    BY <2>2, <2>4, <2>5 DEF WaitingPending, CInv
  <2> QED BY <1>1, <2>1, <2>2, <2>3, <2>4, <2>6 DEF connected
<1> QED BY <1>3, <1>4, <1>5 DEF Message, OnReady, handleCallback

(* A new websocket changes nothing for the requests.                        *)
LEMMA connectCalls ==
  ASSUME CInv, ~Eager, NEW c \in Conns, connect(c)
  PROVE  /\ client'.call = client.call /\ client'.pending = client.pending
         /\ connected' = connected /\ done' = done
<1>1. ~client.ready
  BY SocketAssumption DEF CInv, IInv, Routed, Linked, TypeOK, connect,
                          ReadyAlive, Alive, Client, None, OneAlive, Conns
<1>2. client \in Client /\ client' = Connecting(client, c) /\ done' = done
  BY DEF CInv, IInv, Routed, TypeOK, connect, server
<1> DEFINE O == [client.outcome EXCEPT ![c] = "pending"]
<1>3. client' = [client EXCEPT !.ws = c, !.connectPromise = c, !.userClosed = FALSE, !.outcome = O]
  BY <1>2 DEF Connecting
<1> HIDE DEF O
<1>4. /\ client'.call = client.call /\ client'.pending = client.pending
      /\ client'.ready = client.ready
  BY <1>2, <1>3 DEF Client
<1> QED BY <1>1, <1>2, <1>4 DEF connected

-----------------------------------------------------------------------------
(* Nothing waits that has no entry *)

(* Every step keeps WaitingPending.                                         *)
LEMMA NextWaits ==
  ASSUME CInv, ~Eager, [Next]_vars
  PROVE  WaitingPending'
<1>1. CASE UNCHANGED client
  BY <1>1 DEF CInv, WaitingPending
<1>2. CASE close
  <2>1. CASE client.ws # None /\ sock[client.ws] # "closed"
    BY <1>2, <2>1, CloseDrops, DropsCalls DEF CInv
  <2>2. CASE client.ws = None \/ sock[client.ws] = "closed"
    BY <1>2, <2>2, IdleCloseCalls DEF CInv, WaitingPending
  <2> QED BY <2>1, <2>2
<1>3. ASSUME NEW n \in Calls, NEW command \in Commands,
             emit(n, command) \/ emitRefused(n, command)
      PROVE  WaitingPending'
  BY <1>3, emitCalls, emitRefusedCalls
<1>4. ASSUME NEW id \in Ids, requestTimeout(id)
      PROVE  WaitingPending'
  BY <1>4, requestTimeoutCalls
<1>5. ASSUME NEW c \in Conns, connect(c)
      PROVE  WaitingPending'
  BY <1>5, connectCalls DEF CInv, WaitingPending
<1>6. ASSUME NEW c \in Conns, Message(c)
      PROVE  WaitingPending'
  BY <1>6, MessageCalls
<1>7. ASSUME NEW c \in Conns, connectTimeout(c) \/ Breaks(c) \/ Unreachable(c) \/ Closes(c)
      PROVE  WaitingPending'
  BY <1>7, ConnectTimeoutDrops, BreaksDrops, UnreachableDrops, ClosesDrops, DropsCalls DEF CInv
<1>8. ASSUME NEW c \in Conns,
             Opens(c) \/ Lost(c) \/ Changes(c) \/ \E frame \in up[c] : Serves(c, frame)
      PROVE  client' = client
  BY <1>8 DEF Opens, Lost, Changes, Serves
<1>9. CASE UNCHANGED vars
  BY <1>1, <1>9 DEF vars
<1> QED BY <1>1, <1>2, <1>3, <1>4, <1>5, <1>6, <1>7, <1>8, <1>9 DEF Next

(* IInv and WaitingPending hold throughout.                                 *)
LEMMA WaitsInvariant == ASSUME ~Eager PROVE Spec => []CInv
<1>1. Init => WaitingPending
  BY DEF Init, WaitingPending
<1>2. CInv /\ [Next]_vars => CInv'
  BY NextInv, NextWaits DEF CInv
<1> QED BY InitInv, <1>1, <1>2, PTL DEF Spec, CInv

-----------------------------------------------------------------------------
(* Steps of the contract *)

Link == IF connected THEN "up" ELSE "down"

(* What waits is given up, or the connection lost, or both.                *)
LEMMA DownStep ==
  ASSUME IInv, done' = done, ~connected' \/ connected' = connected,
         NEW lost \in SUBSET Calls,
         \A n \in lost : client.call[n] = "waiting",
         client'.call = [n \in Calls |-> IF n \in lost THEN "failed" ELSE client.call[n]]
  PROVE  Contract!Down
<1>1. lost \in SUBSET Contract!Waiting
  BY DEF Contract!Waiting
<1>2. Link' \in {Link, "down"}
  BY DEF Link
<1> QED BY <1>1, <1>2 DEF Contract!Down, Link

(* A drop is a Down of the contract.                                        *)
LEMMA DropsContract ==
  ASSUME CInv, NEW c \in Conns, NEW s, Drops(c, s)
  PROVE  Contract!Down
<1> DEFINE lost == {n \in Calls : \E i \in Ids : client.pending[i] = n}
<1>1. \A n \in lost : client.call[n] = "waiting"
  BY NoneIsNoCall DEF CInv, IInv, Routed, Waiting
<1>2. client'.call = [n \in Calls |-> IF n \in lost THEN "failed" ELSE client.call[n]]
  BY DropsCalls
<1>3. ~connected' /\ done' = done /\ lost \in SUBSET Calls /\ IInv
  BY DropsCalls DEF CInv
<1> HIDE DEF lost
<1> QED BY <1>1, <1>2, <1>3, DownStep

(* What the contract does not see.                                          *)
LEMMA SameContract ==
  ASSUME client'.call = client.call, connected' = connected, done' = done
  PROVE  UNCHANGED Contract!vars
BY DEF Contract!vars

(* Every step is one of the contract, or none.                              *)
LEMMA StepContract ==
  ASSUME CInv, ~Eager, [Next]_vars
  PROVE  [Contract!Next]_(Contract!vars)
<1> USE DEF CInv
<1>1. CASE UNCHANGED vars
  BY <1>1, SameContract DEF vars, wire, server, connected
<1>2. CASE close
  <2>1. CASE client.ws # None /\ sock[client.ws] # "closed"
    BY <1>2, <2>1, CloseDrops, DropsContract DEF Contract!Next
  <2>2. CASE client.ws = None \/ sock[client.ws] = "closed"
    BY <1>2, <2>2, IdleCloseCalls, SameContract
  <2> QED BY <2>1, <2>2
<1>3. ASSUME NEW n \in Calls, NEW command \in Commands, emit(n, command)
      PROVE  Contract!Next
  <2>1. Contract!Take(n)
    BY <1>3, emitCalls DEF Contract!Take
  <2> QED BY <2>1 DEF Contract!Next
<1>4. ASSUME NEW n \in Calls, NEW command \in Commands, emitRefused(n, command)
      PROVE  Contract!Next
  <2>1. Contract!Refuse(n)
    BY <1>4, emitRefusedCalls DEF Contract!Refuse
  <2> QED BY <2>1 DEF Contract!Next
<1>5. ASSUME NEW id \in Ids, requestTimeout(id)
      PROVE  Contract!Next
  <2> DEFINE lost == {client.pending[id]}
  <2>1. /\ connected' = connected /\ done' = done
        /\ lost \in SUBSET Calls /\ \A n \in lost : client.call[n] = "waiting"
        /\ client'.call = [client.call EXCEPT ![client.pending[id]] = "failed"]
    BY <1>5, requestTimeoutCalls
  <2>2. client'.call = [n \in Calls |-> IF n \in lost THEN "failed" ELSE client.call[n]]
    BY <2>1, CallsTyped
  <2> HIDE DEF lost
  <2>3. Contract!Down
    BY <2>1, <2>2, DownStep
  <2> QED BY <2>3 DEF Contract!Next
<1>6. ASSUME NEW c \in Conns, connectTimeout(c) \/ Breaks(c) \/ Unreachable(c) \/ Closes(c)
      PROVE  Contract!Next
  BY <1>6, ConnectTimeoutDrops, BreaksDrops, UnreachableDrops, ClosesDrops, DropsContract
     DEF Contract!Next
<1>7. ASSUME NEW c \in Conns, connect(c)
      PROVE  UNCHANGED Contract!vars
  BY <1>7, connectCalls, SameContract
<1>8. ASSUME NEW c \in Conns, Opens(c)
      PROVE  UNCHANGED Contract!vars
  <2>1. client' = client /\ ~client.ready /\ done' = done
    BY <1>8, PendingOutcome DEF Opens, OneAlive, IInv, Linked, server
  <2> QED BY <2>1, SameContract DEF connected
<1>9. ASSUME NEW c \in Conns, Lost(c)
      PROVE  Contract!Next
  <2>1. /\ client' = client /\ sock' = [sock EXCEPT ![c] = "closing"]
        /\ c = client.ws /\ done' = done
    BY <1>9 DEF Lost, OneAlive, Alive, IInv, Linked, server
  <2>2. ~connected'
    BY <2>1 DEF connected, IInv, Routed, TypeOK
  <2> DEFINE lost == {}
  <2>3. /\ lost \in SUBSET Calls /\ \A n \in lost : client.call[n] = "waiting"
        /\ client'.call = [n \in Calls |-> IF n \in lost THEN "failed" ELSE client.call[n]]
    BY <2>1, CallsTyped
  <2> HIDE DEF lost
  <2>4. Contract!Down
    BY <2>1, <2>2, <2>3, DownStep
  <2> QED BY <2>4 DEF Contract!Next
<1>10. ASSUME NEW c \in Conns, Message(c)
       PROVE  [Contract!Next]_(Contract!vars)
  <2>1. CASE client' = client
    BY <1>10, <2>1, MessageCalls, SameContract DEF connected
  <2>2. CASE /\ ~connected /\ client'.call = client.call
             /\ \A n \in Calls : client.call[n] # "waiting"
    <3>1. done' = done
      BY <1>10, MessageCalls
    <3>2. CASE connected'
      <4>1. Contract!Waiting = {}
        BY <2>2 DEF Contract!Waiting
      <4>2. Contract!Up
        BY <2>2, <3>1, <3>2, <4>1 DEF Contract!Up
      <4> QED BY <4>2 DEF Contract!Next
    <3>3. CASE ~connected'
      BY <2>2, <3>1, <3>3 DEF Contract!vars
    <3> QED BY <3>2, <3>3
  <2>3. ASSUME NEW n \in Calls, connected' = connected, n \in done,
               client.call[n] = "waiting",
               client'.call = [client.call EXCEPT ![n] = "answered"]
        PROVE  Contract!Next
    <3>1. done' = done
      BY <1>10, MessageCalls
    <3>2. Contract!Answer(n)
      BY <2>3, <3>1 DEF Contract!Answer
    <3> QED BY <3>2 DEF Contract!Next
  <2> QED BY <1>10, <2>1, <2>2, <2>3, MessageCalls
<1>11. ASSUME NEW c \in Conns, NEW frame \in up[c], Serves(c, frame)
       PROVE  [Contract!Next]_(Contract!vars)
  <2> DEFINE n == frame.of
  <2>1. /\ n \in Calls /\ frame.id \in Ids
        /\ client.call[n] \in {"waiting", "answered", "failed"}
    BY DEF IInv, Routed, TypeOK, UpFrame, FramesNamed, Names
  <2>2. done' = done \cup {n} /\ client' = client /\ sock' = sock
    BY <1>11 DEF Serves
  <2>3. connected' = connected
    BY <2>2 DEF connected
  <2> HIDE DEF n
  <2>4. CASE client.call[n] = "answered"
    <3>1. done' = done
      BY <2>1, <2>2, <2>4 DEF IInv, Routed, Settled
    <3> QED BY <2>2, <2>3, <3>1, SameContract
  <2>5. CASE client.call[n] \in {"waiting", "failed"}
    <3>1. Contract!CarryOut(n)
      BY <2>2, <2>3, <2>5 DEF Contract!CarryOut
    <3> QED BY <2>1, <3>1 DEF Contract!Next
  <2> QED BY <2>1, <2>4, <2>5
<1>12. ASSUME NEW c \in Conns, Changes(c)
       PROVE  UNCHANGED Contract!vars
  BY <1>12, SameContract DEF Changes, connected
<1> QED BY <1>1, <1>2, <1>3, <1>4, <1>5, <1>6, <1>7, <1>8, <1>9, <1>10, <1>11, <1>12 DEF Next

(* The client implements the contract its callers rely on: a request is    *)
(* refused and never carried out, or taken; answered only when the server  *)
(* has carried it out; and nothing waits on a connection that is gone.     *)
THEOREM SocketImplementsContract == ASSUME ~Eager PROVE Spec => ImplementsContract
<1>1. Init => Contract!Init
  BY DEF Init, Contract!Init, connected
<1>2. CInv /\ [Next]_vars => [Contract!Next]_(Contract!vars)
  BY StepContract
<1> QED BY <1>1, <1>2, WaitsInvariant, PTL DEF Spec, ImplementsContract, Contract!Spec

=============================================================================
