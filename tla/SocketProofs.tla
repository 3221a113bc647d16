---------------------------- MODULE SocketProofs ----------------------------
(***************************************************************************)
(* Theorems about AdminSocket, for every number of websockets, requests    *)
(* and changes: first what holds whoever calls what and when, then what    *)
(* takes callers that connect again only once the last websocket has       *)
(* closed.                                                                 *)
(***************************************************************************)
EXTENDS AdminSocket, TLAPS

(* What is pending waits, under an id that has been given out.             *)
Waiting ==
  \A i \in Ids : client.pending[i] # None =>
    client.call[client.pending[i]] = "waiting" /\ i <= client.idCounter

(* Requests are made in order and ids go up with them.                     *)
IdsFresh ==
  /\ \A n \in Calls : client.call[n] = "unmade" => client.idCounter < n
  /\ \A i, j \in Ids : client.pending[i] = client.pending[j] => i = j \/ client.pending[i] = None

(* A frame on the wire names the request its id stands for, if any.        *)
Names(id, n) ==
  /\ client.pending[id] \in {None, n}
  /\ id <= client.idCounter
  /\ client.call[n] \in {"waiting", "answered", "failed"}

FramesNamed ==
  \A c \in Conns :
    /\ \A f \in up[c] : Names(f.id, f.of)
    /\ \A k \in 1 .. Len(down[c]) :
         down[c][k].type = "answer" => /\ Names(down[c][k].id, down[c][k].of)
                                       /\ down[c][k].of \in done

Settled ==
  /\ \A n \in Calls : client.call[n] = "answered" => n \in done
  /\ client.handlers = IF wanted THEN 1 ELSE 0
  /\ wrong = {}

(* Whatever comes in finds the request it is for.                          *)
Routed == TypeOK /\ Waiting /\ IdsFresh /\ FramesNamed /\ Settled

Alive == {"connecting", "open", "closing"}

(* Only the latest websocket lives.                                        *)
OneAlive ==
  /\ client.ws # None => sock[client.ws] # "none"
  /\ \A c \in Conns : sock[c] \in Alive => c = client.ws
  /\ \A c, d \in Conns : sock[c] = "none" /\ c < d => sock[d] = "none"
  /\ \A c \in Conns : client.outcome[c] = "pending" => sock[c] \in Alive
  /\ \A c \in Conns : sock[c] = "connecting" => client.outcome[c] = "pending"
  /\ \A c \in Conns : sock[c] \in {"connecting", "open"} => ~client.userClosed

(* `ready`, and whatever waits, stand for a websocket that has said it is   *)
(* ready and lives; what waits, for one the caller has not closed.          *)
ReadyAlive ==
  client.ready => /\ client.ws # None
                  /\ sock[client.ws] \in {"open", "closing"}
                  /\ client.outcome[client.ws] = "resolved"

(* The converse, for an open websocket.                                    *)
OpenReady ==
  \A c \in Conns : sock[c] = "open" /\ client.outcome[c] = "resolved" => client.ready

PendingAlive ==
  \A i \in Ids : client.pending[i] # None =>
    /\ client.ws # None
    /\ sock[client.ws] \in {"open", "closing"}
    /\ client.outcome[client.ws] = "resolved"
    /\ ~client.userClosed
    /\ via[client.pending[i]] = client.ws

Linked == OneAlive /\ ReadyAlive /\ OpenReady /\ PendingAlive

IInv == Routed /\ Linked

-----------------------------------------------------------------------------
(* What the listeners leave of the client's fields *)

(* None marks an id that stands for no request.                             *)
LEMMA NoneIsNoCall == None \notin Calls
BY SocketAssumption DEF None, Calls

(* What failAll leaves alone, and what it changes.                          *)
LEMMA FailAllFacts ==
  ASSUME NEW m \in Client
  PROVE  /\ failAll(m) \in Client
         /\ failAll(m).pending = [i \in Ids |-> None]
         /\ failAll(m).ws = m.ws /\ failAll(m).ready = m.ready
         /\ failAll(m).idCounter = m.idCounter /\ failAll(m).handlers = m.handlers
         /\ failAll(m).outcome = m.outcome /\ failAll(m).userClosed = m.userClosed
         /\ failAll(m).call = [n \in Calls |-> IF \E i \in Ids : m.pending[i] = n
                                              THEN "failed" ELSE m.call[n]]
<1> DEFINE P == [i \in Ids |-> None]
           C == [n \in Calls |-> IF \E i \in Ids : m.pending[i] = n
                                 THEN "failed" ELSE m.call[n]]
<1>1. P \in [Ids -> Calls \cup {None}]
  OBVIOUS
<1>2. C \in [Calls -> {"unmade", "refused", "waiting", "answered", "failed"}]
  BY DEF Client
<1>3. failAll(m) = [m EXCEPT !.pending = P, !.call = C]
  BY Zenon DEF failAll
<1> HIDE DEF P, C
<1>4. failAll(m) \in Client
  BY <1>1, <1>2, <1>3 DEF Client
<1>5. failAll(m).pending = P /\ failAll(m).call = C
  BY <1>3 DEF Client
<1>6. /\ failAll(m).ws = m.ws /\ failAll(m).ready = m.ready
         /\ failAll(m).idCounter = m.idCounter /\ failAll(m).handlers = m.handlers
         /\ failAll(m).outcome = m.outcome /\ failAll(m).userClosed = m.userClosed
  BY <1>3 DEF Client
<1> QED BY <1>4, <1>5, <1>6 DEF P, C

(* Giving up on a connection settles its promise and nothing else.          *)
LEMMA RejectedFacts ==
  ASSUME NEW m \in Client, NEW c \in Conns
  PROVE  /\ Rejected(m, c) \in Client
         /\ Rejected(m, c).pending = m.pending /\ Rejected(m, c).call = m.call
         /\ Rejected(m, c).ws = m.ws /\ Rejected(m, c).ready = m.ready
         /\ Rejected(m, c).idCounter = m.idCounter /\ Rejected(m, c).handlers = m.handlers
         /\ Rejected(m, c).userClosed = m.userClosed
         /\ Rejected(m, c).outcome = [m.outcome EXCEPT ![c] = "rejected"]
<1> DEFINE O == [m.outcome EXCEPT ![c] = "rejected"]
<1>1. O \in [Conns -> {"none", "pending", "resolved", "rejected"}]
  BY DEF Client
<1>2. Rejected(m, c) = [m EXCEPT !.connectPromise = None, !.outcome = O]
  BY DEF Rejected
<1> HIDE DEF O
<1>3. Rejected(m, c) \in Client
  BY <1>1, <1>2 DEF Client
<1> QED BY <1>2, <1>3 DEF Client, O

-----------------------------------------------------------------------------
(* What may be lost *)

(* m is d, but for what a listener, a timer or a close() fails, and the    *)
(* fields that are about the websocket.                                    *)
Loses(m, d) ==
  /\ d \in Client
  /\ d.idCounter = m.idCounter /\ d.handlers = m.handlers
  /\ \A i \in Ids : d.pending[i] \in {m.pending[i], None}
  /\ \A n \in Calls :
       \/ d.call[n] = m.call[n]
       \/ /\ d.call[n] = "failed"
          /\ \E i \in Ids : m.pending[i] = n
          /\ \A i \in Ids : d.pending[i] # n

(* One loss after another is a loss.                                       *)
LEMMA LosesTwice ==
  ASSUME NEW m \in Client, NEW d, NEW e, Loses(m, d), Loses(d, e)
  PROVE  Loses(m, e)
<1>1. ASSUME NEW n \in Calls
      PROVE  \/ e.call[n] = m.call[n]
             \/ /\ e.call[n] = "failed"
                /\ \E i \in Ids : m.pending[i] = n
                /\ \A i \in Ids : e.pending[i] # n
  <2>1. CASE d.call[n] = m.call[n] /\ e.call[n] # d.call[n]
    BY <2>1, NoneIsNoCall DEF Loses
  <2>2. CASE d.call[n] # m.call[n]
    BY <2>2, NoneIsNoCall DEF Loses
  <2> QED BY <2>1, <2>2
<1> QED BY <1>1 DEF Loses

(* Nothing is lost by what leaves ids, handlers and tables alone.          *)
LEMMA LosesNothing ==
  ASSUME NEW m \in Client, NEW d \in Client, d.idCounter = m.idCounter,
         d.handlers = m.handlers, d.pending = m.pending, d.call = m.call
  PROVE  Loses(m, d)
BY DEF Loses

LEMMA LosesAll ==
  ASSUME NEW m \in Client
  PROVE  Loses(m, failAll(m))
<1> DEFINE d == failAll(m)
<1>1. /\ d \in Client /\ d.idCounter = m.idCounter /\ d.handlers = m.handlers
      /\ d.pending = [i \in Ids |-> None]
      /\ d.call = [n \in Calls |-> IF \E i \in Ids : m.pending[i] = n
                                   THEN "failed" ELSE m.call[n]]
  BY FailAllFacts
<1> HIDE DEF d
<1>2. \A i \in Ids : d.pending[i] = None
  BY <1>1
<1>3. ASSUME NEW n \in Calls
      PROVE  \/ d.call[n] = m.call[n]
             \/ /\ d.call[n] = "failed"
                /\ \E i \in Ids : m.pending[i] = n
                /\ \A i \in Ids : d.pending[i] # n
  BY <1>1, <1>2, NoneIsNoCall
<1> QED BY <1>1, <1>2, <1>3 DEF Loses, d

LEMMA LosesConnection ==
  ASSUME NEW m \in Client, NEW c \in Conns
  PROVE  Loses(m, Rejected(m, c))
BY RejectedFacts, LosesNothing

(* Dropping the websocket takes `ready` and the promise of connect() away. *)
LEMMA LosesReady ==
  ASSUME NEW m \in Client
  PROVE  Loses(m, [m EXCEPT !.ready = FALSE, !.connectPromise = None])
<1> DEFINE d == [m EXCEPT !.ready = FALSE, !.connectPromise = None]
<1>1. /\ d \in Client /\ d.idCounter = m.idCounter /\ d.handlers = m.handlers
      /\ d.pending = m.pending /\ d.call = m.call
  BY DEF Client, None
<1> QED BY <1>1, LosesNothing

LEMMA LosesOnError ==
  ASSUME NEW m \in Client, NEW c \in Conns
  PROVE  Loses(m, OnError(m, c))
<1> DEFINE d == [m EXCEPT !.ready = FALSE, !.connectPromise = None]
<1>1. OnError(m, c) \in {Rejected(m, c), failAll(d)}
  BY DEF OnError
<1>2. Loses(m, d) /\ d \in Client
  BY LosesReady DEF Loses
<1> HIDE DEF d
<1> QED BY <1>1, <1>2, LosesAll, LosesConnection, LosesTwice

LEMMA LosesOnClose ==
  ASSUME NEW m \in Client, NEW c \in Conns
  PROVE  Loses(m, OnClose(m, c))
<1> DEFINE d == [m EXCEPT !.ready = FALSE, !.connectPromise = None]
<1>1. OnClose(m, c) \in {Rejected(d, c), d, failAll(d)}
  BY DEF OnClose
<1>2. Loses(m, d) /\ d \in Client
  BY LosesReady DEF Loses
<1> HIDE DEF d
<1> QED BY <1>1, <1>2, LosesAll, LosesConnection, LosesTwice

-----------------------------------------------------------------------------
(* Whatever comes in finds the request it is for *)

(* Frames keep their meaning while the client's tables keep theirs.        *)
LEMMA FramesKept ==
  ASSUME TypeOK, FramesNamed,
         \A id \in Ids, n \in Calls : Names(id, n) => Names(id, n)',
         done \subseteq done',
         \A c \in Conns, f \in UpFrame : f \in up'[c] => f \in up[c] \/ Names(f.id, f.of)',
         up' \in [Conns -> SUBSET UpFrame],
         \A c \in Conns : \A k \in 1 .. Len(down'[c]) :
            \/ \E j \in 1 .. Len(down[c]) : down'[c][k] = down[c][j]
            \/ (down[c][k].type = "answer"
                  => Names(down[c][k].id, down[c][k].of) /\ down[c][k].of \in done)'
  PROVE  FramesNamed'
<1>1. ASSUME NEW c \in Conns, NEW f \in up'[c]
      PROVE  Names(f.id, f.of)'
  <2>1. f \in UpFrame /\ f.id \in Ids /\ f.of \in Calls
    BY <1>1 DEF UpFrame
  <2> QED BY <1>1, <2>1 DEF FramesNamed
<1>2. ASSUME NEW c \in Conns, NEW k \in 1 .. Len(down'[c]), down'[c][k].type = "answer",
             NEW j \in 1 .. Len(down[c]), down'[c][k] = down[c][j]
      PROVE  (Names(down[c][k].id, down[c][k].of) /\ down[c][k].of \in done)'
  <2>1. down[c][j] \in DownFrame
    BY DEF TypeOK
  <2>2. down[c][j].id \in Ids /\ down[c][j].of \in Calls
    BY <1>2, <2>1 DEF DownFrame
  <2>3. Names(down[c][j].id, down[c][j].of) /\ down[c][j].of \in done
    BY <1>2 DEF FramesNamed
  <2> QED BY <1>2, <2>2, <2>3 DEF Names
<1> QED BY <1>1, <1>2 DEF FramesNamed

(* No loss takes an answer to another request.                             *)
LEMMA LossRouted ==
  ASSUME Routed, TypeOK', Loses(client, client'), up' = up, UNCHANGED <<done, wanted, wrong>>,
         \A c \in Conns : \A k \in 1 .. Len(down'[c]) :
            \/ \E j \in 1 .. Len(down[c]) : down'[c][k] = down[c][j]
            \/ down'[c][k].type # "answer"
  PROVE  Routed'
<1> USE DEF Routed
<1>1. client \in Client /\ client' \in Client
  BY DEF TypeOK
<1>2. \A n \in Calls : /\ client'.call[n] = "unmade" => client.call[n] = "unmade"
                       /\ client'.call[n] = "answered" => client.call[n] = "answered"
                       /\ client.call[n] \in {"waiting", "answered", "failed"}
                            => client'.call[n] \in {"waiting", "answered", "failed"}
  BY DEF Loses
<1>3. Waiting'
  <2>1. ASSUME NEW i \in Ids, client'.pending[i] # None
        PROVE  /\ client'.pending[i] = client.pending[i]
               /\ client'.call[client'.pending[i]] = "waiting" /\ i <= client'.idCounter
    <3>1. client'.pending[i] = client.pending[i] /\ client.pending[i] \in Calls
      BY <1>1, <2>1 DEF Loses, Client
    <3>2. client'.call[client.pending[i]] = client.call[client.pending[i]]
      BY <3>1 DEF Loses
    <3> QED BY <2>1, <3>1, <3>2 DEF Waiting, Loses
  <2> QED BY <2>1 DEF Waiting
<1>4. IdsFresh'
  BY <1>2 DEF IdsFresh, Loses
<1>5. Settled'
  BY <1>2 DEF Settled, Loses
<1>6. ASSUME NEW id \in Ids, NEW n \in Calls, Names(id, n)
      PROVE  Names(id, n)'
  BY <1>2, <1>6 DEF Names, Loses
<1>7. FramesNamed'
  BY <1>6, FramesKept DEF TypeOK
<1> QED BY <1>3, <1>4, <1>5, <1>7

(* Everything but requests and answers loses at most.                      *)
LEMMA CallRouted ==
  ASSUME Routed, NEW c \in Conns, connect(c) \/ connectTimeout(c)
  PROVE  Routed'
<1>1. client \in Client /\ UNCHANGED <<up, down, server, history>>
  BY DEF Routed, TypeOK, connect, connectTimeout
<1>2. CASE connect(c)
  <2> DEFINE O == [client.outcome EXCEPT ![c] = "pending"]
  <2>1. O \in [Conns -> {"none", "pending", "resolved", "rejected"}]
    BY <1>1 DEF Client
  <2>2. client' = [client EXCEPT !.ws = c, !.connectPromise = c, !.userClosed = FALSE,
                                 !.outcome = O]
    BY <1>2 DEF connect, Connecting
  <2> HIDE DEF O
  <2>3. Loses(client, client')
    <3>1. /\ client' \in Client /\ client'.idCounter = client.idCounter
          /\ client'.handlers = client.handlers
          /\ client'.pending = client.pending /\ client'.call = client.call
      BY <1>1, <2>1, <2>2 DEF Client
    <3> QED BY <1>1, <3>1, LosesNothing
  <2>4. TypeOK'
    BY <1>1, <1>2, <2>3 DEF connect, Routed, TypeOK, Loses, server, history
  <2> QED BY <1>1, <2>3, <2>4, LossRouted DEF server, history
<1>3. CASE connectTimeout(c)
  <2>1. Loses(client, client')
    BY <1>1, <1>3, LosesConnection DEF connectTimeout
  <2>2. TypeOK'
    BY <1>1, <1>3, <2>1 DEF connectTimeout, Routed, TypeOK, Loses, server, history
  <2> QED BY <1>1, <2>1, <2>2, LossRouted DEF server, history
<1> QED BY <1>2, <1>3

LEMMA closeRouted ==
  ASSUME Routed, close
  PROVE  Routed'
<1> DEFINE m == [client EXCEPT !.userClosed = TRUE]
<1>1. client \in Client /\ UNCHANGED <<up, down, server, history>>
  BY DEF Routed, TypeOK, close, wire
<1>2. /\ m \in Client /\ m.idCounter = client.idCounter /\ m.handlers = client.handlers
      /\ m.pending = client.pending /\ m.call = client.call
  BY <1>1 DEF Client
<1>3. client' \in {failAll(m), [failAll(m) EXCEPT !.ready = FALSE, !.connectPromise = None]}
  BY DEF close
<1> HIDE DEF m
<1>4. Loses(client, client')
  <2>1. Loses(client, m) /\ Loses(m, failAll(m)) /\ failAll(m) \in Client
    BY <1>1, <1>2, LosesNothing, LosesAll, FailAllFacts
  <2> QED BY <1>1, <1>2, <1>3, <2>1, LosesReady, LosesTwice
<1>5. TypeOK'
  <2>1. client' \in Client
    BY <1>4 DEF Loses
  <2>2. CASE UNCHANGED wire
    BY <1>1, <2>1, <2>2 DEF Routed, TypeOK, wire, server, history
  <2>3. CASE /\ client.ws # None
             /\ closing' = closing \cup {client.ws}
             /\ sock' = [sock EXCEPT ![client.ws] = "closing"]
             /\ erring' \in {erring, erring \cup {client.ws}}
    <3>1. client.ws \in Conns
      BY <1>1, <2>3 DEF Client
    <3> QED BY <1>1, <2>1, <2>3, <3>1 DEF Routed, TypeOK, server, history
  <2> QED BY <2>2, <2>3 DEF close
<1> QED BY <1>1, <1>4, <1>5, LossRouted DEF server, history

(* A websocket that opens greets; one that fails keeps quiet.              *)
LEMMA SocketRouted ==
  ASSUME Routed, NEW c \in Conns,
         Opens(c) \/ Unreachable(c) \/ Breaks(c) \/ Lost(c) \/ Closes(c)
  PROVE  Routed'
<1>1. /\ client \in Client /\ down \in [Conns -> Seq(DownFrame)]
      /\ UNCHANGED <<up, server, history>>
  BY DEF Routed, TypeOK, Opens, Unreachable, Breaks, Lost, Closes
<1>2. Loses(client, client')
  <2>1. CASE Opens(c) \/ Lost(c)
    BY <1>1, <2>1, LosesNothing DEF Opens, Lost
  <2>2. CASE Unreachable(c)
    <3>1. Loses(client, OnError(client, c)) /\ OnError(client, c) \in Client
      BY <1>1, LosesOnError DEF Loses
    <3> QED BY <1>1, <2>2, <3>1, LosesOnClose, LosesTwice DEF Unreachable
  <2>3. CASE Breaks(c)
    BY <1>1, <2>3, LosesOnError DEF Breaks
  <2>4. CASE Closes(c)
    <3> DEFINE d == IF c \in erring THEN OnError(client, c) ELSE client
               n == OnClose(d, c)
    <3>1. Loses(client, d) /\ d \in Client
      BY <1>1, LosesOnError, LosesNothing DEF Loses
    <3>2. client' \in {n, [n EXCEPT !.ready = FALSE, !.connectPromise = None]}
      BY <2>4 DEF Closes
    <3> HIDE DEF d
    <3>3. Loses(client, n) /\ n \in Client
      <4>1. Loses(d, n)
        BY <3>1, LosesOnClose
      <4> QED BY <1>1, <3>1, <4>1, LosesTwice DEF Loses
    <3> HIDE DEF n
    <3> QED BY <1>1, <3>2, <3>3, LosesReady, LosesTwice
  <2> QED BY <2>1, <2>2, <2>3, <2>4
<1>3. /\ down' \in [Conns -> Seq(DownFrame)]
      /\ \A d \in Conns : down'[d] \in {down[d], <<>>, <<[type |-> "ready"]>>}
  <2>1. <<[type |-> "ready"]>> \in Seq(DownFrame)
    <3>1. [type |-> "ready"] \in DownFrame
      BY DEF DownFrame
    <3> QED BY <3>1
  <2>2. \/ down' = down \/ down' = [down EXCEPT ![c] = <<>>]
        \/ down' = [down EXCEPT ![c] = <<[type |-> "ready"]>>]
    BY DEF Opens, Unreachable, Breaks, Lost, Closes
  <2>3. CASE down' = down
    BY <1>1, <2>3
  <2>4. CASE down' = [down EXCEPT ![c] = <<>>]
    BY <1>1, <2>4
  <2>5. CASE down' = [down EXCEPT ![c] = <<[type |-> "ready"]>>]
    <3> DEFINE hello == <<[type |-> "ready"]>>
    <3>1. hello \in Seq(DownFrame) /\ down' = [down EXCEPT ![c] = hello]
      BY <2>1, <2>5
    <3> HIDE DEF hello
    <3>2. down' \in [Conns -> Seq(DownFrame)] /\ \A d \in Conns : down'[d] \in {down[d], hello}
      BY <1>1, <3>1
    <3> QED BY <3>2 DEF hello
  <2> QED BY <2>2, <2>3, <2>4, <2>5
<1>4. TypeOK'
  <2>1. client' \in Client
    BY <1>2 DEF Loses
  <2> QED BY <1>1, <1>3, <2>1 DEF Opens, Unreachable, Breaks, Lost, Closes, Routed, TypeOK,
          server, history
<1>5. ASSUME NEW d \in Conns, NEW k \in 1 .. Len(down'[d])
      PROVE  \/ \E j \in 1 .. Len(down[d]) : down'[d][k] = down[d][j]
             \/ down'[d][k].type # "answer"
  <2>1. CASE down'[d] = <<[type |-> "ready"]>>
    <3>1. k = 1 /\ down'[d][k] = [type |-> "ready"]
      BY <1>5, <2>1
    <3> QED BY <3>1
  <2>2. CASE down'[d] = down[d] \/ down'[d] = <<>>
    BY <1>5, <2>2
  <2> QED BY <1>3, <2>1, <2>2
<1> QED BY <1>1, <1>2, <1>4, <1>5, LossRouted DEF server, history

(* A request given up loses what it waited for.                            *)
LEMMA requestTimeoutRouted ==
  ASSUME Routed, NEW id \in Ids, requestTimeout(id)
  PROVE  Routed'
<1> DEFINE n == client.pending[id]
           P == [client.pending EXCEPT ![id] = None]
           C == [client.call EXCEPT ![n] = "failed"]
<1>1. client \in Client /\ n \in Calls /\ IdsFresh
  BY DEF requestTimeout, Routed, TypeOK, Client
<1>2. client' = [client EXCEPT !.pending = P, !.call = C] /\ UNCHANGED <<wire, server, history>>
  BY DEF requestTimeout
<1>3. /\ P \in [Ids -> Calls \cup {None}]
      /\ C \in [Calls -> {"unmade", "refused", "waiting", "answered", "failed"}]
      /\ \A i \in Ids : P[i] = IF i = id THEN None ELSE client.pending[i]
      /\ \A k \in Calls : C[k] = IF k = n THEN "failed" ELSE client.call[k]
  BY <1>1 DEF Client
<1> HIDE DEF P, C
<1>4. /\ client' \in Client /\ client'.idCounter = client.idCounter
      /\ client'.pending = P /\ client'.call = C /\ client'.handlers = client.handlers
  BY <1>1, <1>2, <1>3 DEF Client
<1>5. TypeOK'
  BY <1>2, <1>4 DEF Routed, TypeOK, wire, server, history
<1>6. Loses(client, client')
  <2>1. \A i \in Ids : P[i] # n
    BY <1>1, <1>3, NoneIsNoCall DEF IdsFresh
  <2> QED BY <1>3, <1>4, <2>1 DEF Loses
<1> QED BY <1>2, <1>5, <1>6, LossRouted DEF wire, server, history

(* What a caller may ask, and what registering a handler leaves.           *)
LEMMA AsksFacts ==
  ASSUME Routed, NEW n \in Calls, NEW command \in Commands, Asks(n, command)
  PROVE  /\ Registering(client, command) \in Client
         /\ Registering(client, command).ws = client.ws
         /\ Registering(client, command).ready = client.ready
         /\ Registering(client, command).userClosed = client.userClosed
         /\ Registering(client, command).idCounter = client.idCounter
         /\ Registering(client, command).pending = client.pending
         /\ Registering(client, command).outcome = client.outcome
         /\ Registering(client, command).call = client.call
         /\ Registering(client, command).handlers = IF wanted' THEN 1 ELSE 0
         /\ wanted' \in BOOLEAN
         /\ NextId(client) \in Ids /\ NextId(client) <= n
         /\ \A k \in Calls : client.call[k] = "unmade" => k >= n
<1>1. client \in Client /\ client.handlers = IF wanted THEN 1 ELSE 0
  BY DEF Routed, TypeOK, Settled
<1>2. client.call[n] = "unmade" /\ \A k \in Calls : k < n => client.call[k] # "unmade"
  BY DEF Asks
<1>3. client.idCounter \in Nat /\ client.idCounter < n
  BY <1>1, <1>2, SocketAssumption DEF Routed, IdsFresh, Client
<1>4. NextId(client) \in Ids /\ NextId(client) <= n /\ \A k \in Calls : client.call[k] = "unmade" => k >= n
  BY <1>2, <1>3, SocketAssumption DEF NextId, Ids, Calls
<1>5. CASE command = "subscribe"
  <2>1. wanted' = TRUE /\ client.handlers = 0 /\ 1 \in 0 .. MaxCalls
    BY <1>1, <1>5, SocketAssumption DEF Asks
  <2>2. Registering(client, command) = [client EXCEPT !.handlers = 1]
    BY <1>5, <2>1 DEF Registering
  <2> QED BY <1>1, <1>4, <2>1, <2>2 DEF Client
<1>6. CASE command = "unsubscribe"
  <2>1. wanted' = FALSE /\ 0 \in 0 .. MaxCalls
    BY <1>6, SocketAssumption DEF Asks
  <2>2. Registering(client, command) = [client EXCEPT !.handlers = 0]
    BY <1>6 DEF Registering
  <2> QED BY <1>1, <1>4, <2>1, <2>2 DEF Client
<1>7. CASE command = "request"
  <2>1. wanted' = wanted /\ wanted \in BOOLEAN
    BY <1>7 DEF Asks, Routed, TypeOK
  <2>2. Registering(client, command) = client
    BY <1>7 DEF Registering
  <2> QED BY <1>1, <1>4, <2>1, <2>2
<1> QED BY <1>5, <1>6, <1>7 DEF Commands

(* A request that is sent gets an id of its own.                           *)
LEMMA emitRouted ==
  ASSUME Routed, NEW n \in Calls, NEW command \in Commands, emit(n, command)
  PROVE  Routed'
<1> USE DEF Routed
<1> DEFINE m  == Registering(client, command)
           id == NextId(client)
           P  == [client.pending EXCEPT ![id] = n]
           C  == [client.call EXCEPT ![n] = "waiting"]
           frame == [id |-> id, of |-> n, command |-> command]
<1>1. Asks(n, command) /\ connected
  BY DEF emit
<1>2. /\ m \in Client /\ m.idCounter = client.idCounter
      /\ m.pending = client.pending /\ m.call = client.call
      /\ m.handlers = IF wanted' THEN 1 ELSE 0
      /\ wanted' \in BOOLEAN /\ id \in Ids /\ id <= n
      /\ \A k \in Calls : client.call[k] = "unmade" => k >= n
  BY <1>1, AsksFacts
<1>3. NextId(m) = id
  BY <1>2 DEF NextId
<1>4. client' = [m EXCEPT !.idCounter = id, !.pending = P, !.call = C]
  BY <1>2, <1>3 DEF emit
<1>5. /\ client \in Client /\ client.call[n] = "unmade" /\ client.idCounter < id
      /\ client.idCounter \in Nat /\ client.ws \in Conns
  BY <1>1 DEF TypeOK, Asks, connected, Client, NextId, None
<1>6. P \in [Ids -> Calls \cup {None}]
      /\ C \in [Calls -> {"unmade", "refused", "waiting", "answered", "failed"}]
      /\ id \in 0 .. MaxCalls
  BY <1>2, <1>5 DEF Client, Ids
<1>7. /\ \A i \in Ids : P[i] = IF i = id THEN n ELSE client.pending[i]
      /\ \A k \in Calls : C[k] = IF k = n THEN "waiting" ELSE client.call[k]
  BY <1>5 DEF Client
<1>8. /\ up' = [up EXCEPT ![client.ws] = @ \cup {frame}]
      /\ via' = [via EXCEPT ![n] = client.ws]
      /\ UNCHANGED <<sock, erring, closing, down, server, wrong>>
  BY <1>2, <1>3 DEF emit
<1>9. frame \in UpFrame /\ frame.id = id /\ frame.of = n
  BY <1>2 DEF UpFrame
<1> HIDE DEF m, P, C, frame, id
<1>10. /\ client' \in Client /\ client'.idCounter = id
       /\ client'.pending = P /\ client'.call = C
       /\ client'.handlers = IF wanted' THEN 1 ELSE 0
  BY <1>2, <1>4, <1>6 DEF Client
<1>11. TypeOK'
  BY <1>2, <1>5, <1>8, <1>9, <1>10 DEF TypeOK, server
<1>12. Waiting'
  <2>1. ASSUME NEW i \in Ids, P[i] # None
        PROVE  C[P[i]] = "waiting" /\ i <= id
    <3>1. CASE i = id
      BY <1>2, <1>7, <3>1 DEF Ids
    <3>2. CASE i # id
      <4>1. client.pending[i] # None /\ P[i] = client.pending[i] /\ P[i] \in Calls
        BY <1>5, <1>7, <2>1, <3>2 DEF Client
      <4>2. client.call[P[i]] = "waiting" /\ i <= client.idCounter
        BY <4>1 DEF Waiting
      <4> QED BY <1>2, <1>5, <1>7, <4>1, <4>2 DEF Ids
    <3> QED BY <3>1, <3>2
  <2> QED BY <1>10, <2>1 DEF Waiting
<1>13. IdsFresh'
  <2>1. ASSUME NEW k \in Calls, C[k] = "unmade"
        PROVE  id < k
    BY <1>2, <1>7, <2>1 DEF Calls, Ids
  <2>2. ASSUME NEW i \in Ids
        PROVE  client.pending[i] # n
    BY <1>5, <2>2, NoneIsNoCall DEF Waiting
  <2> QED BY <1>7, <1>10, <2>1, <2>2 DEF IdsFresh
<1>14. FramesNamed'
  <2>1. ASSUME NEW i \in Ids, NEW k \in Calls, Names(i, k)
        PROVE  Names(i, k)'
    BY <1>2, <1>5, <1>7, <1>10, <2>1 DEF Names, Ids, Calls
  <2>2. ASSUME NEW i \in Ids, i = id
        PROVE  Names(i, n)'
    BY <1>2, <1>7, <1>10, <2>2 DEF Names, Ids
  <2>3. ASSUME NEW c \in Conns, NEW f \in UpFrame, f \in up'[c]
        PROVE  f \in up[c] \/ Names(f.id, f.of)'
    <3>1. f \in up[c] \/ f = frame
      BY <1>8, <2>3 DEF TypeOK
    <3> QED BY <1>2, <1>9, <2>2, <3>1
  <2>4. down' = down /\ done' = done
    BY <1>8 DEF server
  <2> QED BY <1>11, <2>1, <2>3, <2>4, FramesKept DEF TypeOK
<1>15. Settled'
  BY <1>7, <1>8, <1>10 DEF Settled, server
<1> QED BY <1>11, <1>12, <1>13, <1>14, <1>15

(* A request that is refused waits for nothing, though its id may be spent.*)
LEMMA emitRefusedRouted ==
  ASSUME Routed, NEW n \in Calls, NEW command \in Commands, emitRefused(n, command)
  PROVE  Routed'
<1> USE DEF Routed
<1> DEFINE m  == Registering(client, command)
           id == IF connected THEN NextId(client) ELSE client.idCounter
           C  == [client.call EXCEPT ![n] = "refused"]
<1>1. Asks(n, command)
  BY DEF emitRefused
<1>2. /\ m \in Client /\ m.idCounter = client.idCounter
      /\ m.pending = client.pending /\ m.call = client.call
      /\ m.handlers = IF wanted' THEN 1 ELSE 0
      /\ wanted' \in BOOLEAN /\ NextId(client) \in Ids /\ NextId(client) <= n
      /\ \A k \in Calls : client.call[k] = "unmade" => k >= n
  BY <1>1, AsksFacts
<1>3. /\ client \in Client /\ client.call[n] = "unmade" /\ client.idCounter < n
      /\ client.idCounter \in 0 .. MaxCalls
  BY <1>1 DEF TypeOK, Asks, Client, IdsFresh
<1>4. /\ id \in 0 .. MaxCalls /\ id <= n /\ client.idCounter <= id
  BY <1>2, <1>3, SocketAssumption DEF Ids, NextId, Calls
<1>5. C \in [Calls -> {"unmade", "refused", "waiting", "answered", "failed"}]
  BY <1>3 DEF Client
<1>6. \A k \in Calls : C[k] = IF k = n THEN "refused" ELSE client.call[k]
  BY <1>3 DEF Client
<1>7. client' = [m EXCEPT !.idCounter = id, !.call = C]
  <2> DEFINE r == [m EXCEPT !.call[n] = "refused"]
  <2>1. r = [m EXCEPT !.call = C]
    BY <1>2
  <2> HIDE DEF C
  <2>2. NextId(r) = NextId(client)
    BY <1>2, <2>1 DEF NextId, Client
  <2>3. client' = IF connected THEN [r EXCEPT !.idCounter = NextId(r)] ELSE r
    BY DEF emitRefused
  <2> HIDE DEF r
  <2>4. CASE connected
    BY <2>1, <2>2, <2>3, <2>4 DEF Client
  <2>5. CASE ~connected
    <3>1. client' = [m EXCEPT !.call = C]
      BY <2>1, <2>3, <2>5
    <3> QED BY <1>2, <2>5, <3>1 DEF Client
  <2> QED BY <2>4, <2>5
<1>8. UNCHANGED <<wire, server, via, wrong>>
  BY DEF emitRefused
<1> HIDE DEF m, C, id
<1>9. /\ client' \in Client /\ client'.idCounter = id
      /\ client'.pending = client.pending
      /\ client'.call = C /\ client'.handlers = IF wanted' THEN 1 ELSE 0
  BY <1>2, <1>4, <1>5, <1>7 DEF Client
<1>10. TypeOK'
  BY <1>2, <1>8, <1>9 DEF TypeOK, wire, server
<1>11. Waiting'
  <2>1. ASSUME NEW i \in Ids, client.pending[i] # None
        PROVE  C[client.pending[i]] = "waiting" /\ i <= id
    <3>1. client.pending[i] \in Calls
      BY <1>3, <2>1 DEF Client
    <3>2. client.call[client.pending[i]] = "waiting" /\ i <= client.idCounter
      BY <2>1 DEF Waiting
    <3> QED BY <1>3, <1>4, <1>6, <3>1, <3>2 DEF Ids
  <2> QED BY <1>9, <2>1 DEF Waiting
<1>12. IdsFresh'
  <2>1. ASSUME NEW k \in Calls, C[k] = "unmade"
        PROVE  id < k
    BY <1>2, <1>4, <1>6, <2>1 DEF Calls
  <2> QED BY <1>9, <2>1 DEF IdsFresh
<1>13. FramesNamed'
  <2>1. ASSUME NEW i \in Ids, NEW k \in Calls, Names(i, k)
        PROVE  Names(i, k)'
    BY <1>3, <1>4, <1>6, <1>9, <2>1 DEF Names, Ids
  <2>2. up' = up /\ down' = down /\ done' = done
    BY <1>8 DEF wire, server
  <2> QED BY <1>10, <2>1, <2>2, FramesKept DEF TypeOK
<1>14. Settled'
  BY <1>6, <1>8, <1>9 DEF Settled, server
<1> QED BY <1>10, <1>11, <1>12, <1>13, <1>14

(* What a frame read leaves of those still to be read.                     *)
LEMMA TailFacts ==
  ASSUME NEW s \in Seq(DownFrame), s # <<>>
  PROVE  /\ Tail(s) \in Seq(DownFrame) /\ Head(s) \in DownFrame
         /\ Head(s) = s[1] /\ 1 \in 1 .. Len(s)
         /\ \A k \in 1 .. Len(Tail(s)) : k + 1 \in 1 .. Len(s) /\ Tail(s)[k] = s[k + 1]
OBVIOUS

(* What a frame sent adds to those on their way.                            *)
LEMMA AppendFacts ==
  ASSUME NEW s \in Seq(DownFrame), NEW f \in DownFrame
  PROVE  /\ Append(s, f) \in Seq(DownFrame)
         /\ \A k \in 1 .. Len(Append(s, f)) :
              \/ k \in 1 .. Len(s) /\ Append(s, f)[k] = s[k]
              \/ Append(s, f)[k] = f
OBVIOUS

(* The frame the server says is ready: what it does to the client.         *)
LEMMA OnReadyFacts ==
  ASSUME client \in Client, NEW c \in Conns, client.outcome[c] = "pending"
  PROVE  /\ OnReady(client, c) \in Client /\ OnReady(client, c).ws = client.ws
         /\ OnReady(client, c).ready /\ OnReady(client, c).userClosed = client.userClosed
         /\ OnReady(client, c).idCounter = client.idCounter
         /\ OnReady(client, c).pending = client.pending
         /\ OnReady(client, c).call = client.call
         /\ OnReady(client, c).handlers = client.handlers
         /\ OnReady(client, c).outcome = [client.outcome EXCEPT ![c] = "resolved"]
<1> DEFINE O == [client.outcome EXCEPT ![c] = "resolved"]
<1>1. O \in [Conns -> {"none", "pending", "resolved", "rejected"}]
  BY DEF Client
<1>2. OnReady(client, c) = [client EXCEPT !.ready = TRUE, !.outcome = O]
  BY DEF OnReady
<1> HIDE DEF O
<1>3. OnReady(client, c) \in Client /\ OnReady(client, c).outcome = O
  BY <1>1, <1>2 DEF Client
<1> QED BY <1>2, <1>3 DEF Client, O

(* What an answer does to the tables.                                       *)
LEMMA handleCallbackFacts ==
  ASSUME NEW m \in Client, NEW id \in Ids, m.pending[id] # None
  PROVE  /\ handleCallback(m, id) \in Client /\ handleCallback(m, id).ws = m.ws
         /\ handleCallback(m, id).ready = m.ready
         /\ handleCallback(m, id).userClosed = m.userClosed
         /\ handleCallback(m, id).idCounter = m.idCounter
         /\ handleCallback(m, id).outcome = m.outcome
         /\ handleCallback(m, id).handlers = m.handlers
         /\ handleCallback(m, id).pending = [m.pending EXCEPT ![id] = None]
         /\ handleCallback(m, id).call = [m.call EXCEPT ![m.pending[id]] = "answered"]
<1> DEFINE P == [m.pending EXCEPT ![id] = None]
           C == [m.call EXCEPT ![m.pending[id]] = "answered"]
<1>1. /\ P \in [Ids -> Calls \cup {None}]
      /\ C \in [Calls -> {"unmade", "refused", "waiting", "answered", "failed"}]
  BY DEF Client
<1>2. handleCallback(m, id) = [m EXCEPT !.pending = P, !.call = C]
  BY DEF handleCallback
<1> HIDE DEF P, C
<1>3. /\ handleCallback(m, id) \in Client
      /\ handleCallback(m, id).pending = P /\ handleCallback(m, id).call = C
  BY <1>1, <1>2 DEF Client
<1> QED BY <1>2, <1>3 DEF Client, P, C

(* A frame that is read settles the request it names, if any.              *)
LEMMA MessageRouted ==
  ASSUME Routed, NEW c \in Conns, Message(c)
  PROVE  Routed'
<1> USE DEF Routed
<1> DEFINE frame == Head(down[c])
<1>1. /\ down[c] # <<>> /\ down[c] \in Seq(DownFrame)
      /\ down' = [down EXCEPT ![c] = Tail(down[c])]
      /\ UNCHANGED <<sock, erring, closing, up, server, via, wanted>>
      /\ client \in Client
  BY DEF Message, TypeOK
<1>2. /\ down' \in [Conns -> Seq(DownFrame)] /\ frame \in DownFrame
      /\ frame = down[c][1] /\ 1 \in 1 .. Len(down[c])
  BY <1>1, TailFacts DEF TypeOK
<1>3. ASSUME NEW d \in Conns, NEW k \in 1 .. Len(down'[d])
      PROVE  \E j \in 1 .. Len(down[d]) : down'[d][k] = down[d][j]
  <2>1. CASE d = c
    <3>1. down'[d] = Tail(down[c])
      BY <1>1, <2>1 DEF TypeOK
    <3>2. k + 1 \in 1 .. Len(down[c]) /\ down'[d][k] = down[c][k + 1]
      BY <1>1, <1>3, <3>1, TailFacts
    <3> QED BY <2>1, <3>2
  <2>2. CASE d # c
    BY <1>1, <1>3, <2>2 DEF TypeOK
  <2> QED BY <2>1, <2>2
<1>4. CASE Loses(client, client') /\ wrong' = wrong
  <2>1. TypeOK'
    BY <1>1, <1>2, <1>4 DEF TypeOK, Loses, server
  <2> QED BY <1>1, <1>3, <1>4, <2>1, LossRouted DEF server
<1>5. CASE frame.type = "ready" /\ client' = OnReady(client, c) /\ wrong' = wrong
  <2>1. Loses(client, client')
    <3>1. CASE client.outcome[c] = "pending"
      BY <1>1, <1>5, <3>1, OnReadyFacts, LosesNothing
    <3>2. CASE client.outcome[c] # "pending"
      BY <1>1, <1>5, <3>2, LosesNothing DEF OnReady
    <3> QED BY <3>1, <3>2
  <2> QED BY <1>4, <1>5, <2>1
<1>6. CASE /\ frame.type = "change" /\ client' = client
           /\ wrong' = IF listening(client) \/ ~wanted THEN wrong ELSE wrong \cup {"change"}
  <2>1. listening(client) \/ ~wanted
    BY DEF listening, Settled
  <2> QED BY <1>1, <1>4, <1>6, <2>1, LosesNothing
<1>7. CASE /\ frame.type = "answer" /\ client' = handleCallback(client, frame.id)
           /\ wrong' = IF client.pending[frame.id] \in {None, frame.of}
                       THEN wrong ELSE wrong \cup {"answer"}
  <2> DEFINE id == frame.id
             n  == frame.of
  <2>1. id \in Ids /\ n \in Calls
    BY <1>2, <1>7 DEF DownFrame
  <2>2. client.pending[id] \in {None, n} /\ n \in done
    BY <1>2, <1>7 DEF FramesNamed, Names
  <2>3. wrong' = wrong
    BY <1>7, <2>2
  <2>4. CASE client.pending[id] = None
    BY <1>1, <1>4, <1>7, <2>3, <2>4, LosesNothing DEF handleCallback
  <2>5. CASE client.pending[id] # None
    <3> HIDE DEF id, n
    <3>0. client.pending[id] = n
      BY <2>2, <2>5
    <3> DEFINE P == [client.pending EXCEPT ![id] = None]
               C == [client.call EXCEPT ![n] = "answered"]
    <3>1. /\ client' \in Client /\ client'.idCounter = client.idCounter
          /\ client'.pending = P /\ client'.call = C
          /\ client'.handlers = client.handlers
      BY <1>1, <1>7, <2>1, <2>5, <3>0, handleCallbackFacts DEF id
    <3>2. /\ \A i \in Ids : P[i] = IF i = id THEN None ELSE client.pending[i]
          /\ \A k \in Calls : C[k] = IF k = n THEN "answered" ELSE client.call[k]
      BY <1>1, <2>1 DEF Client
    <3> HIDE DEF P, C
    <3>3. TypeOK'
      BY <1>1, <1>2, <2>3, <3>1 DEF TypeOK, server
    <3>4. Waiting'
      <4>1. ASSUME NEW i \in Ids, P[i] # None
            PROVE  P[i] = client.pending[i] /\ C[P[i]] = "waiting"
        <5>1. i # id /\ P[i] = client.pending[i]
          BY <3>2, <4>1
        <5>2. client.pending[i] # n /\ client.pending[i] \in Calls
          BY <1>1, <2>1, <2>5, <3>0, <4>1, <5>1 DEF IdsFresh, Client
        <5> QED BY <3>2, <4>1, <5>1, <5>2 DEF Waiting
      <4> QED BY <3>1, <3>2, <4>1 DEF Waiting
    <3>5. IdsFresh'
      BY <2>1, <3>1, <3>2 DEF IdsFresh
    <3>6. ASSUME NEW i \in Ids, NEW k \in Calls, Names(i, k)
          PROVE  Names(i, k)'
      BY <3>1, <3>2, <3>6 DEF Names
    <3>7. FramesNamed'
      <4>1. up' = up /\ done' = done
        BY <1>1 DEF server
      <4> QED BY <1>3, <3>6, <4>1, FramesKept DEF TypeOK
    <3>8. Settled'
      <4>1. \A k \in Calls : C[k] = "answered" => k \in done
        BY <2>2, <3>2 DEF Settled, n
      <4> QED BY <1>1, <2>3, <3>1, <4>1 DEF Settled, server
    <3> QED BY <3>3, <3>4, <3>5, <3>7, <3>8
  <2> QED BY <2>4, <2>5
<1> QED BY <1>5, <1>6, <1>7 DEF Message

(* A frame put on its way to the client, wherever it is from.              *)
LEMMA FrameSent ==
  ASSUME TypeOK, NEW c \in Conns, NEW f \in DownFrame, down' = Sent(c, f)
  PROVE  /\ down' \in [Conns -> Seq(DownFrame)]
         /\ \A d \in Conns : \A k \in 1 .. Len(down'[d]) :
              \/ \E j \in 1 .. Len(down[d]) : down'[d][k] = down[d][j]
              \/ down'[d][k] = f
<1>1. down \in [Conns -> Seq(DownFrame)] /\ down[c] \in Seq(DownFrame)
  BY DEF TypeOK
<1>2. CASE down' = down
  BY <1>1, <1>2
<1>3. CASE down' = [down EXCEPT ![c] = Append(down[c], f)]
  <2>1. down' \in [Conns -> Seq(DownFrame)]
    BY <1>1, <1>3, AppendFacts
  <2>2. ASSUME NEW d \in Conns, NEW k \in 1 .. Len(down'[d])
        PROVE  \/ \E j \in 1 .. Len(down[d]) : down'[d][k] = down[d][j]
               \/ down'[d][k] = f
    <3>1. CASE d = c
      <4>1. down'[d] = Append(down[c], f)
        BY <1>1, <1>3, <3>1
      <4> QED BY <1>1, <2>2, <3>1, <4>1, AppendFacts
    <3>2. CASE d # c
      BY <1>1, <1>3, <2>2, <3>2
    <3> QED BY <3>1, <3>2
  <2> QED BY <2>1, <2>2
<1> QED BY <1>2, <1>3 DEF Sent

(* The answer to a request carried out names it.                           *)
LEMMA ServesRouted ==
  ASSUME Routed, NEW c \in Conns, NEW frame \in up[c], Serves(c, frame)
  PROVE  Routed'
<1> USE DEF Routed
<1> DEFINE f == [type |-> "answer", id |-> frame.id, of |-> frame.of]
<1>1. /\ up' = [up EXCEPT ![c] = @ \ {frame}] /\ done' = done \cup {frame.of}
      /\ down' = Sent(c, f)
      /\ UNCHANGED <<client, sock, erring, closing, changes, history>>
      /\ subscribed' \in {subscribed \cup {c}, subscribed \ {c}, subscribed}
  BY DEF Serves
<1>2. frame \in UpFrame /\ frame.id \in Ids /\ frame.of \in Calls
  BY DEF TypeOK, UpFrame
<1>3. /\ f \in DownFrame /\ f.type = "answer" /\ f.id = frame.id /\ f.of = frame.of
  BY <1>2 DEF DownFrame
<1> HIDE DEF f
<1>4. /\ down' \in [Conns -> Seq(DownFrame)]
      /\ \A d \in Conns : \A k \in 1 .. Len(down'[d]) :
           \/ \E j \in 1 .. Len(down[d]) : down'[d][k] = down[d][j]
           \/ down'[d][k] = f
  BY <1>1, <1>3, FrameSent
<1>5. up' \in [Conns -> SUBSET UpFrame] /\ \A d \in Conns : up'[d] \subseteq up[d]
  BY <1>1 DEF TypeOK
<1>6. TypeOK'
  BY <1>1, <1>2, <1>4, <1>5 DEF TypeOK, history
<1>7. Waiting' /\ IdsFresh' /\ Settled'
  BY <1>1 DEF Waiting, IdsFresh, Settled, history
<1>8. FramesNamed'
  <2>1. ASSUME NEW i \in Ids, NEW k \in Calls, Names(i, k)
        PROVE  Names(i, k)'
    BY <1>1, <2>1 DEF Names
  <2>2. ASSUME NEW d \in Conns, NEW k \in 1 .. Len(down'[d]), down'[d][k] = f
        PROVE  (Names(down[d][k].id, down[d][k].of) /\ down[d][k].of \in done)'
    <3>1. Names(frame.id, frame.of)
      BY DEF FramesNamed
    <3> QED BY <1>1, <1>2, <1>3, <2>1, <2>2, <3>1 DEF Names
  <2>3. done \subseteq done'
    BY <1>1
  <2>4. \A d \in Conns, g \in UpFrame : g \in up'[d] => g \in up[d]
    BY <1>5
  <2>5. \A d \in Conns : \A k \in 1 .. Len(down'[d]) :
          \/ \E j \in 1 .. Len(down[d]) : down'[d][k] = down[d][j]
          \/ (down[d][k].type = "answer"
                => Names(down[d][k].id, down[d][k].of) /\ down[d][k].of \in done)'
    BY <1>4, <2>2
  <2> QED BY <1>5, <2>1, <2>3, <2>4, <2>5, FramesKept
<1> QED BY <1>6, <1>7, <1>8

(* A change sent answers nobody.                                           *)
LEMMA ChangesRouted ==
  ASSUME Routed, NEW c \in Conns, Changes(c)
  PROVE  Routed'
<1> DEFINE f == [type |-> "change"]
<1>1. /\ down' = Sent(c, f) /\ TypeOK /\ client \in Client
      /\ changes < MaxChanges /\ changes' = changes + 1
      /\ UNCHANGED <<client, sock, erring, closing, up, subscribed, done, history>>
  BY DEF Changes, Routed, TypeOK
<1>2. f \in DownFrame /\ f.type # "answer"
  BY DEF DownFrame
<1> HIDE DEF f
<1>3. /\ down' \in [Conns -> Seq(DownFrame)]
      /\ \A d \in Conns : \A k \in 1 .. Len(down'[d]) :
           \/ \E j \in 1 .. Len(down[d]) : down'[d][k] = down[d][j]
           \/ down'[d][k].type # "answer"
  BY <1>1, <1>2, FrameSent
<1>4. TypeOK'
  <2>1. changes' \in 0 .. MaxChanges
    BY <1>1, SocketAssumption DEF TypeOK
  <2> QED BY <1>1, <1>3, <2>1 DEF TypeOK, history
<1> QED BY <1>1, <1>3, <1>4, LosesNothing, LossRouted DEF history

(* Nothing is on its way at first.                                         *)
LEMMA RoutedInit == Init => Routed
<1> SUFFICES ASSUME Init PROVE Routed
  OBVIOUS
<1>1. TypeOK
  <2> DEFINE P == [i \in Ids |-> None]
             O == [c \in Conns |-> "none"]
             C == [n \in Calls |-> "unmade"]
  <2>1. /\ P \in [Ids -> Calls \cup {None}]
        /\ O \in [Conns -> {"none", "pending", "resolved", "rejected"}]
        /\ C \in [Calls -> {"unmade", "refused", "waiting", "answered", "failed"}]
    OBVIOUS
  <2>2. client = [ws |-> None, ready |-> FALSE, connectPromise |-> None,
                  userClosed |-> FALSE, idCounter |-> 0, pending |-> P,
                  outcome |-> O, call |-> C, handlers |-> 0]
    BY DEF Init
  <2> HIDE DEF P, O, C
  <2>3. 0 \in 0 .. MaxCalls /\ 0 \in 0 .. MaxChanges
    BY SocketAssumption
  <2>4. client \in Client
    BY <2>1, <2>2, <2>3 DEF Client
  <2>5. /\ sock \in [Conns -> {"none", "connecting", "open", "closing", "closed"}]
        /\ up \in [Conns -> SUBSET UpFrame]
        /\ down \in [Conns -> Seq(DownFrame)]
        /\ via \in [Calls -> Conns \cup {None}]
    BY DEF Init
  <2> QED BY <2>3, <2>4, <2>5 DEF Init, TypeOK
<1>2. Waiting /\ IdsFresh /\ Settled
  BY SocketAssumption DEF Init, Waiting, IdsFresh, Settled, None, Calls, Ids
<1>3. FramesNamed
  BY DEF Init, FramesNamed
<1> QED BY <1>1, <1>2, <1>3 DEF Routed

(* Every step keeps requests and answers together, whoever connects when.  *)
LEMMA RoutedNext ==
  ASSUME Routed, [Next]_vars
  PROVE  Routed'
<1>1. CASE UNCHANGED vars
  BY <1>1 DEF Routed, TypeOK, Waiting, IdsFresh, FramesNamed, Names, Settled, vars, wire,
              server, history
<1>2. CASE Next
  <2>1. CASE close
    BY <2>1, closeRouted
  <2>2. ASSUME NEW n \in Calls, NEW command \in Commands,
               emit(n, command) \/ emitRefused(n, command)
        PROVE  Routed'
    BY <2>2, emitRouted, emitRefusedRouted
  <2>3. ASSUME NEW id \in Ids, requestTimeout(id)
        PROVE  Routed'
    BY <2>3, requestTimeoutRouted
  <2>4. ASSUME NEW c \in Conns, connect(c) \/ connectTimeout(c) \/ Message(c) \/ Changes(c)
        PROVE  Routed'
    BY <2>4, CallRouted, MessageRouted, ChangesRouted
  <2>5. ASSUME NEW c \in Conns,
               Opens(c) \/ Unreachable(c) \/ Breaks(c) \/ Lost(c) \/ Closes(c)
        PROVE  Routed'
    BY <2>5, SocketRouted
  <2>6. ASSUME NEW c \in Conns, NEW frame \in up[c], Serves(c, frame)
        PROVE  Routed'
    BY <2>6, ServesRouted
  <2> QED BY <1>2, <2>1, <2>2, <2>3, <2>4, <2>5, <2>6 DEF Next
<1> QED BY <1>1, <1>2

LEMMA RoutedInvariant == Spec => []Routed
BY RoutedInit, RoutedNext, PTL DEF Spec

(* The state of the client is what socket.ts declares it to be, whenever   *)
(* its methods are called.                                                 *)
THEOREM SocketTypeOK == Spec => []TypeOK
<1>1. Routed => TypeOK
  BY DEF Routed
<1> QED BY <1>1, RoutedInvariant, PTL

(* An answer settles the request it answers, and a change finds the handler *)
(* of its subscription, even if the caller connects anew while an earlier   *)
(* websocket still lives and both deliver to the one table of requests.     *)
THEOREM NothingGoesAstray == Spec => []NothingMisdirected
<1>1. Routed => NothingMisdirected
  BY DEF Routed, Settled, NothingMisdirected
<1> QED BY <1>1, RoutedInvariant, PTL

-----------------------------------------------------------------------------
(* What a drop leaves *)

(* With nothing pending there is nothing to fail.                          *)
LEMMA FailNothing ==
  ASSUME NEW m \in Client, \A i \in Ids : m.pending[i] = None
  PROVE  /\ m.pending = [i \in Ids |-> None]
         /\ failAll(m).call = m.call
<1>1. m.pending \in [Ids -> Calls \cup {None}] /\ DOMAIN m.call = Calls
      /\ m.call = [n \in Calls |-> m.call[n]]
  BY DEF Client
<1>2. None \notin Calls
  BY SocketAssumption DEF None, Calls
<1>3. m.pending = [i \in Ids |-> m.pending[i]]
  BY <1>1
<1>4. \A n \in Calls : ~ \E i \in Ids : m.pending[i] = n
  BY <1>2
<1>5. m.pending = [i \in Ids |-> None]
  BY <1>3
<1>6. failAll(m).call = [n \in Calls |-> m.call[n]]
  BY <1>4, FailAllFacts
<1> QED BY <1>1, <1>5, <1>6

(* Which requests fail depends on what is pending alone.                   *)
LEMMA SameFailures ==
  ASSUME NEW m \in Client, NEW d \in Client, d.pending = m.pending, d.call = m.call
  PROVE  failAll(d).call = failAll(m).call
<1> DEFINE Fails(p, k) == [n \in Calls |-> IF \E i \in Ids : p[i] = n
                                           THEN "failed" ELSE k[n]]
<1>1. failAll(d).call = Fails(d.pending, d.call)
  BY FailAllFacts
<1>2. failAll(m).call = Fails(m.pending, m.call)
  BY FailAllFacts
<1> HIDE DEF Fails
<1> QED BY <1>1, <1>2

(* The error listener fails what waits and takes `ready` away.              *)
LEMMA OnErrorFacts ==
  ASSUME NEW m \in Client, NEW c \in Conns,
         m.outcome[c] = "pending" => ~m.ready /\ \A i \in Ids : m.pending[i] = None
  PROVE  /\ OnError(m, c) \in Client
         /\ OnError(m, c).pending = [i \in Ids |-> None]
         /\ OnError(m, c).call = failAll(m).call
         /\ ~OnError(m, c).ready
         /\ OnError(m, c).ws = m.ws /\ OnError(m, c).userClosed = m.userClosed
         /\ OnError(m, c).idCounter = m.idCounter /\ OnError(m, c).handlers = m.handlers
         /\ OnError(m, c).outcome = IF m.outcome[c] = "pending"
                                    THEN [m.outcome EXCEPT ![c] = "rejected"]
                                    ELSE m.outcome
<1>1. CASE m.outcome[c] = "pending"
  <2>1. OnError(m, c) = Rejected(m, c)
    BY <1>1 DEF OnError
  <2>2. m.pending = [i \in Ids |-> None] /\ failAll(m).call = m.call /\ ~m.ready
    BY <1>1, FailNothing
  <2> QED BY <1>1, <2>1, <2>2, RejectedFacts
<1>2. CASE m.outcome[c] # "pending"
  <2> DEFINE d == [m EXCEPT !.ready = FALSE, !.connectPromise = None]
  <2>1. OnError(m, c) = failAll(d)
    BY <1>2 DEF OnError
  <2>2. /\ d \in Client /\ ~d.ready /\ d.ws = m.ws /\ d.userClosed = m.userClosed
        /\ d.idCounter = m.idCounter /\ d.handlers = m.handlers
        /\ d.outcome = m.outcome /\ d.pending = m.pending /\ d.call = m.call
    BY DEF Client, None
  <2> HIDE DEF d
  <2>3. failAll(d).call = failAll(m).call
    BY <2>2, SameFailures
  <2>4. /\ failAll(d) \in Client /\ failAll(d).pending = [i \in Ids |-> None]
        /\ failAll(d).ws = d.ws /\ failAll(d).ready = d.ready
        /\ failAll(d).idCounter = d.idCounter /\ failAll(d).handlers = d.handlers
        /\ failAll(d).outcome = d.outcome /\ failAll(d).userClosed = d.userClosed
    BY <2>2, FailAllFacts
  <2> QED BY <1>2, <2>1, <2>2, <2>3, <2>4
<1> QED BY <1>1, <1>2

(* So does the close listener, if what it spares has nothing waiting.       *)
LEMMA OnCloseFacts ==
  ASSUME NEW m \in Client, NEW c \in Conns,
         m.outcome[c] = "pending" \/ m.userClosed => \A i \in Ids : m.pending[i] = None
  PROVE  /\ OnClose(m, c) \in Client
         /\ OnClose(m, c).pending = [i \in Ids |-> None]
         /\ OnClose(m, c).call = failAll(m).call
         /\ ~OnClose(m, c).ready
         /\ OnClose(m, c).ws = m.ws /\ OnClose(m, c).userClosed = m.userClosed
         /\ OnClose(m, c).idCounter = m.idCounter /\ OnClose(m, c).handlers = m.handlers
         /\ OnClose(m, c).outcome = IF m.outcome[c] = "pending"
                                    THEN [m.outcome EXCEPT ![c] = "rejected"]
                                    ELSE m.outcome
<1> DEFINE d == [m EXCEPT !.ready = FALSE, !.connectPromise = None]
<1>1. /\ d \in Client /\ ~d.ready /\ d.ws = m.ws /\ d.userClosed = m.userClosed
      /\ d.idCounter = m.idCounter /\ d.handlers = m.handlers
      /\ d.outcome = m.outcome /\ d.pending = m.pending /\ d.call = m.call
  BY DEF Client, None
<1>2. OnClose(m, c) = IF m.outcome[c] = "pending" THEN Rejected(d, c)
                      ELSE IF m.userClosed THEN d ELSE failAll(d)
  BY DEF OnClose
<1>3. m.outcome[c] = "pending" \/ m.userClosed
        => m.pending = [i \in Ids |-> None] /\ failAll(m).call = m.call
  BY FailNothing
<1> HIDE DEF d
<1>4. CASE m.outcome[c] = "pending"
  BY <1>1, <1>2, <1>3, <1>4, RejectedFacts
<1>5. CASE m.outcome[c] # "pending" /\ m.userClosed
  BY <1>1, <1>2, <1>3, <1>5
<1>6. CASE m.outcome[c] # "pending" /\ ~m.userClosed
  <2>1. OnClose(m, c) = failAll(d)
    BY <1>2, <1>6
  <2>2. failAll(d).call = failAll(m).call
    BY <1>1, SameFailures
  <2> QED BY <1>1, <1>6, <2>1, <2>2, FailAllFacts
<1> QED BY <1>4, <1>5, <1>6

-----------------------------------------------------------------------------
(* A step that takes the live websocket down, or gives up what waits: the  *)
(* caller's close(), the connect timeout, an error, the 'close' itself.    *)

Drops(c, s) ==
  /\ sock[c] \in Alive
  /\ s \in {"closing", "closed"}
  /\ sock' = [sock EXCEPT ![c] = s]
  /\ client' \in Client
  /\ client'.ws = client.ws
  /\ client'.idCounter = client.idCounter
  /\ client'.handlers = client.handlers
  /\ client'.pending = [i \in Ids |-> None]
  /\ client'.call = failAll(client).call
  /\ \/ client'.outcome = client.outcome
     \/ /\ client.outcome[c] = "pending"
        /\ client'.outcome = [client.outcome EXCEPT ![c] = "rejected"]
  /\ client'.ready => client.ready
  /\ s = "closed" => client'.outcome[c] # "pending" /\ ~client'.ready
  /\ up' = up
  /\ down' \in [Conns -> Seq(DownFrame)]
  /\ \A d \in Conns : down'[d] \in {down[d], <<>>}
  /\ erring' \subseteq Conns
  /\ closing' \subseteq Conns
  /\ UNCHANGED <<server, history>>

(* While nothing was ever ready nothing waits.                             *)
LEMMA PendingMeansReady ==
  ASSUME IInv, NEW c \in Conns, sock[c] \in Alive,
         client.outcome[c] = "pending" \/ client.userClosed
  PROVE  \A i \in Ids : client.pending[i] = None
BY DEF IInv, Linked, OneAlive, PendingAlive

(* While a connection is being set up nothing is ready and nothing waits.   *)
LEMMA PendingOutcome ==
  ASSUME IInv, NEW c \in Conns, client.outcome[c] = "pending"
  PROVE  /\ sock[c] \in Alive /\ c = client.ws /\ ~client.ready
         /\ \A i \in Ids : client.pending[i] = None
BY DEF IInv, Linked, OneAlive, PendingAlive, ReadyAlive

(* The caller's close() of a websocket that lives is a drop.                *)
LEMMA CloseDrops ==
  ASSUME IInv, close, client.ws # None, sock[client.ws] # "closed"
  PROVE  client.ws \in Conns /\ Drops(client.ws, "closing")
<1> DEFINE c == client.ws
           m == [client EXCEPT !.userClosed = TRUE]
<1>1. c \in Conns /\ sock[c] \in Alive /\ client \in Client
  BY DEF IInv, Routed, Linked, TypeOK, OneAlive, Client, Alive, None
<1>2. /\ m \in Client /\ m.ws = client.ws /\ m.ready = client.ready
      /\ m.idCounter = client.idCounter /\ m.handlers = client.handlers
      /\ m.outcome = client.outcome /\ m.pending = client.pending /\ m.call = client.call
  BY <1>1 DEF Client
<1>3. /\ client' = failAll(m) /\ closing' = closing \cup {c}
      /\ sock' = [sock EXCEPT ![c] = "closing"]
      /\ erring' = IF sock[c] = "connecting" THEN erring \cup {c} ELSE erring
      /\ UNCHANGED <<up, down, server, history>>
  BY <1>1 DEF close, None
<1> HIDE DEF m
<1>4. /\ client' \in Client /\ client'.ws = client.ws
      /\ client'.idCounter = client.idCounter /\ client'.handlers = client.handlers
      /\ client'.pending = [i \in Ids |-> None] /\ client'.call = failAll(client).call
      /\ client'.outcome = client.outcome /\ client'.ready = client.ready
  BY <1>1, <1>2, <1>3, FailAllFacts, SameFailures
<1>5. /\ erring' \subseteq Conns /\ closing' \subseteq Conns
      /\ down' = down /\ down \in [Conns -> Seq(DownFrame)]
  BY <1>1, <1>3 DEF IInv, Routed, TypeOK
<1> QED BY <1>1, <1>3, <1>4, <1>5 DEF Drops

(* So is a connect timeout,                                                 *)
LEMMA ConnectTimeoutDrops ==
  ASSUME IInv, NEW c \in Conns, connectTimeout(c)
  PROVE  Drops(c, "closing")
<1>1. /\ sock[c] \in Alive /\ ~client.ready /\ client \in Client
      /\ \A i \in Ids : client.pending[i] = None
  BY PendingOutcome DEF connectTimeout, IInv, Routed, TypeOK
<1>2. client.pending = [i \in Ids |-> None] /\ client.call = failAll(client).call
  BY <1>1, FailNothing
<1>3. client' = Rejected(client, c) /\ client.outcome[c] = "pending"
  BY DEF connectTimeout
<1>4. /\ client' \in Client /\ client'.ws = client.ws
      /\ client'.idCounter = client.idCounter /\ client'.handlers = client.handlers
      /\ client'.pending = [i \in Ids |-> None] /\ client'.call = failAll(client).call
      /\ client'.outcome = [client.outcome EXCEPT ![c] = "rejected"] /\ ~client'.ready
  BY <1>1, <1>2, <1>3, RejectedFacts
<1>5. /\ erring' \subseteq Conns /\ closing' \subseteq Conns
      /\ down' = down /\ down \in [Conns -> Seq(DownFrame)]
      /\ sock' = [sock EXCEPT ![c] = "closing"] /\ up' = up
      /\ UNCHANGED <<server, history>>
  BY DEF connectTimeout, IInv, Routed, TypeOK
<1> QED BY <1>1, <1>3, <1>4, <1>5 DEF Drops

(* a connection refused,                                                    *)
LEMMA UnreachableDrops ==
  ASSUME IInv, NEW c \in Conns, Unreachable(c)
  PROVE  Drops(c, "closed")
<1>1. /\ client.outcome[c] = "pending" /\ sock[c] \in Alive /\ client \in Client
      /\ ~client.ready /\ \A i \in Ids : client.pending[i] = None
  BY PendingOutcome DEF Unreachable, IInv, Routed, Linked, TypeOK, OneAlive
<1> DEFINE m == OnError(client, c)
<1>2. /\ m \in Client /\ m.pending = [i \in Ids |-> None] /\ m.call = failAll(client).call
      /\ ~m.ready /\ m.ws = client.ws
      /\ m.idCounter = client.idCounter /\ m.handlers = client.handlers
      /\ m.outcome = [client.outcome EXCEPT ![c] = "rejected"]
  BY <1>1, OnErrorFacts
<1>3. client' = OnClose(m, c)
  BY DEF Unreachable
<1> HIDE DEF m
<1>4. /\ m.outcome[c] = "rejected" /\ \A i \in Ids : m.pending[i] = None
      /\ failAll(m).call = m.call
  BY <1>1, <1>2, FailNothing DEF Client
<1>5. /\ client' \in Client /\ client'.ws = client.ws
      /\ client'.idCounter = client.idCounter /\ client'.handlers = client.handlers
      /\ client'.pending = [i \in Ids |-> None] /\ client'.call = failAll(client).call
      /\ client'.outcome = [client.outcome EXCEPT ![c] = "rejected"] /\ ~client'.ready
      /\ client'.outcome[c] = "rejected"
  BY <1>2, <1>3, <1>4, OnCloseFacts
<1>6. /\ erring' \subseteq Conns /\ closing' \subseteq Conns
      /\ down' = down /\ down \in [Conns -> Seq(DownFrame)]
      /\ sock' = [sock EXCEPT ![c] = "closed"] /\ up' = up
      /\ UNCHANGED <<server, history>>
  BY DEF Unreachable, IInv, Routed, TypeOK
<1> QED BY <1>1, <1>5, <1>6 DEF Drops

(* an error,                                                                *)
LEMMA BreaksDrops ==
  ASSUME IInv, NEW c \in Conns, Breaks(c)
  PROVE  Drops(c, "closing")
<1>1. sock[c] \in Alive /\ client \in Client
  BY DEF Breaks, Alive, IInv, Routed, TypeOK
<1>2. client' = OnError(client, c)
  BY DEF Breaks
<1>3. /\ client' \in Client /\ client'.ws = client.ws
      /\ client'.idCounter = client.idCounter /\ client'.handlers = client.handlers
      /\ client'.pending = [i \in Ids |-> None] /\ client'.call = failAll(client).call
      /\ client'.outcome = IF client.outcome[c] = "pending"
                          THEN [client.outcome EXCEPT ![c] = "rejected"]
                          ELSE client.outcome
      /\ ~client'.ready
  BY <1>1, <1>2, PendingOutcome, OnErrorFacts
<1>4. /\ erring' \subseteq Conns /\ closing' \subseteq Conns
      /\ down' = [down EXCEPT ![c] = <<>>] /\ down \in [Conns -> Seq(DownFrame)]
      /\ sock' = [sock EXCEPT ![c] = "closing"] /\ up' = up
      /\ UNCHANGED <<server, history>>
  BY DEF Breaks, IInv, Routed, TypeOK
<1>5. down' \in [Conns -> Seq(DownFrame)] /\ \A d \in Conns : down'[d] \in {down[d], <<>>}
  BY <1>4
<1> QED BY <1>1, <1>3, <1>4, <1>5 DEF Drops

(* and the 'close' event, whatever its listeners do one after another.      *)
LEMMA ClosesDrops ==
  ASSUME IInv, NEW c \in Conns, Closes(c)
  PROVE  Drops(c, "closed")
<1>1. sock[c] \in Alive /\ client \in Client
  BY DEF Closes, Alive, IInv, Routed, TypeOK
<1> DEFINE m == IF c \in erring THEN OnError(client, c) ELSE client
           n == OnClose(m, c)
<1>2. /\ m \in Client /\ m.ws = client.ws
      /\ m.idCounter = client.idCounter /\ m.handlers = client.handlers
      /\ m.userClosed = client.userClosed
      /\ failAll(m).call = failAll(client).call
      /\ \/ m.outcome = client.outcome
         \/ /\ client.outcome[c] = "pending"
            /\ m.outcome = [client.outcome EXCEPT ![c] = "rejected"]
      /\ m.outcome[c] = "pending" \/ m.userClosed => \A i \in Ids : m.pending[i] = None
  <2>1. CASE c \in erring
    <3>1. /\ m \in Client /\ m.ws = client.ws
          /\ m.idCounter = client.idCounter /\ m.handlers = client.handlers
          /\ m.userClosed = client.userClosed
          /\ m.pending = [i \in Ids |-> None]
          /\ m.call = failAll(client).call
          /\ m.outcome = IF client.outcome[c] = "pending"
                         THEN [client.outcome EXCEPT ![c] = "rejected"]
                         ELSE client.outcome
      BY <1>1, <2>1, PendingOutcome, OnErrorFacts
    <3> HIDE DEF m
    <3>2. (\A i \in Ids : m.pending[i] = None) /\ failAll(m).call = m.call
      BY <3>1, FailNothing
    <3> QED BY <3>1, <3>2
  <2>2. CASE c \notin erring
    BY <1>1, <2>2, PendingMeansReady
  <2> QED BY <2>1, <2>2
<1> HIDE DEF m
<1>3. /\ n \in Client /\ n.ws = client.ws
      /\ n.idCounter = client.idCounter /\ n.handlers = client.handlers
      /\ n.pending = [i \in Ids |-> None] /\ n.call = failAll(client).call
      /\ n.outcome = IF m.outcome[c] = "pending"
                     THEN [m.outcome EXCEPT ![c] = "rejected"] ELSE m.outcome
      /\ ~n.ready
  BY <1>2, OnCloseFacts
<1>4. /\ \/ n.outcome = client.outcome
         \/ /\ client.outcome[c] = "pending"
            /\ n.outcome = [client.outcome EXCEPT ![c] = "rejected"]
      /\ n.outcome[c] # "pending"
  BY <1>1, <1>2, <1>3 DEF Client
<1>5. client' = IF c \in closing THEN [n EXCEPT !.ready = FALSE, !.connectPromise = None] ELSE n
  BY DEF Closes, m
<1> HIDE DEF n
<1>6. /\ client' \in Client /\ client'.ws = n.ws /\ ~client'.ready
      /\ client'.idCounter = n.idCounter /\ client'.handlers = n.handlers
      /\ client'.pending = n.pending /\ client'.call = n.call
      /\ client'.outcome = n.outcome
  BY <1>3, <1>5 DEF Client, None
<1>7. /\ erring' \subseteq Conns /\ closing' \subseteq Conns
      /\ down' = [down EXCEPT ![c] = <<>>] /\ down \in [Conns -> Seq(DownFrame)]
      /\ sock' = [sock EXCEPT ![c] = "closed"] /\ up' = up
      /\ UNCHANGED <<server, history>>
  BY DEF Closes, IInv, Routed, TypeOK
<1>8. down' \in [Conns -> Seq(DownFrame)] /\ \A d \in Conns : down'[d] \in {down[d], <<>>}
  BY <1>7
<1> QED BY <1>1, <1>3, <1>4, <1>6, <1>7, <1>8 DEF Drops

-----------------------------------------------------------------------------
(* Which websocket lives *)

(* A drop ends the one that does.                                          *)
LEMMA DropsLinked ==
  ASSUME IInv, NEW c \in Conns, NEW s, Drops(c, s)
  PROVE  Linked'
<1> USE DEF IInv, Routed, Linked
<1>1. c = client.ws
  BY DEF Drops, OneAlive
<1>2. /\ client \in Client /\ client' \in Client
      /\ sock \in [Conns -> {"none", "connecting", "open", "closing", "closed"}]
      /\ client'.ws = client.ws /\ sock' = [sock EXCEPT ![c] = s]
      /\ sock[c] \in Alive /\ s \in {"closing", "closed"}
  BY DEF TypeOK, Drops
<1>3. /\ \A d \in Conns : client'.outcome[d] # client.outcome[d]
                           => d = c /\ client.outcome[c] = "pending"
      /\ \A d \in Conns : client'.outcome[d] = "pending" => client.outcome[d] = "pending"
      /\ s = "closed" => client'.outcome[c] # "pending" /\ ~client'.ready
      /\ client'.ready => client.ready
  BY <1>2 DEF Drops, Client
<1>4. OneAlive'
  BY <1>1, <1>2, <1>3 DEF OneAlive, Alive
<1>5. ReadyAlive'
  BY <1>1, <1>2, <1>3 DEF ReadyAlive
<1>6. OpenReady'
  BY <1>1, <1>2, <1>3 DEF OpenReady, OneAlive, Alive
<1>7. PendingAlive'
  BY DEF PendingAlive, Drops
<1> QED BY <1>4, <1>5, <1>6, <1>7

(* A new websocket finds none that lives.                                  *)
LEMMA connectLinked ==
  ASSUME IInv, ~Eager, NEW c \in Conns, connect(c)
  PROVE  Linked'
<1> USE DEF IInv, Routed, Linked
<1> DEFINE O == [client.outcome EXCEPT ![c] = "pending"]
<1>1. \A d \in Conns : sock[d] \notin Alive
  BY SocketAssumption DEF connect, OneAlive, Alive, Conns
<1>2. client \in Client /\ O \in [Conns -> {"none", "pending", "resolved", "rejected"}]
  BY DEF TypeOK, Client
<1>3. client' = [client EXCEPT !.ws = c, !.connectPromise = c, !.userClosed = FALSE, !.outcome = O]
  BY DEF connect, Connecting
<1>4. O[c] = "pending" /\ \A d \in Conns : d # c => O[d] = client.outcome[d]
  BY <1>2 DEF Client
<1> HIDE DEF O
<1>5. /\ client'.ws = c /\ client'.ready = client.ready
      /\ client'.userClosed = FALSE /\ client'.pending = client.pending
      /\ client'.outcome = O
  BY <1>2, <1>3 DEF Client
<1>6. /\ sock' = [sock EXCEPT ![c] = "connecting"]
      /\ sock \in [Conns -> {"none", "connecting", "open", "closing", "closed"}]
      /\ sock[c] = "none" /\ \A d \in Conns : d < c => sock[d] # "none"
  BY DEF connect, TypeOK
<1>7. ~client.ready /\ \A i \in Ids : client.pending[i] = None
  BY <1>1, <1>2 DEF ReadyAlive, PendingAlive, Client, Alive, None
<1>8. OneAlive'
  BY <1>1, <1>4, <1>5, <1>6 DEF OneAlive, Alive, Conns, None
<1>9. ReadyAlive' /\ PendingAlive' /\ OpenReady'
  BY <1>1, <1>4, <1>5, <1>6, <1>7 DEF ReadyAlive, PendingAlive, OpenReady, Alive
<1> QED BY <1>8, <1>9

(* close() is a drop, or there is nothing to close.                        *)
LEMMA closeLinked ==
  ASSUME IInv, close
  PROVE  Linked'
<1>1. CASE client.ws # None /\ sock[client.ws] # "closed"
  BY <1>1, CloseDrops, DropsLinked
<1>2. CASE client.ws = None \/ sock[client.ws] = "closed"
  <2> USE DEF IInv, Routed, Linked
  <2> DEFINE m == [client EXCEPT !.userClosed = TRUE]
             n == failAll(m)
  <2>1. client \in Client /\ UNCHANGED wire
    BY <1>2 DEF TypeOK, close
  <2>2. m \in Client /\ m.ws = client.ws /\ m.outcome = client.outcome
    BY <2>1 DEF Client
  <2>3. client' = [n EXCEPT !.ready = FALSE, !.connectPromise = None]
    BY <1>2 DEF close
  <2> HIDE DEF m
  <2>4. /\ n \in Client /\ n.ws = client.ws /\ n.outcome = client.outcome
        /\ n.pending = [i \in Ids |-> None]
    BY <2>2, FailAllFacts
  <2> HIDE DEF n
  <2>5. /\ client'.ws = client.ws /\ ~client'.ready /\ client'.outcome = client.outcome
        /\ \A i \in Ids : client'.pending[i] = None
    BY <2>3, <2>4 DEF Client, None
  <2> QED BY <1>2, <2>1, <2>5 DEF OneAlive, ReadyAlive, OpenReady, PendingAlive,
                            wire, Alive, Conns, None
<1> QED BY <1>1, <1>2

(* A request is sent on the websocket that lives.                          *)
LEMMA emitLinked ==
  ASSUME IInv, NEW n \in Calls, NEW command \in Commands, emit(n, command)
  PROVE  Linked'
<1> USE DEF IInv, Routed, Linked
<1> DEFINE m  == Registering(client, command)
           id == NextId(client)
           P  == [client.pending EXCEPT ![id] = n]
<1>1. Asks(n, command) /\ connected
  BY DEF emit
<1>2. /\ m \in Client /\ m.ws = client.ws /\ m.ready = client.ready
      /\ m.userClosed = client.userClosed /\ m.outcome = client.outcome
      /\ m.pending = client.pending /\ m.idCounter = client.idCounter /\ id \in Ids
  BY <1>1, AsksFacts
<1>3. NextId(m) = id
  BY <1>2 DEF NextId
<1>4. PICK C : client' = [m EXCEPT !.idCounter = id, !.pending = P, !.call = C]
  BY <1>2, <1>3 DEF emit
<1>5. /\ client \in Client /\ client.call[n] = "unmade"
      /\ client.ws \in Conns /\ sock[client.ws] = "open" /\ client.ready
      /\ client.outcome[client.ws] = "resolved"
  BY <1>1 DEF TypeOK, Asks, connected, Client, None, ReadyAlive
<1>6. \A i \in Ids : P[i] = IF i = id THEN n ELSE client.pending[i]
  BY <1>5 DEF Client
<1>7. via' = [via EXCEPT ![n] = client.ws] /\ UNCHANGED sock
  BY DEF emit
<1> HIDE DEF m, P, id
<1>8. /\ client'.ws = client.ws /\ client'.ready = client.ready
      /\ client'.userClosed = client.userClosed
      /\ client'.pending = P /\ client'.outcome = client.outcome
  BY <1>2, <1>4 DEF Client
<1>9. OneAlive' /\ ReadyAlive' /\ OpenReady'
  BY <1>7, <1>8 DEF OneAlive, ReadyAlive, OpenReady
<1>10. PendingAlive'
  <2>1. ~client.userClosed
    BY <1>5 DEF OneAlive
  <2>2. \A k \in Calls : via'[k] = IF k = n THEN client.ws ELSE via[k]
    BY <1>7 DEF TypeOK
  <2>3. ASSUME NEW i \in Ids, P[i] # None
        PROVE  via'[P[i]] = client.ws
    <3>1. i # id => client.pending[i] \in Calls /\ P[i] = client.pending[i]
      BY <1>5, <1>6, <2>3 DEF Client
    <3> QED BY <1>6, <2>2, <2>3, <3>1 DEF PendingAlive
  <2>4. client.ws # None /\ sock'[client.ws] = "open"
    BY <1>5, <1>7, SocketAssumption DEF Conns, None
  <2> QED BY <1>5, <1>8, <2>1, <2>3, <2>4 DEF PendingAlive
<1> QED BY <1>9, <1>10

(* A step that leaves the websockets and what the client knows of them     *)
(* alone, and at most settles requests.                                    *)
LEMMA SameLinked ==
  ASSUME IInv, UNCHANGED <<sock, via>>, client'.ws = client.ws, client'.ready = client.ready,
         client'.userClosed = client.userClosed, client'.outcome = client.outcome,
         \A i \in Ids : client'.pending[i] \in {client.pending[i], None}
  PROVE  Linked'
BY DEF IInv, Linked, OneAlive, ReadyAlive, OpenReady, PendingAlive

(* A request refused, or given up, says nothing of the websocket.          *)
LEMMA CallLinked ==
  ASSUME IInv,
         \/ \E n \in Calls, command \in Commands : emitRefused(n, command)
         \/ \E id \in Ids : requestTimeout(id)
  PROVE  Linked'
<1>0. client \in Client
  BY DEF IInv, Routed, TypeOK
<1>1. ASSUME NEW n \in Calls, NEW command \in Commands, emitRefused(n, command)
      PROVE  Linked'
  <2> DEFINE m == Registering(client, command)
             r == [m EXCEPT !.call[n] = "refused"]
  <2>1. /\ m \in Client /\ m.ws = client.ws /\ m.ready = client.ready
        /\ m.userClosed = client.userClosed /\ m.outcome = client.outcome
        /\ m.pending = client.pending
    BY <1>1, AsksFacts DEF emitRefused, IInv
  <2>2. client' \in {r, [r EXCEPT !.idCounter = NextId(r)]} /\ UNCHANGED <<sock, via>>
    BY <1>1 DEF emitRefused, wire
  <2> HIDE DEF m
  <2>3. /\ client'.ws = client.ws /\ client'.ready = client.ready
        /\ client'.userClosed = client.userClosed /\ client'.outcome = client.outcome
        /\ client'.pending = client.pending
    BY <2>1, <2>2 DEF Client
  <2> QED BY <2>2, <2>3, SameLinked
<1>2. ASSUME NEW id \in Ids, requestTimeout(id)
      PROVE  Linked'
  <2> DEFINE P == [client.pending EXCEPT ![id] = None]
             C == [client.call EXCEPT ![client.pending[id]] = "failed"]
  <2>1. client' = [client EXCEPT !.pending = P, !.call = C] /\ UNCHANGED <<sock, via>>
    BY <1>2 DEF requestTimeout, wire, history
  <2>2. \A i \in Ids : P[i] \in {client.pending[i], None}
    BY <1>0 DEF Client
  <2> HIDE DEF P, C
  <2>3. /\ client'.ws = client.ws /\ client'.ready = client.ready
        /\ client'.userClosed = client.userClosed /\ client'.outcome = client.outcome
        /\ client'.pending = P
    BY <1>0, <2>1 DEF Client
  <2> QED BY <2>1, <2>2, <2>3, SameLinked
<1> QED BY <1>1, <1>2

(* A websocket that opens, or is lost, was being set up, or ready.         *)
LEMMA OpensLinked ==
  ASSUME IInv, NEW c \in Conns, Opens(c) \/ Lost(c)
  PROVE  Linked'
<1>1. /\ \/ sock[c] = "connecting" /\ sock' = [sock EXCEPT ![c] = "open"]
         \/ sock[c] = "open" /\ sock' = [sock EXCEPT ![c] = "closing"]
      /\ UNCHANGED <<client, history>>
  BY DEF Opens, Lost
<1>2. sock \in [Conns -> {"none", "connecting", "open", "closing", "closed"}]
  BY DEF IInv, Routed, TypeOK
<1>3. c = client.ws
  BY <1>1 DEF IInv, Linked, OneAlive, Alive
<1>4. /\ \A d \in Conns : d # c => sock'[d] = sock[d]
      /\ \/ sock[c] = "connecting" /\ sock'[c] = "open"
         \/ sock[c] = "open" /\ sock'[c] = "closing"
  <2>1. CASE sock' = [sock EXCEPT ![c] = "open"] /\ sock[c] = "connecting"
    BY <1>2, <2>1
  <2>2. CASE sock' = [sock EXCEPT ![c] = "closing"] /\ sock[c] = "open"
    BY <1>2, <2>2
  <2> QED BY <1>1, <2>1, <2>2
<1>5. client' = client /\ via' = via
  BY <1>1 DEF history
<1>6. OneAlive'
  BY <1>3, <1>4, <1>5 DEF IInv, Linked, OneAlive, Alive
<1>7. ReadyAlive' /\ OpenReady'
  BY <1>3, <1>4, <1>5 DEF IInv, Linked, OneAlive, ReadyAlive, OpenReady, Alive
<1>8. PendingAlive'
  BY <1>3, <1>4, <1>5 DEF IInv, Linked, OneAlive, PendingAlive
<1> QED BY <1>6, <1>7, <1>8 DEF Linked

(* A frame is read from the websocket that lives.                          *)
LEMMA MessageLinked ==
  ASSUME IInv, NEW c \in Conns, Message(c)
  PROVE  Linked'
<1>1. /\ sock[c] \in {"open", "closing"} /\ down[c] # <<>> /\ down[c] \in Seq(DownFrame)
      /\ UNCHANGED <<sock, via>> /\ client \in Client /\ c = client.ws
  BY DEF Message, IInv, Routed, Linked, TypeOK, OneAlive, Alive
<1> DEFINE frame == Head(down[c])
<1>2. CASE client' = client
  BY <1>1, <1>2, SameLinked
<1>3. CASE frame.type = "ready" /\ client' = OnReady(client, c) /\ client.outcome[c] = "pending"
  <2>1. /\ client'.ws = client.ws /\ client'.ready
        /\ client'.userClosed = client.userClosed /\ client'.pending = client.pending
        /\ client'.outcome = [client.outcome EXCEPT ![c] = "resolved"]
    BY <1>1, <1>3, OnReadyFacts
  <2>2. \A d \in Conns : client'.outcome[d] = IF d = c THEN "resolved" ELSE client.outcome[d]
    BY <1>1, <2>1 DEF Client
  <2>3. \A i \in Ids : client.pending[i] = None
    BY <1>3, PendingOutcome
  <2>4. OneAlive' /\ PendingAlive'
    BY <1>1, <2>1, <2>2, <2>3 DEF IInv, Linked, OneAlive, PendingAlive
  <2>5. ReadyAlive' /\ OpenReady'
    BY <1>1, <2>1, <2>2, SocketAssumption DEF ReadyAlive, OpenReady, Conns, None
  <2> QED BY <2>4, <2>5 DEF Linked
<1>4. CASE frame.type = "answer" /\ client' = handleCallback(client, frame.id)
  <2>1. frame.id \in Ids
    <3>1. frame \in DownFrame
      BY <1>1, TailFacts
    <3> QED BY <1>4, <3>1 DEF DownFrame
  <2>2. CASE client.pending[frame.id] = None
    BY <1>2, <1>4, <2>2 DEF handleCallback
  <2>3. CASE client.pending[frame.id] # None
    <3>1. /\ client'.ws = client.ws /\ client'.ready = client.ready
          /\ client'.userClosed = client.userClosed /\ client'.outcome = client.outcome
          /\ client'.pending = [client.pending EXCEPT ![frame.id] = None]
      BY <1>1, <1>4, <2>1, <2>3, handleCallbackFacts
    <3>2. \A i \in Ids : client'.pending[i] \in {client.pending[i], None}
      BY <1>1, <3>1 DEF Client
    <3> QED BY <1>1, <3>1, <3>2, SameLinked
  <2> QED BY <2>2, <2>3
<1>5. CASE frame.type = "ready" /\ client' = OnReady(client, c) /\ client.outcome[c] # "pending"
  BY <1>2, <1>5 DEF OnReady
<1> QED BY <1>2, <1>3, <1>4, <1>5 DEF Message

(* The initial state satisfies the invariant.                               *)
LEMMA InitInv == Init => IInv
<1> SUFFICES ASSUME Init PROVE IInv
  OBVIOUS
<1>1. Linked
  BY SocketAssumption DEF Init, Linked, OneAlive, ReadyAlive, OpenReady, PendingAlive,
                          Alive, None, Conns, Ids
<1> QED BY <1>1, RoutedInit DEF IInv

(* Every step preserves it, for callers that wait for the last websocket to *)
(* close.                                                                   *)
LEMMA NextInv ==
  ASSUME IInv, ~Eager, [Next]_vars
  PROVE  IInv'
<1> SUFFICES Linked'
  BY RoutedNext DEF IInv
<1>1. CASE UNCHANGED <<client, sock, via>>
  BY <1>1, SameLinked
<1>2. ASSUME NEW c \in Conns,
             connectTimeout(c) \/ Breaks(c) \/ Unreachable(c) \/ Closes(c)
      PROVE  Linked'
  <2>1. Drops(c, "closing") \/ Drops(c, "closed")
    BY <1>2, ConnectTimeoutDrops, BreaksDrops, UnreachableDrops, ClosesDrops
  <2> QED BY <2>1, DropsLinked
<1>3. ASSUME NEW c \in Conns, Changes(c) \/ \E frame \in up[c] : Serves(c, frame)
      PROVE  Linked'
  BY <1>1, <1>3 DEF Changes, Serves, history
<1>4. CASE Next
  <2>1. CASE close
    BY <2>1, closeLinked
  <2>2. ASSUME NEW n \in Calls, NEW command \in Commands,
               emit(n, command) \/ emitRefused(n, command)
        PROVE  Linked'
    BY <2>2, emitLinked, CallLinked
  <2>3. ASSUME NEW id \in Ids, requestTimeout(id)
        PROVE  Linked'
    BY <2>3, CallLinked
  <2>4. ASSUME NEW c \in Conns, connect(c) \/ Opens(c) \/ Lost(c) \/ Message(c)
        PROVE  Linked'
    BY <2>4, connectLinked, OpensLinked, MessageLinked
  <2> QED BY <1>2, <1>3, <1>4, <2>1, <2>2, <2>3, <2>4 DEF Next
<1> QED BY <1>1, <1>4 DEF vars, wire, history

(* The invariant holds throughout.                                         *)
LEMMA Invariant == ASSUME ~Eager PROVE Spec => []IInv
<1>1. IInv /\ [Next]_vars => IInv'
  BY NextInv
<1> QED BY InitInv, <1>1, PTL DEF Spec

(* For callers that connect again only once the last websocket has closed: *)
(* a drop, or a close(), fails every request sent on the websocket it ends. *)
THEOREM NoRequestOutlivesItsSocket == ASSUME ~Eager PROVE Spec => []NoneOutlivesItsSocket
<1>1. IInv => NoneOutlivesItsSocket
  BY DEF IInv, Linked, PendingAlive, NoneOutlivesItsSocket
<1> QED BY <1>1, Invariant, PTL

(* The client takes itself for connected exactly when its websocket is open *)
(* and has said it is ready.                                                *)
THEOREM ConnectedIsReady == ASSUME ~Eager PROVE Spec => []ConnectedMeansReady
<1>1. IInv => ConnectedMeansReady
  BY DEF IInv, Routed, Linked, TypeOK, Client, ReadyAlive, OpenReady, ConnectedMeansReady,
         connected
<1> QED BY <1>1, Invariant, PTL

=============================================================================
