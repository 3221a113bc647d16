---------------------------- MODULE AdminSocket ----------------------------
(***************************************************************************)
(* AdminSocketClient (client/socket.ts): one client object, the websockets *)
(* it opens one after another, the requests in flight.                     *)
(*                                                                         *)
(* The client runs on one thread: a call of its methods, a timer and a     *)
(* websocket event are each one step.  Its fields, the promises it has     *)
(* handed out included, are the record `client`, so that an event can be   *)
(* the composition of its listeners.  Websockets (the ws package), the     *)
(* network and the Admin server are external: a socket fails at any point, *)
(* the server answers in any order, late or never, and a request on the    *)
(* wire may still be carried out when its socket is long closed.           *)
(***************************************************************************)
EXTENDS Naturals, Sequences, FiniteSets

CONSTANTS
  MaxConns,    \* bound: websockets
  MaxCalls,    \* bound: requests
  MaxChanges,  \* bound: objectChange frames
  Eager        \* may connect() be called while an earlier websocket lives

None == 0

Conns == 1 .. MaxConns
Calls == 1 .. MaxCalls
Ids   == 1 .. MaxCalls

ASSUME SocketAssumption ==
  /\ MaxConns \in Nat \ {0}
  /\ MaxCalls \in Nat \ {0}
  /\ MaxChanges \in Nat
  /\ Eager \in BOOLEAN

Commands == {"request", "subscribe", "unsubscribe"}

(* Frames: a request and its answer carry the request's id; `of` says whose *)
(* they are, which the code cannot see.                                     *)
UpFrame   == [id : Ids, of : Calls, command : Commands]
DownFrame == [type : {"ready", "change"}] \cup [type : {"answer"}, id : Ids, of : Calls]

Client ==
  [ws : Conns \cup {None}, ready : BOOLEAN, connectPromise : Conns \cup {None},
   userClosed : BOOLEAN, idCounter : 0 .. MaxCalls,
   pending : [Ids -> Calls \cup {None}],                          \* id to request
   outcome : [Conns -> {"none", "pending", "resolved", "rejected"}], \* of connect()
   call : [Calls -> {"unmade", "refused", "waiting", "answered", "failed"}],
   handlers : 0 .. MaxCalls]                                      \* subscriptions

VARIABLES
  client,      \* the fields of the client, and what became of its promises
  sock,        \* ws.readyState of each websocket
  erring,      \* websockets whose 'close' comes with an 'error' before it
  closing,     \* websockets a close() waits for
  up,          \* requests on their way to the server
  down,        \* frames on their way to the client
  subscribed,  \* connections the server sends changes on
  changes,     \* how many it has sent
  done,        \* history: the requests the server has carried out
  via,         \* history: the websocket each request was sent on
  wanted,      \* history: has the caller subscribed
  wrong        \* history: what went to the wrong place

wire    == <<sock, erring, closing, up, down>>
server  == <<subscribed, changes, done>>
history == <<via, wanted, wrong>>
vars    == <<client, wire, server, history>>

TypeOK ==
  /\ client \in Client
  /\ sock \in [Conns -> {"none", "connecting", "open", "closing", "closed"}]
  /\ erring \subseteq Conns
  /\ closing \subseteq Conns
  /\ up \in [Conns -> SUBSET UpFrame]
  /\ down \in [Conns -> Seq(DownFrame)]
  /\ subscribed \subseteq Conns
  /\ changes \in 0 .. MaxChanges
  /\ done \subseteq Calls
  /\ via \in [Calls -> Conns \cup {None}]
  /\ wanted \in BOOLEAN
  /\ wrong \subseteq {"answer", "change"}

Init ==
  /\ client = [ws |-> None, ready |-> FALSE, connectPromise |-> None,
               userClosed |-> FALSE, idCounter |-> 0,
               pending |-> [i \in Ids |-> None],
               outcome |-> [c \in Conns |-> "none"],
               call |-> [n \in Calls |-> "unmade"], handlers |-> 0]
  /\ sock = [c \in Conns |-> "none"]
  /\ erring = {} /\ closing = {}
  /\ up = [c \in Conns |-> {}]
  /\ down = [c \in Conns |-> <<>>]
  /\ subscribed = {} /\ changes = 0 /\ done = {}
  /\ via = [n \in Calls |-> None]
  /\ wanted = FALSE /\ wrong = {}

-----------------------------------------------------------------------------
(* What the listeners do to the client's fields *)

failAll(m) ==
  [m EXCEPT !.pending = [i \in Ids |-> None],
            !.call = [n \in Calls |-> IF \E i \in Ids : m.pending[i] = n
                                      THEN "failed" ELSE m.call[n]]]

(* connect() gives up on c: `settled`, and its promise rejects.            *)
Rejected(m, c) == [m EXCEPT !.connectPromise = None, !.outcome[c] = "rejected"]

OnReady(m, c) ==
  IF m.outcome[c] = "pending"
  THEN [m EXCEPT !.ready = TRUE, !.outcome[c] = "resolved"]
  ELSE m

OnError(m, c) ==
  IF m.outcome[c] = "pending"
  THEN Rejected(m, c)
  ELSE failAll([m EXCEPT !.ready = FALSE, !.connectPromise = None])

(* Faulty variant: the drop of a socket leaves `ready` as it is.           *)
OnCloseStillReady(m, c) ==
  IF m.outcome[c] = "pending" THEN Rejected(m, c)
  ELSE LET dropped == [m EXCEPT !.connectPromise = None]
       IN  IF m.userClosed THEN dropped ELSE failAll(dropped)

(* Faulty variant: a connection closed before it was ready only loses its  *)
(* timer; its promise never settles.                                       *)
OnCloseUnsettled(m, c) ==
  LET dropped == [m EXCEPT !.ready = FALSE, !.connectPromise = None]
  IN  IF m.outcome[c] = "pending" THEN [dropped EXCEPT !.outcome[c] = "none"]
      ELSE IF m.userClosed THEN dropped ELSE failAll(dropped)

OnClose(m, c) ==
  LET dropped == [m EXCEPT !.ready = FALSE, !.connectPromise = None]
  IN  IF m.outcome[c] = "pending" THEN Rejected(dropped, c)
      ELSE IF m.userClosed THEN dropped ELSE failAll(dropped)

(* Faulty variant: an answer to nothing is not told apart.                 *)
handleCallbackUnchecked(m, id) ==
  LET n == m.pending[id]
  IN  [m EXCEPT !.pending[id] = None,
                !.call = [k \in Calls \cup {n} |-> IF k = n THEN "answered"
                                                          ELSE m.call[k]]]

handleCallback(m, id) ==
  LET n == m.pending[id]
  IN  IF n = None THEN m ELSE [m EXCEPT !.pending[id] = None, !.call[n] = "answered"]

connected == client.ready /\ client.ws # None /\ sock[client.ws] = "open"

-----------------------------------------------------------------------------
(* Calls of the client's methods *)

(* Faulty variant: a close() asked for once silences every later drop.     *)
ConnectingStillClosed(m, c) ==
  [m EXCEPT !.ws = c, !.connectPromise = c, !.outcome[c] = "pending"]

Connecting(m, c) ==
  [m EXCEPT !.ws = c, !.connectPromise = c, !.userClosed = FALSE,
            !.outcome[c] = "pending"]

(* A caller that finds the client connected, or connecting, is handed what *)
(* there is.                                                               *)
connect(c) ==
  /\ ~connected
  /\ client.connectPromise = None
  /\ sock[c] = "none"
  /\ \A d \in Conns : d < c => sock[d] # "none"
  /\ Eager \/ \A d \in Conns : d < c => sock[d] = "closed"
  /\ client' = Connecting(client, c)
  /\ sock' = [sock EXCEPT ![c] = "connecting"]
  /\ UNCHANGED <<erring, closing, up, down, server, history>>

(* ws.close(): the closing handshake, or an attempt to connect aborted.    *)
close ==
  LET c      == client.ws
      failed == failAll([client EXCEPT !.userClosed = TRUE])
  IN  IF c = None \/ (c # None /\ sock[c] = "closed")
      THEN /\ client' = [failed EXCEPT !.ready = FALSE, !.connectPromise = None]
           /\ UNCHANGED <<wire, server, history>>
      ELSE /\ client' = failed
           /\ closing' = closing \cup {c}
           /\ sock' = [sock EXCEPT ![c] = "closing"]
           /\ erring' = IF sock[c] = "connecting" THEN erring \cup {c} ELSE erring
           /\ UNCHANGED <<up, down, server, history>>

(* Faulty variant: ids are reused.                                         *)
NextIdOfPending(m) == Cardinality({i \in Ids : m.pending[i] # None}) + 1

NextId(m) == m.idCounter + 1

(* subscribeObjects and subscribeLog register the handler before they send.*)
Registering(m, command) ==
  CASE command = "subscribe"   -> [m EXCEPT !.handlers = @ + 1]
    [] command = "unsubscribe" -> [m EXCEPT !.handlers = 0]
    [] OTHER                   -> m

(* Callers subscribe once (commands/watch.ts, commands/logs.ts).           *)
Asks(n, command) ==
  /\ client.call[n] = "unmade"
  /\ \A k \in Calls : k < n => client.call[k] # "unmade"
  /\ command = "subscribe" => ~wanted
  /\ wanted' = CASE command = "subscribe" -> TRUE
                 [] command = "unsubscribe" -> FALSE
                 [] OTHER -> wanted

emit(n, command) ==
  /\ Asks(n, command)
  /\ connected
  /\ LET m  == Registering(client, command)
         id == NextId(m)
     IN  /\ client' = [m EXCEPT !.idCounter = id, !.pending[id] = n,
                               !.call[n] = "waiting"]
         /\ up' = [up EXCEPT ![client.ws] =
                     @ \cup {[id |-> id, of |-> n, command |-> command]}]
  /\ via' = [via EXCEPT ![n] = client.ws]
  /\ UNCHANGED <<sock, erring, closing, down, server, wrong>>

(* Not connected; or ws.send throws, and the id is spent.                  *)
emitRefused(n, command) ==
  /\ Asks(n, command)
  /\ LET m == [Registering(client, command) EXCEPT !.call[n] = "refused"]
     IN  client' = IF connected THEN [m EXCEPT !.idCounter = NextId(m)] ELSE m
  /\ UNCHANGED <<wire, server, via, wrong>>

-----------------------------------------------------------------------------
(* Timers *)

requestTimeout(id) ==
  /\ client.pending[id] # None
  /\ client' = [client EXCEPT !.pending[id] = None,
                              !.call[client.pending[id]] = "failed"]
  /\ UNCHANGED <<wire, server, history>>

(* ws.terminate() aborts an attempt to connect, or destroys the socket.    *)
connectTimeout(c) ==
  /\ client.outcome[c] = "pending"
  /\ client' = Rejected(client, c)
  /\ sock' = [sock EXCEPT ![c] = "closing"]
  /\ erring' = IF sock[c] = "connecting" THEN erring \cup {c} ELSE erring
  /\ UNCHANGED <<closing, up, down, server, history>>

-----------------------------------------------------------------------------
(* Websocket events *)

(* 'open' has no effect of its own; the server greets.                     *)
Opens(c) ==
  /\ sock[c] = "connecting"
  /\ sock' = [sock EXCEPT ![c] = "open"]
  /\ down' = [down EXCEPT ![c] = <<[type |-> "ready"]>>]
  /\ UNCHANGED <<client, erring, closing, up, server, history>>

(* Refused, a wrong certificate, no upgrade: 'error' and 'close' in a row. *)
Unreachable(c) ==
  /\ sock[c] = "connecting"
  /\ sock' = [sock EXCEPT ![c] = "closed"]
  /\ client' = OnClose(OnError(client, c), c)
  /\ UNCHANGED <<erring, closing, up, down, server, history>>

(* A frame ws cannot read: 'error' now, 'close' after a closing handshake. *)
Breaks(c) ==
  /\ sock[c] \in {"open", "closing"}
  /\ c \notin erring
  /\ sock' = [sock EXCEPT ![c] = "closing"]
  /\ client' = OnError(client, c)
  /\ down' = [down EXCEPT ![c] = <<>>]
  /\ UNCHANGED <<erring, closing, up, server, history>>

(* The server closes, or the network drops: no event before 'close'.       *)
Lost(c) ==
  /\ sock[c] = "open"
  /\ sock' = [sock EXCEPT ![c] = "closing"]
  /\ UNCHANGED <<client, erring, closing, up, down, server, history>>

(* 'close': the listener of connect(), then that of a close() that waits.  *)
Closes(c) ==
  /\ sock[c] = "closing"
  /\ sock' = [sock EXCEPT ![c] = "closed"]
  /\ LET m == OnClose(IF c \in erring THEN OnError(client, c) ELSE client, c)
     IN  client' = IF c \in closing
                   THEN [m EXCEPT !.ready = FALSE, !.connectPromise = None] ELSE m
  /\ erring' = erring \ {c}
  /\ closing' = closing \ {c}
  /\ down' = [down EXCEPT ![c] = <<>>]
  /\ UNCHANGED <<up, server, history>>

(* Faulty variant: a handler counts once its subscription is acknowledged. *)
listeningOnceAnswered(m) == m.handlers > 0 /\ \A i \in Ids : m.pending[i] = None

listening(m) == m.handlers > 0

(* 'message': frames are read until 'close', the client's own close or not.*)
Message(c) ==
  /\ sock[c] \in {"open", "closing"}
  /\ down[c] # <<>>
  /\ down' = [down EXCEPT ![c] = Tail(@)]
  /\ LET frame == Head(down[c])
     IN  \/ /\ frame.type = "ready"
            /\ client' = OnReady(client, c)
            /\ UNCHANGED wrong
         \/ /\ frame.type = "answer"
            /\ client' = handleCallback(client, frame.id)
            /\ wrong' = IF client.pending[frame.id] \in {None, frame.of}
                        THEN wrong ELSE wrong \cup {"answer"}
         \/ /\ frame.type = "change"
            /\ wrong' = IF listening(client) \/ ~wanted THEN wrong
                                                       ELSE wrong \cup {"change"}
            /\ UNCHANGED client
  /\ UNCHANGED <<sock, erring, closing, up, server, via, wanted>>

-----------------------------------------------------------------------------
(* The Admin server *)

Sent(c, frame) == IF sock[c] \in {"open", "closing"}
                  THEN [down EXCEPT ![c] = Append(@, frame)] ELSE down

Serves(c, frame) ==
  /\ frame \in up[c]
  /\ up' = [up EXCEPT ![c] = @ \ {frame}]
  /\ done' = done \cup {frame.of}
  /\ subscribed' = CASE frame.command = "subscribe"   -> subscribed \cup {c}
                      [] frame.command = "unsubscribe" -> subscribed \ {c}
                      [] OTHER -> subscribed
  /\ down' = Sent(c, [type |-> "answer", id |-> frame.id, of |-> frame.of])
  /\ UNCHANGED <<client, sock, erring, closing, changes, history>>

Changes(c) ==
  /\ c \in subscribed
  /\ sock[c] = "open"
  /\ changes < MaxChanges
  /\ changes' = changes + 1
  /\ down' = Sent(c, [type |-> "change"])
  /\ UNCHANGED <<client, sock, erring, closing, up, subscribed, done, history>>

-----------------------------------------------------------------------------

Next ==
  \/ close
  \/ \E n \in Calls, command \in Commands : emit(n, command) \/ emitRefused(n, command)
  \/ \E id \in Ids : requestTimeout(id)
  \/ \E c \in Conns :
       \/ connect(c) \/ connectTimeout(c)
       \/ Opens(c) \/ Unreachable(c) \/ Breaks(c) \/ Lost(c) \/ Closes(c)
       \/ Message(c) \/ Changes(c)
       \/ \E frame \in up[c] : Serves(c, frame)

Spec == Init /\ [][Next]_vars

(* Timers fire, and ws ends a closing handshake nobody answers after 30 s.  *)
(* Nothing is assumed of the server, nor of the network.                    *)
Fairness ==
  /\ \A id \in Ids : WF_vars(requestTimeout(id))
  /\ \A c \in Conns : WF_vars(connectTimeout(c)) /\ WF_vars(Closes(c))

LiveSpec == Spec /\ Fairness

-----------------------------------------------------------------------------
(* Properties *)

(* An answer settles the request it answers, however late it comes and on   *)
(* whichever connection, and a change the server sends once it has carried  *)
(* out a subscription finds its handler, though it overtakes the answer.    *)
NothingMisdirected == wrong = {}

(* A request never waits for its timeout once the connection it was sent on *)
(* is gone: the drop, or the close(), has failed it.                        *)
NoneOutlivesItsSocket ==
  \A i \in Ids : client.pending[i] # None => sock[via[client.pending[i]]] # "closed"

(* The client takes itself for connected when its websocket is open and has *)
(* said it is ready, and only then: no command is sent before, and no drop  *)
(* of an earlier websocket cuts off a later one.                            *)
ConnectedMeansReady ==
  connected <=> /\ client.ws # None
                /\ sock[client.ws] = "open"
                /\ client.outcome[client.ws] = "resolved"

(* Every promise settles: that of a request, that of connect(), that of     *)
(* close(), with a server that never answers and a network that drops.      *)
EverythingSettles ==
  /\ \A n \in Calls : client.call[n] = "waiting" ~> client.call[n] \in {"answered", "failed"}
  /\ \A c \in Conns :
       /\ client.outcome[c] = "pending" ~> client.outcome[c] \in {"resolved", "rejected"}
       /\ c \in closing ~> c \notin closing

(* The client implements the contract its callers rely on.                  *)
Contract == INSTANCE RequestContract
  WITH link <- IF connected THEN "up" ELSE "down", call <- client.call

ImplementsContract == Contract!Spec

=============================================================================
