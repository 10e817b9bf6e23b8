------------------------------ MODULE SshServer ------------------------------
(***************************************************************************)
(* The SSH server of package sshh with kappa's EchoHandler: one goroutine  *)
(* accepts connections, each connection has a goroutine for the handshake  *)
(* and a dispatcher for the channels the client opens, each channel has    *)
(* its handler.  Tombs tie them together: the server's, one inside listen, *)
(* one per connection, one per channel.                                    *)
(***************************************************************************)
EXTENDS EchoHandler

CONSTANTS
  Conn,
  Owner       \* the connection of each channel

ASSUME ServerAssumption == Owner \in [Channel -> Conn]

VARIABLES
  stopping,   \* Stop has killed the server's tomb
  listener,   \* the accept loop
  group,      \* the tomb inside listen
  conn,       \* the server's side of each connection
  client,     \* the client's side
  tombs,      \* the tomb of each connection
  stuck,      \* the connection's copy of group has its mutex locked
  request,    \* each channel, as the client asked for it and the server took it
  handler     \* the goroutine that runs Handle

serverVars ==
  <<stopping, listener, group, conn, client, tombs, stuck, request, handler>>
vars == <<echoVars, serverVars>>

TypeOK ==
  /\ EchoTypeOK
  /\ stopping \in BOOLEAN
  /\ listener \in {"check", "accept", "done"}
  /\ group \in Reason
  /\ conn \in [Conn -> {"none", "handshake", "serving", "draining", "closed"}]
  /\ client \in [Conn -> {"none", "here", "gone"}]
  /\ tombs \in [Conn -> Reason]
  /\ stuck \in [Conn -> BOOLEAN]
  /\ request \in [Channel -> {"none", "known", "unknown", "answered"}]
  /\ handler \in [Channel -> {"none", "running", "returned"}]

Init ==
  /\ EchoInit
  /\ stopping = FALSE
  /\ listener = "check"
  /\ group = "alive"
  /\ conn = [c \in Conn |-> "none"]
  /\ client = [c \in Conn |-> "none"]
  /\ tombs = [c \in Conn |-> "alive"]
  /\ stuck = [c \in Conn |-> FALSE]
  /\ request = [h \in Channel |-> "none"]
  /\ handler = [h \in Channel |-> "none"]

ChannelsOf(c) == {h \in Channel : Owner[h] = c}
Gone(c) == client[c] = "gone"

\* listen has returned, and with it Stop.
Stopped == listener = "done" /\ \A c \in Conn : conn[c] \in {"none", "closed"}

-----------------------------------------------------------------------------
(* The clients, and the caller of Stop. *)

Dial(c) ==
  /\ client[c] = "none"
  /\ client' = [client EXCEPT ![c] = "here"]
  /\ UNCHANGED <<echoVars, stopping, listener, group, conn, tombs, stuck,
                 request, handler>>

HangUp(c) ==
  /\ client[c] = "here"
  /\ client' = [client EXCEPT ![c] = "gone"]
  /\ UNCHANGED <<echoVars, stopping, listener, group, conn, tombs, stuck,
                 request, handler>>

OpenChannel(h, type) ==
  /\ client[Owner[h]] = "here" /\ conn[Owner[h]] \in {"serving", "draining"}
  /\ request[h] = "none"
  /\ request' = [request EXCEPT ![h] = type]
  /\ UNCHANGED <<echoVars, stopping, listener, group, conn, client, tombs,
                 stuck, handler>>

UseChannel(h) ==
  /\ client[Owner[h]] = "here"
  /\ handler[h] = "running"
  /\ Finish(h) \/ \E kind \in Kind : Send(h, kind)
  /\ UNCHANGED serverVars

Client ==
  \/ \E c \in Conn : Dial(c) \/ HangUp(c)
  \/ \E h \in Channel :
       UseChannel(h) \/ \E type \in {"known", "unknown"} : OpenChannel(h, type)

Stop ==
  /\ ~ stopping
  /\ stopping' = TRUE
  /\ UNCHANGED <<echoVars, listener, group, conn, client, tombs, stuck,
                 request, handler>>

-----------------------------------------------------------------------------
(* The accept loop. *)

\* Mutant of Check: the wrong tomb is looked at.
CheckGroup ==
  /\ listener = "check"
  /\ listener' = IF Dying(group) THEN "done" ELSE "accept"
  /\ UNCHANGED <<echoVars, stopping, group, conn, client, tombs, stuck,
                 request, handler>>

Check ==
  /\ listener = "check"
  /\ \/ /\ stopping
        /\ listener' = "done"
        /\ group' = Killed(group, "nil")
     \/ /\ ~ stopping
        /\ listener' = "accept"
        /\ UNCHANGED group
  /\ UNCHANGED <<echoVars, stopping, conn, client, tombs, stuck, request, handler>>

\* A client that has hung up before Accept is accepted all the same.  The new
\* goroutine copies the tomb, perhaps while tomb.Go still holds its mutex.
Accept(c) ==
  /\ listener = "accept"
  /\ client[c] # "none" /\ conn[c] = "none"
  /\ listener' = "check"
  /\ conn' = [conn EXCEPT ![c] = "handshake"]
  /\ \E race \in BOOLEAN : stuck' = [stuck EXCEPT ![c] = race]
  /\ UNCHANGED <<echoVars, stopping, group, client, tombs, request, handler>>

\* Accept fails: the deadline has passed, or another error.
AcceptFails ==
  /\ listener = "accept"
  /\ listener' = "check"
  /\ UNCHANGED <<echoVars, stopping, group, conn, client, tombs, stuck,
                 request, handler>>

Listen == Check \/ AcceptFails \/ \E c \in Conn : Accept(c)

-----------------------------------------------------------------------------
(* One connection. *)

Handshake(c) ==
  /\ conn[c] = "handshake" /\ ~ Gone(c)
  /\ conn' = [conn EXCEPT ![c] = "serving"]
  /\ UNCHANGED <<echoVars, stopping, listener, group, client, tombs, stuck,
                 request, handler>>

\* handleTCPConnection returns reason; only io.EOF is no error to group.
Close(c, reason) ==
  /\ conn' = [conn EXCEPT ![c] = "closed"]
  /\ group' = IF reason = "err" THEN Killed(group, "err") ELSE group
  /\ UNCHANGED <<stopping, listener, client, tombs, stuck, request, handler>>

\* The client cannot log in, breaks the protocol or hangs up.
HandshakeFails(c) ==
  /\ conn[c] = "handshake"
  /\ \/ Close(c, "err")
     \/ Gone(c) /\ Close(c, "eof")
  /\ UNCHANGED echoVars

\* Mutant of Drain: no t.Kill(nil).
DrainKeepsTomb(c) ==
  /\ conn' = [conn EXCEPT ![c] = "draining"]
  /\ UNCHANGED <<tombs, stopping, listener, group, client, stuck>>

Drain(c) ==
  /\ conn' = [conn EXCEPT ![c] = "draining"]
  /\ tombs' = [tombs EXCEPT ![c] = Killed(@, "nil")]
  /\ UNCHANGED <<stopping, listener, group, client, stuck>>

\* The dispatcher takes a request for a channel of a type with a handler.
Dispatch(h) ==
  LET c == Owner[h] IN
  /\ conn[c] = "serving" /\ ~ stuck[c]
  /\ request[h] = "known"
  /\ request' = [request EXCEPT ![h] = "answered"]
  /\ \/ /\ handler' = [handler EXCEPT ![h] = "running"]
        /\ \E race \in BOOLEAN : Start(h, race)
     \/ /\ Gone(c)                   \* ch.Accept fails
        /\ UNCHANGED <<echoVars, handler>>
  /\ UNCHANGED <<stopping, listener, group, conn, client, tombs, stuck>>

\* A channel of another type is refused, and takes the connection with it.
Reject(h) ==
  LET c == Owner[h] IN
  /\ conn[c] = "serving" /\ ~ stuck[c]
  /\ request[h] = "unknown"
  /\ request' = [request EXCEPT ![h] = "answered"]
  /\ Drain(c)
  /\ UNCHANGED <<echoVars, handler>>

\* The dispatcher finds channels closed, or a tomb dying.
Undispatch(c) ==
  /\ conn[c] = "serving" /\ ~ stuck[c]
  /\ \/ Gone(c) /\ \A h \in ChannelsOf(c) : request[h] \in {"none", "answered"}
     \/ Dying(group)
     \/ Dying(tombs[c])
  /\ Drain(c)
  /\ UNCHANGED <<echoVars, request, handler>>

\* Handle returns: the channel is closed, and the connection's tomb killed,
\* whatever the reason.
Return(h) ==
  /\ handler[h] = "running" /\ Over(h)
  /\ handler' = [handler EXCEPT ![h] = "returned"]
  /\ tombs' = [tombs EXCEPT ![Owner[h]] = Killed(@, tomb[h])]
  /\ UNCHANGED <<echoVars, stopping, listener, group, conn, client, stuck, request>>

Handle(h) ==
  \/ /\ handler[h] = "running"
     /\ Steps(h, tombs[Owner[h]], Gone(Owner[h]))
     /\ UNCHANGED serverVars
  \/ Return(h)

\* Mutant of Finished: no t.Wait.
FinishedEarly(c) ==
  /\ conn[c] = "draining"
  /\ Gone(c)
  /\ Close(c, tombs[c])
  /\ UNCHANGED echoVars

\* t.Wait returns, then sshConn.Wait, and only then is the connection closed.
Finished(c) ==
  /\ conn[c] = "draining"
  /\ \A h \in ChannelsOf(c) : handler[h] # "running"
  /\ Gone(c)
  /\ Close(c, tombs[c])
  /\ UNCHANGED echoVars

Serve(c) ==
  \/ Gone(c) /\ HandshakeFails(c)
  \/ \E h \in ChannelsOf(c) : Dispatch(h) \/ Reject(h)
  \/ Undispatch(c) \/ Finished(c)

Next ==
  \/ Client \/ Stop \/ Listen
  \/ \E c \in Conn : Serve(c) \/ Handshake(c) \/ HandshakeFails(c)
  \/ \E h \in Channel : Handle(h)

\* The server's goroutines run when they can.  Nothing is assumed of a client,
\* nor of a handshake as long as the client is there.
Fairness ==
  /\ WF_vars(Listen)
  /\ \A c \in Conn : WF_vars(Serve(c))
  /\ \A h \in Channel : WF_vars(Handle(h))

Spec == Init /\ [][Next]_vars /\ Fairness

-----------------------------------------------------------------------------
(* Properties. *)

\* A goroutine of c holds a copy of a tomb whose mutex was locked when it was
\* copied: Dying() on it never returns, and nothing more can be expected of c.
Lost(c) == stuck[c] \/ \E h \in ChannelsOf(c) : copied[h]

\* When Stop has returned no goroutine of any connection or channel is left
\* (the chain of Waits in listen, handleTCPConnection and Handle).
StopKillsEverything ==
  Stopped => \A h \in Channel :
               /\ handler[h] # "running"
               /\ main[h] # "select" /\ reader[h] \notin {"read", "send"}

\* The echoes carry the lengths of the messages in the order they came, and
\* with each everything received up to that message and nothing after it, and
\* while both goroutines run none is missing (Handle, the unbuffered in).
EchoesAreInOrder ==
  \A h \in Channel :
    /\ \A i \in DOMAIN replies[h] : replies[h][i] = [length |-> i, data |-> 1..i]
    /\ main[h] = "select" /\ reader[h] = "read" => Len(replies[h]) = taken[h]

\* A request for a channel is taken up, unless its connection is given up, and a
\* connection whose client has hung up is closed in the end, whatever its
\* channels were doing: no select of the dispatcher, the main goroutine or the
\* reader waits for something that will not come.
ConnectionsAreServed ==
  /\ \A h \in Channel :
       request[h] # "none"
         ~> \/ request[h] = "answered"
            \/ conn[Owner[h]] # "serving" \/ stuck[Owner[h]]
  /\ \A c \in Conn :
       conn[c] # "none" /\ Gone(c) ~> conn[c] = "closed" \/ Lost(c)

\* Once every client has hung up, for good, Stop returns.
ClientsLeave == <>[](\A c \in Conn : client[c] # "here")
StopReturnsOnceClientsLeave ==
  ClientsLeave => (stopping ~> Stopped \/ \E c \in Conn : Lost(c))

\* A goroutine of h has its select ready, its read ended or its wait over.
CanHandle(h) ==
  /\ handler[h] = "running"
  /\ \/ Over(h)
     \/ reader[h] = "read" /\ (inbox[h] # <<>> \/ finished[h] \/ Gone(Owner[h]))
     \/ reader[h] = "send" /\ ~ copied[h] /\ (main[h] = "select" \/ Dying(tomb[h]))
     \/ /\ reader[h] = "send" \/ main[h] = "select"
        /\ ~ copied[h] /\ Dying(tombs[Owner[h]])

\* So has the goroutine of c.
CanServe(c) ==
  \/ conn[c] = "handshake" /\ Gone(c)
  \/ /\ conn[c] = "serving" /\ ~ stuck[c]
     /\ \/ Gone(c) \/ Dying(group) \/ Dying(tombs[c])
        \/ \E h \in ChannelsOf(c) : request[h] \in {"known", "unknown"}
  \/ /\ conn[c] = "draining" /\ Gone(c)
     /\ \A h \in ChannelsOf(c) : handler[h] # "running"

\* The client of c is gone and there is still something to be done for c.
Lingers(c) == conn[c] \notin {"none", "closed"} /\ Gone(c)

\* Between the dispatcher of a connection and the two goroutines of each of its
\* channels nobody waits in a circle: if the client is gone and no tomb was copied
\* locked, one of them can run.
NobodyIsStuck ==
  \A c \in Conn : Lingers(c) /\ ~ Lost(c) =>
    CanServe(c) \/ \E h \in ChannelsOf(c) : CanHandle(h)

\* The most steps that are left: of a channel, two for each message and the ends
\* of its goroutines; of a connection, the stages before it is closed; of listen,
\* until it looks at the server's tomb.
One(holds) == IF holds THEN 1 ELSE 0
ChannelLeft(h) ==
  2 * Len(inbox[h]) + One(reader[h] = "send") + One(reader[h] # "done")
    + One(main[h] # "done") + One(handler[h] # "returned") + One(request[h] # "answered")
ConnLeft(c) ==
  IF conn[c] = "none" THEN 4 ELSE
  IF conn[c] = "handshake" THEN 3 ELSE
  IF conn[c] = "serving" THEN 2 ELSE One(conn[c] = "draining")
ListenLeft == IF listener = "accept" THEN 2 ELSE One(listener = "check")

\* Every step of the server comes nearer to the end: a handler's of its channel,
\* the dispatcher's of its connection or of the channel it answers, listen's once
\* Stop was called.  Nothing goes back, but for what a client that is there sends.
WorkRunsOut ==
  [][ /\ \A h \in Channel :
           /\ Handle(h) => ChannelLeft(h)' < ChannelLeft(h)
           /\ Gone(Owner[h]) => ChannelLeft(h)' <= ChannelLeft(h)
      /\ \A c \in Conn :
           /\ Serve(c) => \/ ConnLeft(c)' < ConnLeft(c)
                          \/ \E h \in ChannelsOf(c) : ChannelLeft(h)' < ChannelLeft(h)
           /\ ConnLeft(c)' <= ConnLeft(c)
      /\ stopping /\ Listen => ListenLeft' < ListenLeft ]_vars
=============================================================================
