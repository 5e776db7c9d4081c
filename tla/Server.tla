------------------------------- MODULE Server -------------------------------
(***************************************************************************)
(* `fstore start` and its clients: the process from its start to its end,  *)
(* a session for each connection of a client, the calls and answers that   *)
(* are under way in it, and the connections to the database that the       *)
(* sessions share.  What the store does for a call is ObjectStore's.       *)
(* Sockets, sessions and lists of servers are netcore's, zipline's and a   *)
(* HTTP library's: external.                                               *)
(***************************************************************************)
EXTENDS Protocol, ConnectionPool

CONSTANTS
    Http,       \* the sessions over HTTP, the others are zipline's
    MaxCalls,   \* bound: the calls of all clients
    MaxSize,    \* bound: the bytes of an upload
    MaxFaults   \* bound: the failures of database and file system

ASSUME ServerConstants ==
    /\ Http \subseteq Handlers
    /\ MaxCalls \in Nat /\ MaxSize \in Nat /\ MaxFaults \in Nat

Sessions == Handlers

VARIABLES
    phase,      \* how far the process is
    listening,  \* the lists of servers that accept connections
    signalled,  \* SIGINT or SIGTERM came
    client,     \* the clients' ends of the sessions
    session,    \* the server's ends
    up,         \* what is on its way to the server
    down,       \* what is on its way to the client
    calls,      \* how many calls were made, the last one's number
    astray,     \* the sessions where a call was made after one that was broken off
    faults

processVars == <<phase, listening, signalled>>
callVars == <<calls, astray>>
vars == <<processVars, client, session, up, down, callVars, faults, poolVars>>

Nothing == [n |-> 0, calls |-> "", type |-> "", status |-> "none"]

\* A client without a call, a session without a task.
Outside(at) == [at |-> at, n |-> 0, method |-> "", left |-> 0, outcome |-> Nothing]
NoTask(at) == [at |-> at, left |-> 0, task |-> Nothing]

Init ==
    /\ phase = "starting" /\ listening = {} /\ signalled = FALSE
    /\ client = [s \in Sessions |-> Outside("new")]
    /\ session = [s \in Sessions |-> NoTask("none")]
    /\ up = [s \in Sessions |-> <<>>]
    /\ down = [s \in Sessions |-> <<>>]
    /\ calls = 0 /\ astray = {} /\ faults = 0
    /\ PoolInit

transport(s) == IF s \in Http THEN "http" ELSE "zipline"

Ended(s) == session[s].at \in {"none", "over"}

\* The server's end is closed, and what has not been read is gone.
CloseSession(s) ==
    /\ session' = [session EXCEPT ![s] = NoTask("over")]
    /\ up' = [up EXCEPT ![s] = <<>>]

\* The client's end is closed; what it has sent still arrives.
CloseClient(s) ==
    /\ client' = [client EXCEPT ![s] = Outside("gone")]
    /\ down' = [down EXCEPT ![s] = <<>>]

Bytes(k) == [i \in 1 .. k |-> [kind |-> "byte"]]

-----------------------------------------------------------------------------
(* The process                                                             *)

\* The certificate is loaded first, and ends the program if it cannot be.  An
\* endpoint that cannot be bound is only logged, and is missing in the list.
ListenHttp ==
    /\ phase = "starting"
    /\ \/ phase' = "http" /\ \E bound \in {{}, {"http"}} : listening' = bound
       \/ phase' = "failed" /\ UNCHANGED listening
    /\ UNCHANGED <<signalled, client, session, up, down, callVars, faults, poolVars>>

Listen ==
    /\ phase = "http"
    /\ phase' = "running"
    /\ \E bound \in {{}, {"zipline"}} : listening' = listening \union bound
    /\ UNCHANGED <<signalled, client, session, up, down, callVars, faults, poolVars>>

\* Mutated form: the handler closes one of the two lists.
Signal_one ==
    /\ phase \in {"running", "joined"}
    /\ listening' = listening \ {"zipline"}
    /\ signalled' = TRUE
    /\ UNCHANGED <<phase, client, session, up, down, callVars, faults, poolVars>>

\* handle_signals runs once both lists exist, and closes them.  Closing stops
\* them from accepting; sessions go on (server_context::close is empty).
Signal ==
    /\ phase \in {"running", "joined"}
    /\ listening' = {}
    /\ signalled' = TRUE
    /\ UNCHANGED <<phase, client, session, up, down, callVars, faults, poolVars>>

\* Before that, a signal does what signals do.
Kill ==
    /\ phase \in {"starting", "http"}
    /\ phase' = "killed" /\ listening' = {} /\ signalled' = TRUE
    /\ session' = [s \in Sessions |-> IF Ended(s) THEN session[s] ELSE NoTask("over")]
    /\ up' = [s \in Sessions |-> <<>>]
    /\ prepared' = [c \in Connections |-> {}] /\ idle' = {} /\ held' = [s \in Sessions |-> Null]
    /\ UNCHANGED <<client, down, callVars, faults>>

\* A list is joined when it is closed and its sessions are over.
joins(list) == list \notin listening /\ \A s \in Sessions : transport(s) = list => Ended(s)

JoinServers ==
    /\ phase = "running" /\ joins("zipline")
    /\ phase' = "joined"
    /\ UNCHANGED <<listening, signalled, client, session, up, down, callVars, faults, poolVars>>

\* Mutated form: only the first list is waited for, the second is destroyed.
JoinHttp_at_once ==
    /\ phase = "joined"
    /\ phase' = "stopped" /\ listening' = {}
    /\ destroy
    /\ UNCHANGED <<signalled, client, session, up, down, callVars, faults>>

\* Then routers, store and pool go out of scope.
JoinHttp ==
    /\ phase = "joined" /\ joins("http")
    /\ phase' = "stopped"
    /\ destroy
    /\ UNCHANGED <<listening, signalled, client, session, up, down, callVars, faults>>

-----------------------------------------------------------------------------
(* A client                                                                *)

Connect(s) ==
    /\ client[s].at = "new" /\ transport(s) \in listening
    /\ client' = [client EXCEPT ![s].at = "idle"]
    /\ session' = [session EXCEPT ![s] = NoTask("routing")]
    /\ UNCHANGED <<processVars, up, down, callVars, faults, poolVars>>

\* An upload announces its size, and the caller's function writes it.  Nothing
\* keeps a client from being called after that function threw, and what is still
\* owed of the call before it goes astray: connected and failed ask the socket.
Call(s) ==
    /\ client[s].at \in {"idle", "thrown"} /\ calls < MaxCalls
    /\ \E m \in Methods, size \in 0 .. MaxSize :
        /\ size # 0 => m = "add_object"
        /\ client' = [client EXCEPT ![s] = [@ EXCEPT
                !.at = IF m = "add_object" THEN "sending" ELSE "waiting",
                !.n = calls + 1, !.method = m, !.left = size, !.outcome = Nothing]]
        /\ up' = [up EXCEPT ![s] = Append(@,
                [kind |-> "call", request |-> request(s \in Http, m), n |-> calls + 1, size |-> size])]
    /\ calls' = calls + 1
    /\ astray' = IF client[s].at = "thrown" THEN astray \union {s} ELSE astray
    /\ UNCHANGED <<processVars, session, down, faults, poolVars>>

Write(s) ==
    /\ client[s].at = "sending" /\ client[s].left > 0 /\ ~Ended(s)
    /\ client' = [client EXCEPT ![s].left = @ - 1]
    /\ up' = [up EXCEPT ![s] = Append(@, [kind |-> "byte"])]
    /\ UNCHANGED <<processVars, session, down, callVars, faults, poolVars>>

\* The caller's function throws, or the stream it gave a download does.  The
\* exception leaves the client as it is: its connection stays open, with what was
\* not written and what was not read.  Over HTTP there is no such function.
Throws(s) ==
    /\ s \notin Http
    /\ \/ client[s].at = "sending"
       \/ /\ client[s].at = "waiting" /\ client[s].method = "get_object"
          /\ down[s] # <<>> /\ Head(down[s]).status = "ok"
    /\ client' = [client EXCEPT ![s].at = "thrown"]
    /\ UNCHANGED <<processVars, session, up, down, callVars, faults, poolVars>>

\* The function returns.  Nothing makes it write all it announced.
Wrote(s) ==
    /\ client[s].at = "sending" /\ (s \in Http => client[s].left = 0)
    /\ client' = [client EXCEPT ![s].at = "waiting"]
    /\ UNCHANGED <<processVars, session, up, down, callVars, faults, poolVars>>

\* Of a client gone astray the answer may be another call's, and then be less
\* than what it decodes, or more.
Receive(s) ==
    /\ client[s].at = "waiting" /\ down[s] # <<>>
    /\ \/ /\ client' = [client EXCEPT ![s] = [@ EXCEPT !.at = "idle", !.outcome = Head(down[s])]]
          /\ \/ down' = [down EXCEPT ![s] = Tail(@)]
             \/ s \in astray /\ UNCHANGED down
       \/ s \in astray /\ UNCHANGED client /\ down' = [down EXCEPT ![s] = Tail(@)]
    /\ UNCHANGED <<processVars, session, up, callVars, faults, poolVars>>

\* The server has hung up: the call's fate is unknown.
Lost(s) ==
    /\ client[s].at \in {"sending", "waiting"} /\ Ended(s)
    /\ client[s].at = "waiting" => down[s] = <<>>
    /\ CloseClient(s)
    /\ UNCHANGED <<processVars, session, up, callVars, faults, poolVars>>

\* The client is given up, possibly in the middle of a call.
Leave(s) ==
    /\ client[s].at \in {"idle", "sending", "thrown", "waiting"}
    /\ CloseClient(s)
    /\ UNCHANGED <<processVars, session, up, callVars, faults, poolVars>>

Left(s) == client[s].at = "gone"

Client(s) ==
    \/ Connect(s) \/ Call(s) \/ Write(s) \/ Throws(s) \/ Wrote(s)
    \/ Receive(s) \/ Lost(s) \/ Leave(s)

-----------------------------------------------------------------------------
(* A session of the server                                                 *)

arrives(s, call) ==
    LET h == handler(s \in Http, call.request)
    IN [n |-> call.n, calls |-> h.calls, type |-> h.type, status |-> "ok"]

\* Mutated form: an upload is refused before its stream is read.
Route_rejecting(s) ==
    /\ session[s].at = "routing" /\ up[s] # <<>> /\ Head(up[s]).kind = "call"
    /\ up' = [up EXCEPT ![s] = Tail(@)]
    /\ LET call == Head(up[s])
           task == arrives(s, call)
       IN session' = [session EXCEPT ![s] = [task |-> task, left |-> call.size,
              at |-> IF task.calls \in {"add_object", "get_server_info"} THEN "answering" ELSE "connecting"]]
    /\ UNCHANGED <<processVars, client, down, callVars, faults, poolVars>>

\* What comes next is taken for a call.
Route(s) ==
    /\ session[s].at = "routing" /\ up[s] # <<>> /\ Head(up[s]).kind = "call"
    /\ up' = [up EXCEPT ![s] = Tail(@)]
    /\ LET call == Head(up[s])
           task == arrives(s, call)
       IN session' = [session EXCEPT ![s] = [task |-> task, left |-> call.size,
              at |-> IF task.calls = "add_object" THEN "streaming"
                     ELSE IF uses_database(task.calls) THEN "connecting" ELSE "answering"]]
    /\ UNCHANGED <<processVars, client, down, callVars, faults, poolVars>>

\* Bytes are taken for one, too: for an event there is not, or for any call, the
\* rest of which is read from what follows.
RouteBytes(s) ==
    /\ session[s].at = "routing" /\ up[s] # <<>> /\ Head(up[s]).kind = "byte"
    /\ \/ CloseSession(s)
       \/ /\ up' = [up EXCEPT ![s] = Tail(@)]
          /\ \E m \in Methods, size \in 0 .. MaxSize :
                session' = [session EXCEPT ![s] = [at |-> "streaming", left |-> size,
                    task |-> [n |-> 0, calls |-> m, type |-> router_context[m], status |-> "ok"]]]
    /\ UNCHANGED <<processVars, client, down, callVars, faults, poolVars>>

\* The part is written as its bytes come.
Read(s) ==
    /\ session[s].at = "streaming" /\ session[s].left > 0
    /\ up[s] # <<>> /\ Head(up[s]).kind = "byte"
    /\ up' = [up EXCEPT ![s] = Tail(@)]
    /\ session' = [session EXCEPT ![s].left = @ - 1]
    /\ UNCHANGED <<processVars, client, down, callVars, faults, poolVars>>

\* A call is bytes, too: some are read as the stream's, the others remain.
ReadCall(s) ==
    /\ session[s].at = "streaming" /\ session[s].left > 0
    /\ up[s] # <<>> /\ Head(up[s]).kind = "call"
    /\ \E more \in 0 .. MaxSize : up' = [up EXCEPT ![s] = Bytes(more) \o Tail(@)]
    /\ session' = [session EXCEPT ![s].left = @ - 1]
    /\ UNCHANGED <<processVars, client, down, callVars, faults, poolVars>>

EndStream(s) ==
    /\ session[s].at = "streaming" /\ session[s].left = 0
    /\ session' = [session EXCEPT ![s].at =
            IF uses_database(session[s].task.calls) THEN "connecting" ELSE "answering"]
    /\ UNCHANGED <<processVars, client, up, down, callVars, faults, poolVars>>

Checkout(s) ==
    /\ session[s].at = "connecting"
    /\ checkout(s)
    /\ session' = [session EXCEPT ![s].at = "executing"]
    /\ UNCHANGED <<processVars, client, up, down, callVars, faults>>

Answers(s, status) == session' = [session EXCEPT ![s] = [@ EXCEPT !.at = "answering", !.task.status = status]]

\* The database takes no connection, or a statement cannot be prepared.
ProvideFails(s) ==
    /\ session[s].at = "connecting" /\ faults < MaxFaults
    /\ idle = {} /\ \E c \in Connections : Closed(c)
    /\ Answers(s, "unlisted")
    /\ faults' = faults + 1
    /\ UNCHANGED <<processVars, client, up, down, callVars, poolVars>>

\* Mutated form: the connection is kept.
Execute_holding(s) ==
    /\ session[s].at = "executing"
    /\ \E status \in {"ok"} \union throws(session[s].task.calls) : Answers(s, status)
    /\ UNCHANGED <<processVars, client, up, down, callVars, faults, poolVars>>

\* The connection is given back before the answer is sent.
Execute(s) ==
    /\ session[s].at = "executing"
    /\ release(s)
    /\ \E status \in {"ok"} \union throws(session[s].task.calls) : Answers(s, status)
    /\ UNCHANGED <<processVars, client, up, down, callVars, faults>>

\* Mutated form: a connection that broke is not closed.
ExecuteFails_leaking(s) ==
    /\ session[s].at = "executing" /\ faults < MaxFaults
    /\ held' = [held EXCEPT ![s] = Null]
    /\ Answers(s, "unlisted")
    /\ faults' = faults + 1
    /\ UNCHANGED <<processVars, client, up, down, prepared, idle, callVars>>

\* The call fails, of which the connection may break.
ExecuteFails(s) ==
    /\ session[s].at = "executing" /\ faults < MaxFaults
    /\ release(s) \/ discard(s)
    /\ Answers(s, "unlisted")
    /\ faults' = faults + 1
    /\ UNCHANGED <<processVars, client, up, down, callVars>>

\* For an error that is not in the list the client gets a general one, or the
\* session ends.
Respond(s) ==
    /\ session[s].at = "answering"
    /\ \/ /\ ~Left(s)
          /\ down' = [down EXCEPT ![s] = Append(@, session[s].task)]
          /\ session' = [session EXCEPT ![s] = NoTask("routing")]
          /\ UNCHANGED up
       \/ /\ Left(s) \/ session[s].task.status = "unlisted"
          /\ CloseSession(s)
          /\ UNCHANGED down
    /\ UNCHANGED <<processVars, client, callVars, faults, poolVars>>

\* The client's end of the stream.
Hangup(s) ==
    /\ Left(s) /\ up[s] = <<>>
    /\ \/ session[s].at = "routing"
       \/ session[s].at = "streaming" /\ session[s].left > 0
    /\ CloseSession(s)
    /\ UNCHANGED <<processVars, client, down, callVars, faults, poolVars>>

\* No call came within the endpoint's timeout, as far as the server has seen.
IdleTimeout(s) ==
    /\ s \notin Http /\ session[s].at = "routing"
    /\ CloseSession(s)
    /\ UNCHANGED <<processVars, client, down, callVars, faults, poolVars>>

Serve(s) ==
    \/ Route(s) \/ RouteBytes(s) \/ Read(s) \/ ReadCall(s) \/ EndStream(s)
    \/ Checkout(s) \/ ProvideFails(s) \/ Execute(s) \/ ExecuteFails(s)
    \/ Respond(s) \/ Hangup(s) \/ IdleTimeout(s)

Process == ListenHttp \/ Listen \/ Signal \/ Kill \/ JoinServers \/ JoinHttp

Next == Process \/ \E s \in Sessions : Client(s) \/ Serve(s)

Spec == Init /\ [][Next]_vars

\* The process gets on with what it can do, a session's timer expires, and the
\* client's library takes an answer that has come.  Nothing is asked of those who
\* call it, of signals or of faults.
Fairness ==
    /\ WF_vars(ListenHttp) /\ WF_vars(Listen) /\ WF_vars(JoinServers) /\ WF_vars(JoinHttp)
    /\ \A s \in Sessions :
        /\ WF_vars(Route(s)) /\ WF_vars(RouteBytes(s))
        /\ WF_vars(Read(s)) /\ WF_vars(ReadCall(s)) /\ WF_vars(EndStream(s))
        /\ WF_vars(Checkout(s)) /\ WF_vars(Execute(s)) /\ WF_vars(Respond(s))
        /\ WF_vars(Hangup(s)) /\ WF_vars(IdleTimeout(s))
        /\ WF_vars(Receive(s)) /\ WF_vars(Lost(s))

FairSpec == Spec /\ Fairness
-----------------------------------------------------------------------------
Statuses == {"none", "ok", "not_found", "unlisted"}

\* Ends of sessions are in one of their states, what is under way is a call or a
\* byte in one direction and, unless the client has gone astray, at most one answer
\* in the other, and who holds a connection is executing (the variables of
\* start.cpp, of the client's and of the router's coroutines).
ServerTypeOK ==
    /\ phase \in {"starting", "http", "running", "joined", "stopped", "failed", "killed"}
    /\ listening \subseteq {"http", "zipline"} /\ signalled \in BOOLEAN
    /\ \A s \in Sessions :
        /\ client[s].at \in {"new", "idle", "sending", "thrown", "waiting", "gone"}
        /\ client[s].n \in 0 .. MaxCalls /\ client[s].left \in 0 .. MaxSize
        /\ session[s].at \in {"none", "routing", "streaming", "connecting", "executing", "answering", "over"}
        /\ session[s].left \in 0 .. MaxSize
        /\ client[s].outcome.status \in Statuses /\ session[s].task.status \in Statuses
        /\ \A i \in DOMAIN up[s] : up[s][i].kind \in {"call", "byte"}
        /\ Len(down[s]) > 1 => s \in astray
        /\ held[s] # Null <=> session[s].at = "executing"
    /\ calls \in 0 .. MaxCalls /\ astray \subseteq Sessions \ Http /\ faults \in 0 .. MaxFaults

\* The one way out of step is a client that is called again after its caller's
\* function threw in the middle of a call: what is owed of that call is then made up
\* of the next one's bytes.  Only its own session is lost by it.
InOrder(s) == s \notin astray

\* Nothing on the wire tells where a call begins and where the bytes of an upload
\* end: the server must count them (object_store::add_object of the client,
\* router_context::add_object).  When it looks for a call there is a call next, and
\* when it reads a stream there are bytes next, whatever the calls before it came
\* to, although the client's function may have written too little or may just have
\* thrown, and although other clients go astray.
InStep ==
    \A s \in Sessions : InOrder(s) =>
        /\ session[s].at = "routing" /\ up[s] # <<>> => Head(up[s]).kind = "call"
        /\ session[s].at = "streaming" /\ session[s].left > 0 /\ up[s] # <<>> =>
              Head(up[s]).kind = "byte"

\* What a client that has not gone astray gets for a call answers that call and no
\* earlier one, comes from the handler of the method it called, and can be decoded
\* as what that method returns.  The events and the routes are two lists in two
\* files (event.hpp, make_router), as are the paths of the HTTP client and router.
AnswerFitsCall ==
    \A s \in Sessions : LET o == client[s].outcome IN
        InOrder(s) /\ o.status # "none" =>
            /\ o.n = client[s].n
            /\ o.calls = client[s].method
            /\ o.status = "ok" => encoded(o.type) = reads(s \in Http, client[s].method)

\* The routers, the store and its pool are local to the coroutine of `start` and to
\* the container it runs in (start.cpp, api.hpp): when they are gone nobody accepts
\* a connection, no session is in a handler, and no connection to the database is
\* left open.
StoreOutlivesHandlers ==
    phase \in {"stopped", "failed", "killed"} =>
        /\ listening = {}
        /\ \A s \in Sessions : Ended(s)
        /\ \A c \in Connections : Closed(c)

\* A call whose request was written to its end comes to an end too, with an
\* answer or with a connection that is closed: whoever else waits for the one
\* connection to the database, after failures of it, if other clients go astray, and
\* if the server is told to stop or the session times out in the middle
\* (client::read_response, pool).
CallEnds ==
    \A s \in Sessions :
        (client[s].at = "waiting" /\ client[s].left = 0 /\ InOrder(s)) ~> client[s].at # "waiting"

\* Somebody else decides when the session goes on: the client owes bytes it
\* announced, or keeps an HTTP session open, for which the server sets no timeout.
Stalled(s) ==
    /\ ~Left(s) /\ up[s] = <<>>
    /\ \/ session[s].at = "streaming" /\ session[s].left > 0
       \/ s \in Http /\ session[s].at = "routing"

\* After SIGINT or SIGTERM the process comes to an end, with all sessions over,
\* unless a client stalls for ever (handle_signals, join).
StopsAtSignal ==
    \/ signalled ~> phase \in {"stopped", "killed"}
    \/ \E s \in Sessions : <>[]Stalled(s)
=============================================================================
