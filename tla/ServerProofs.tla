---------------------------- MODULE ServerProofs ----------------------------
(***************************************************************************)
(* The invariant of ServerInvariant is inductive: proofs of the safety     *)
(* properties of Server for any number of sessions, connections and calls. *)
(***************************************************************************)
EXTENDS ServerInvariant, SequenceTheorems, TLAPS

-----------------------------------------------------------------------------
(* The two ends of a call                                                  *)

\* A client's event reaches the handler of its method.
LEMMA EventReaches ==
    ASSUME NEW m \in Methods
    PROVE  make_router[event_code(m)] = m
<1>1. PICK code \in DOMAIN event : event[code] = m
  BY SMT DEF Methods, event
<1>2. event_code(m) \in DOMAIN event /\ event[event_code(m)] = m
  BY <1>1 DEF event_code
<1>. QED  BY <1>2, SMT DEF event, make_router

\* Each path and verb has one route.
LEMMA RouteFound ==
    ASSUME NEW m \in Methods
    PROVE  /\ handler(TRUE, http_request[m]).calls = m
           /\ handler(TRUE, http_request[m]).type = router_context[m]
<1>. DEFINE found == CHOOSE r \in http_router : r.route = http_request[m]
<1>1. \E r \in http_router : r.route = http_request[m]
  BY SMT DEF Methods, http_router, http_request
<1>2. found \in http_router /\ found.route = http_request[m]
  BY <1>1
<1>3. \A r \in http_router : r.route = http_request[m] => r.calls = m /\ r.type = router_context[m]
  BY SMT DEF Methods, http_router, http_request, router_context
<1>4. handler(TRUE, http_request[m]) = found
  BY DEF handler
<1>. QED  BY <1>2, <1>3, <1>4

\* Over either transport, a request reaches the handler of its method, and what
\* that answers is what the method decodes.
LEMMA HandlerFits ==
    ASSUME NEW s \in Sessions, NEW m \in Methods
    PROVE  LET h == handler(s \in Http, request(s \in Http, m))
           IN  h.calls = m /\ h.type = router_context[m] /\ encoded(h.type) = reads(s \in Http, m)
<1>. DEFINE http == s \in Http
            h == handler(http, request(http, m))
<1>1. h.calls = m /\ h.type = router_context[m]
  <2>1. CASE http
    BY <2>1, RouteFound DEF request, handler
  <2>2. CASE ~http
    BY <2>2, EventReaches DEF request, handler
  <2>. QED  BY <2>1, <2>2
<1>2. encoded(router_context[m]) = reads(http, m)
  BY SMT DEF Methods, encoded, router_context, reads, http_reads, client_reads
<1>. QED  BY <1>1, <1>2

-----------------------------------------------------------------------------
(* Connections                                                             *)

\* What the provider prepares is all that is run, and not nothing.
LEMMA Provided == Statements \subseteq provide /\ provide # {}
<1>1. ASSUME NEW m \in Members PROVE statement(m) \in provide
  BY DEF statement, provide
<1>2. <<"get_objects", 0>> \in provide
  BY DEF provide
<1>. QED  BY <1>1, <1>2 DEF Statements

\* A connection that is checked out, new or idle, is its holder's alone.
LEMMA CheckoutSound ==
    ASSUME PoolShape, PoolSound, NEW s \in Sessions, held[s] = Null, checkout(s)
    PROVE  /\ PoolShape' /\ PoolSound'
           /\ \A t \in Sessions : held'[t] # Null <=> t = s \/ held[t] # Null
<1>. USE DEF Sessions
<1>1. PICK c \in Connections :
         /\ \/ c \in idle /\ idle' = idle \ {c} /\ UNCHANGED prepared
            \/ /\ idle = {} /\ Closed(c)
               /\ prepared' = [prepared EXCEPT ![c] = provide] /\ UNCHANGED idle
         /\ held' = [held EXCEPT ![s] = c]
  BY DEF checkout
<1>2. c # Null
  BY NullIsNoConnection
<1>3. PoolShape' /\ \A t \in Sessions : held'[t] # Null <=> t = s \/ held[t] # Null
  BY <1>1, <1>2 DEF PoolShape
<1>4. \A h \in Handlers : held[h] # c
  BY <1>1, <1>2 DEF PoolSound
<1>5. prepared'[c] = provide /\ c \notin idle'
  BY <1>1, Provided DEF PoolSound, PoolShape, Closed
<1>6. \A d \in Connections \ {c} : prepared'[d] = prepared[d] /\ (d \in idle' <=> d \in idle)
  BY <1>1 DEF PoolShape
<1>7. \A h \in Handlers : held'[h] = IF h = s THEN c ELSE held[h]
  BY <1>1 DEF PoolShape
<1>8. ASSUME NEW h \in Handlers, held'[h] # Null
      PROVE  /\ held'[h] \notin idle'
             /\ \A g \in Handlers : held'[g] = held'[h] => g = h
             /\ Statements \subseteq prepared'[held'[h]]
  <2>1. CASE h = s
    BY <2>1, <1>4, <1>5, <1>7, Provided
  <2>2. CASE h # s
    <3>1. held'[h] = held[h] /\ held[h] \in Connections \ {c}
      BY <2>2, <1>4, <1>7, <1>8 DEF PoolShape
    <3>. QED  BY <2>2, <3>1, <1>6, <1>7, <1>8 DEF PoolSound
  <2>. QED  BY <2>1, <2>2
<1>9. ASSUME NEW d \in Connections
      PROVE  prepared'[d] = {} <=> d \notin idle' /\ \A h \in Handlers : held'[h] # d
  <2>1. CASE d = c
    BY <2>1, <1>5, <1>7, Provided
  <2>2. CASE d # c
    <3>1. \A h \in Handlers : held'[h] = d <=> held[h] = d
      BY <2>2, <1>7, NullIsNoConnection
    <3>. QED  BY <2>2, <3>1, <1>6 DEF PoolSound, Closed
  <2>. QED  BY <2>1, <2>2
<1>. QED  BY <1>3, <1>8, <1>9 DEF PoolSound, Closed

\* A connection goes back to the pool, or is dropped, when its holder is done.
LEMMA ReleaseSound ==
    ASSUME PoolShape, PoolSound, NEW s \in Sessions, held[s] # Null, release(s) \/ discard(s)
    PROVE  /\ PoolShape' /\ PoolSound'
           /\ \A t \in Sessions : held'[t] # Null <=> t # s /\ held[t] # Null
<1>. USE DEF Sessions
<1>. DEFINE c == held[s]
<1>1. c \in Connections /\ c # Null
  BY DEF PoolShape
<1>2. /\ \A h \in Handlers : held'[h] = IF h = s THEN Null ELSE held[h]
      /\ \A h \in Handlers : h # s => held[h] # c
  BY DEF PoolShape, PoolSound, release, discard
<1>3. PoolShape' /\ \A t \in Sessions : held'[t] # Null <=> t # s /\ held[t] # Null
  BY <1>1 DEF PoolShape, release, discard
<1>4. \A d \in Connections \ {c} : prepared'[d] = prepared[d] /\ (d \in idle' <=> d \in idle)
  BY <1>1 DEF PoolShape, release, discard
<1>5. prepared'[c] = {} <=> c \notin idle'
  BY <1>1, Provided DEF PoolShape, PoolSound, Closed, release, discard
<1>6. ASSUME NEW h \in Handlers, held'[h] # Null
      PROVE  /\ held'[h] \notin idle'
             /\ \A g \in Handlers : held'[g] = held'[h] => g = h
             /\ Statements \subseteq prepared'[held'[h]]
  <2>1. h # s /\ held'[h] = held[h] /\ held[h] \in Connections \ {c}
    BY <1>2, <1>6 DEF PoolShape
  <2>. QED  BY <2>1, <1>2, <1>4, <1>6 DEF PoolSound
<1>7. ASSUME NEW d \in Connections
      PROVE  prepared'[d] = {} <=> d \notin idle' /\ \A h \in Handlers : held'[h] # d
  <2>1. CASE d = c
    BY <2>1, <1>1, <1>2, <1>5
  <2>2. CASE d # c
    <3>1. \A h \in Handlers : held'[h] = d <=> held[h] = d
      BY <2>2, <1>2, NullIsNoConnection
    <3>. QED  BY <2>2, <3>1, <1>4 DEF PoolSound, Closed
  <2>. QED  BY <2>1, <2>2
<1>. QED  BY <1>3, <1>6, <1>7 DEF PoolSound, Closed

\* With nothing held, a pool that is destroyed leaves nothing open.
LEMMA DestroySound ==
    ASSUME PoolShape, PoolSound, \A h \in Sessions : held[h] = Null, destroy
    PROVE  PoolShape' /\ PoolSound' /\ \A c \in Connections : Closed(c)'
<1>. USE DEF Sessions
<1>1. idle' = {} /\ held' = held /\ prepared' = [c \in Connections |-> IF c \in idle THEN {} ELSE prepared[c]]
  BY DEF destroy
<1>2. ASSUME NEW c \in Connections PROVE prepared'[c] = {}
  BY <1>1, NullIsNoConnection DEF PoolSound, Closed
<1>. QED  BY <1>1, <1>2, NullIsNoConnection DEF PoolShape, PoolSound, Closed

-----------------------------------------------------------------------------
(* Shapes                                                                  *)

\* The outcome of no call is well-formed.
LEMMA NothingIsTask == Nothing \in Tasks
BY ServerConstants DEF Nothing, Tasks, Statuses

\* A client outside a call is well-formed.
LEMMA OutsideIsClient ==
    ASSUME NEW at \in {"new", "idle", "gone"} PROVE Outside(at) \in Clients
BY NothingIsTask, ServerConstants DEF Outside, Clients

\* A session without a task is well-formed.
LEMMA NoTaskIsEnd ==
    ASSUME NEW at \in {"none", "routing", "over"} PROVE NoTask(at) \in Ends
BY NothingIsTask, ServerConstants DEF NoTask, Ends

\* A call at the head of what arrives is of one of the methods, and reaches its
\* handler.
LEMMA Arrives ==
    ASSUME NEW s \in Sessions, NEW call \in CallTokens(s)
    PROVE  /\ arrives(s, call) \in Tasks
           /\ arrives(s, call).n = call.n /\ arrives(s, call).status = "ok"
           /\ arrives(s, call).calls \in Methods
           /\ call.request = request(s \in Http, arrives(s, call).calls)
           /\ encoded(arrives(s, call).type) = reads(s \in Http, arrives(s, call).calls)
<1>1. PICK m \in Methods : call.request = request(s \in Http, m)
  BY DEF CallTokens
<1>2. LET h == handler(s \in Http, call.request)
      IN  h.calls = m /\ h.type = router_context[m] /\ encoded(h.type) = reads(s \in Http, m)
  BY <1>1, HandlerFits
<1>3. router_context[m] \in Types
  BY DEF Types
<1>4. call.n \in 0 .. MaxCalls
  BY DEF CallTokens
<1>5. arrives(s, call) =
        [n |-> call.n, calls |-> m, type |-> router_context[m], status |-> "ok"]
  BY <1>1, <1>2 DEF arrives
<1>6. [n |-> call.n, calls |-> m, type |-> router_context[m], status |-> "ok"] \in Tasks
  BY <1>3, <1>4 DEF Tasks, Statuses
<1>7. arrives(s, call).calls = m /\ arrives(s, call).type = router_context[m]
  BY <1>5
<1>8. encoded(router_context[m]) = reads(s \in Http, m)
  BY <1>2
<1>. QED  BY ONLY <1>1, <1>5, <1>6, <1>7, <1>8, m \in Methods

\* The tokens under way: appending one keeps the shape, and so does taking one.
LEMMA Appended ==
    ASSUME ServerShape, NEW s \in Sessions, NEW token \in CallTokens(s) \union ByteTokens,
           up' = [up EXCEPT ![s] = Append(@, token)]
    PROVE  DOMAIN up' = Sessions /\ \A t \in Sessions : up'[t] \in Seq(CallTokens(t) \union ByteTokens)
<1>1. up[s] \in Seq(CallTokens(s) \union ByteTokens)
  BY DEF ServerShape
<1>2. up'[s] = Append(up[s], token) /\ \A t \in Sessions \ {s} : up'[t] = up[t]
  BY DEF ServerShape
<1>3. up'[s] \in Seq(CallTokens(s) \union ByteTokens)
  BY <1>1, <1>2
<1>. QED  BY <1>2, <1>3 DEF ServerShape

\* Taking what came first leaves calls and bytes on the way.
LEMMA Taken ==
    ASSUME ServerShape, NEW s \in Sessions, up[s] # <<>>, up' = [up EXCEPT ![s] = Tail(@)]
    PROVE  DOMAIN up' = Sessions /\ \A t \in Sessions : up'[t] \in Seq(CallTokens(t) \union ByteTokens)
<1>1. up[s] \in Seq(CallTokens(s) \union ByteTokens)
  BY DEF ServerShape
<1>2. up'[s] = Tail(up[s]) /\ \A t \in Sessions \ {s} : up'[t] = up[t]
  BY DEF ServerShape
<1>3. up'[s] \in Seq(CallTokens(s) \union ByteTokens)
  BY <1>1, <1>2
<1>. QED  BY <1>2, <1>3 DEF ServerShape

\* A session that is over has nothing on the way.
LEMMA Cleared ==
    ASSUME ServerShape, NEW s \in Sessions, up' = [up EXCEPT ![s] = <<>>]
    PROVE  DOMAIN up' = Sessions /\ \A t \in Sessions : up'[t] \in Seq(CallTokens(t) \union ByteTokens)
<1>1. up'[s] = <<>> /\ \A t \in Sessions \ {s} : up'[t] = up[t]
  BY DEF ServerShape
<1>2. up'[s] \in Seq(CallTokens(s) \union ByteTokens)
  BY <1>1, EmptySeq
<1>. QED  BY <1>1, <1>2 DEF ServerShape

\* What is first in a session is a call or a byte.
LEMMA HeadToken ==
    ASSUME ServerShape, NEW s \in Sessions, up[s] # <<>>
    PROVE  /\ Head(up[s]) \in CallTokens(s) \union ByteTokens
           /\ Head(up[s]).kind = "call" => Head(up[s]) \in CallTokens(s)
<1>1. up[s] \in Seq(CallTokens(s) \union ByteTokens)
  BY DEF ServerShape
<1>2. Head(up[s]) \in CallTokens(s) \union ByteTokens
  BY <1>1, HeadTailProperties
<1>3. Head(up[s]) \in ByteTokens => Head(up[s]).kind = "byte"
  BY DEF ByteTokens
<1>. QED  BY <1>2, <1>3

\* The steps of the process keep the ranges.
LEMMA ProcessShape ==
    ASSUME ServerShape, PoolSound, HeldWhileExecuting, Process
    PROVE  ServerShape'
<1>. USE DEF callVars
<1>1. CASE ListenHttp
  BY <1>1 DEF ListenHttp, ServerShape, PoolShape, poolVars
<1>2. CASE Listen
  BY <1>2 DEF Listen, ServerShape, PoolShape, poolVars
<1>3. CASE Signal
  BY <1>3 DEF Signal, ServerShape, PoolShape, poolVars
<1>4. CASE Kill
  <2>1. session' \in [Sessions -> Ends]
    BY <1>4, NoTaskIsEnd DEF Kill, ServerShape
  <2>2. DOMAIN up' = Sessions /\ \A s \in Sessions : up'[s] = <<>>
    BY <1>4 DEF Kill
  <2>3. \A s \in Sessions : up'[s] \in Seq(CallTokens(s) \union ByteTokens)
    BY <2>2, EmptySeq
  <2>4. PoolShape'
    BY <1>4 DEF Kill, PoolShape
  <2>. QED  BY <1>4, <2>1, <2>2, <2>3, <2>4 DEF Kill, ServerShape
<1>5. CASE JoinServers
  BY <1>5 DEF JoinServers, ServerShape, PoolShape, poolVars
<1>6. CASE JoinHttp
  BY <1>6 DEF JoinHttp, destroy, ServerShape, PoolShape
<1>. QED  BY <1>1, <1>2, <1>3, <1>4, <1>5, <1>6 DEF Process

\* The steps of a client keep the ranges.
LEMMA ClientShape ==
    ASSUME ServerShape, NEW s \in Sessions, Client(s)
    PROVE  ServerShape'
<1>. USE DEF processVars, callVars, poolVars
<1>1. CASE Connect(s)
  BY <1>1, NoTaskIsEnd, ZenonT(60) DEF Connect, ServerShape, PoolShape, Clients
<1>2. CASE Call(s)
  <2>1. PICK m \in Methods, size \in 0 .. MaxSize :
          /\ client' = [client EXCEPT ![s] = [@ EXCEPT
                !.at = IF m = "add_object" THEN "sending" ELSE "waiting",
                !.n = calls + 1, !.method = m, !.left = size, !.outcome = Nothing]]
          /\ up' = [up EXCEPT ![s] = Append(@,
                [kind |-> "call", request |-> request(s \in Http, m), n |-> calls + 1, size |-> size])]
    BY <1>2 DEF Call
  <2>2. calls + 1 \in 0 .. MaxCalls /\ calls' = calls + 1
    BY <1>2, ServerConstants DEF Call, ServerShape
  <2>3. client' \in [Sessions -> Clients]
    <3>1. [client[s] EXCEPT
              !.at = IF m = "add_object" THEN "sending" ELSE "waiting",
              !.n = calls + 1, !.method = m, !.left = size, !.outcome = Nothing] \in Clients
      <4>1. client[s] \in Clients
        BY DEF ServerShape
      <4>. QED  BY <2>2, <4>1, NothingIsTask DEF Clients
    <3>. QED  BY <2>1, <3>1 DEF ServerShape
  <2>4. [kind |-> "call", request |-> request(s \in Http, m), n |-> calls + 1, size |-> size]
          \in CallTokens(s)
    BY <2>2 DEF CallTokens
  <2>5. DOMAIN up' = Sessions /\ \A t \in Sessions : up'[t] \in Seq(CallTokens(t) \union ByteTokens)
    BY <2>1, <2>4, Appended
  <2>. QED  BY <1>2, <2>2, <2>3, <2>5 DEF Call, ServerShape, PoolShape
<1>3. CASE Write(s)
  <2>1. client' \in [Sessions -> Clients]
    <3>0. client[s].left \in 0 .. MaxSize /\ client[s].left > 0
      BY <1>3 DEF Write, ServerShape, Clients
    <3>1. client[s].left - 1 \in 0 .. MaxSize
      BY <3>0, ServerConstants
    <3>2. [client[s] EXCEPT !.left = @ - 1] \in Clients
      BY <3>1 DEF ServerShape, Clients
    <3>. QED  BY <1>3, <3>2 DEF Write, ServerShape
  <2>2. DOMAIN up' = Sessions /\ \A t \in Sessions : up'[t] \in Seq(CallTokens(t) \union ByteTokens)
    BY <1>3, Appended DEF Write, ByteTokens
  <2>. QED  BY <1>3, <2>1, <2>2 DEF Write, ServerShape, PoolShape
<1>4. CASE Throws(s) \/ Wrote(s)
  <2>1. PICK at \in {"thrown", "waiting"} : client' = [client EXCEPT ![s].at = at]
    BY <1>4 DEF Throws, Wrote
  <2>2. [client[s] EXCEPT !.at = at] \in Clients
    <3>1. client[s] \in Clients
      BY DEF ServerShape
    <3>. QED  BY <3>1 DEF Clients
  <2>3. client' \in [Sessions -> Clients]
    BY <2>1, <2>2 DEF ServerShape
  <2>. QED  BY <1>4, <2>3 DEF Throws, Wrote, ServerShape, PoolShape
<1>5. CASE Receive(s)
  <2>1. down[s] \in Seq(Tasks) /\ down[s] # <<>>
    BY <1>5 DEF Receive, ServerShape
  <2>2. Head(down[s]) \in Tasks /\ Tail(down[s]) \in Seq(Tasks)
    BY <2>1, HeadTailProperties
  <2>3. [client[s] EXCEPT !.at = "idle", !.outcome = Head(down[s])] \in Clients
    BY <2>2, ZenonT(60) DEF ServerShape, Clients
  <2>4. client' \in [Sessions -> Clients] /\ down' \in [Sessions -> Seq(Tasks)]
    BY <1>5, <2>2, <2>3 DEF Receive, ServerShape
  <2>. QED  BY <1>5, <2>4 DEF Receive, ServerShape, PoolShape
<1>6. ASSUME CloseClient(s), UNCHANGED <<processVars, session, up, callVars, faults, poolVars>>
      PROVE  ServerShape'
  <2>1. client' \in [Sessions -> Clients] /\ down' \in [Sessions -> Seq(Tasks)]
    BY <1>6, OutsideIsClient, EmptySeq DEF CloseClient, ServerShape
  <2>. QED  BY <1>6, <2>1 DEF ServerShape, PoolShape
<1>. QED  BY <1>1, <1>2, <1>3, <1>4, <1>5, <1>6 DEF Client, Lost, Leave

\* The steps of a session keep the ranges.
LEMMA ServeShape ==
    ASSUME ServerShape, PoolSound, HeldWhileExecuting,
           NEW s \in Sessions, Serve(s)
    PROVE  ServerShape'
<1>. USE DEF processVars, callVars, poolVars
<1>1. CASE Route(s)
  <2>1. up[s] # <<>> /\ Head(up[s]) \in CallTokens(s)
    BY <1>1, HeadToken DEF Route
  <2>2. PICK at \in Busy : session' = [session EXCEPT ![s] =
          [task |-> arrives(s, Head(up[s])), left |-> Head(up[s]).size, at |-> at]]
    BY <1>1 DEF Route, Busy
  <2>3. [task |-> arrives(s, Head(up[s])), left |-> Head(up[s]).size, at |-> at] \in Ends
    <3>1. Head(up[s]).size \in 0 .. MaxSize
      BY <2>1 DEF CallTokens
    <3>2. arrives(s, Head(up[s])) \in Tasks
      BY <2>1, Arrives
    <3>. QED  BY <3>1, <3>2 DEF Ends
  <2>4. session' \in [Sessions -> Ends]
    BY <2>2, <2>3 DEF ServerShape
  <2>5. up' = [up EXCEPT ![s] = Tail(@)]
    BY <1>1 DEF Route
  <2>6. DOMAIN up' = Sessions /\ \A t \in Sessions : up'[t] \in Seq(CallTokens(t) \union ByteTokens)
    BY <2>1, <2>5, Taken
  <2>. QED  BY <1>1, <2>4, <2>6 DEF Route, ServerShape, PoolShape
<1>2. CASE Read(s)
  <2>1. session' \in [Sessions -> Ends]
    <3>1. session[s].left - 1 \in 0 .. MaxSize
      BY <1>2, ServerConstants DEF Read, ServerShape, Ends
    <3>2. [session[s] EXCEPT !.left = @ - 1] \in Ends
      BY <3>1 DEF ServerShape, Ends
    <3>. QED  BY <1>2, <3>2 DEF Read, ServerShape
  <2>2. DOMAIN up' = Sessions /\ \A t \in Sessions : up'[t] \in Seq(CallTokens(t) \union ByteTokens)
    BY <1>2, Taken DEF Read
  <2>. QED  BY <1>2, <2>1, <2>2 DEF Read, ServerShape, PoolShape
<1>3. CASE EndStream(s)
  <2>1. PICK at \in Busy : session' = [session EXCEPT ![s].at = at]
    BY <1>3 DEF EndStream, Busy
  <2>2. session' \in [Sessions -> Ends]
    BY <2>1 DEF ServerShape, Ends
  <2>. QED  BY <1>3, <2>2 DEF EndStream, ServerShape, PoolShape
<1>4. ASSUME CloseSession(s), faults' \in 0 .. MaxFaults,
             UNCHANGED <<processVars, client, down, callVars, poolVars>>
      PROVE  ServerShape'
  <2>1. session' \in [Sessions -> Ends]
    BY <1>4, NoTaskIsEnd DEF CloseSession, ServerShape
  <2>2. DOMAIN up' = Sessions /\ \A t \in Sessions : up'[t] \in Seq(CallTokens(t) \union ByteTokens)
    BY <1>4, Cleared DEF CloseSession
  <2>. QED  BY <1>4, <2>1, <2>2 DEF ServerShape, PoolShape
<1>5. faults < MaxFaults => faults + 1 \in 0 .. MaxFaults
  BY ServerConstants DEF ServerShape
<1>6. CASE Checkout(s)
  <2>1. held[s] = Null
    BY <1>6 DEF Checkout, HeldWhileExecuting
  <2>2. PoolShape'
    BY <1>6, <2>1, CheckoutSound DEF Checkout, ServerShape
  <2>. QED  BY <1>6, <2>2 DEF Checkout, ServerShape, Ends, Busy
<1>7. ASSUME NEW status \in Statuses, Answers(s, status), PoolShape', faults' \in 0 .. MaxFaults,
             UNCHANGED <<processVars, client, up, down, callVars>>
      PROVE  ServerShape'
  <2>1. [session[s] EXCEPT !.at = "answering", !.task.status = status] \in Ends
    <3>1. [session[s].task EXCEPT !.status = status] \in Tasks
      <4>1. session[s].task \in Tasks
        BY DEF ServerShape, Ends
      <4>. QED  BY <4>1 DEF Tasks
    <3>. QED  BY <3>1 DEF ServerShape, Ends, Busy
  <2>2. session' \in [Sessions -> Ends]
    BY <1>7, <2>1 DEF Answers, ServerShape
  <2>. QED  BY <1>7, <2>2 DEF ServerShape
<1>8. CASE ProvideFails(s)
  BY <1>5, <1>7, <1>8 DEF ProvideFails, ServerShape, PoolShape, Statuses
<1>9. CASE Execute(s)
  <2>1. held[s] # Null /\ release(s)
    BY <1>9 DEF Execute, HeldWhileExecuting
  <2>2. PoolShape'
    BY <2>1, ReleaseSound DEF ServerShape
  <2>3. \E status \in Statuses : Answers(s, status)
    BY <1>9 DEF Execute, throws, Statuses
  <2>. QED  BY <1>7, <1>9, <2>2, <2>3 DEF Execute, ServerShape
<1>10. CASE ExecuteFails(s)
  <2>1. held[s] # Null /\ (release(s) \/ discard(s))
    BY <1>10 DEF ExecuteFails, HeldWhileExecuting
  <2>2. PoolShape'
    BY <2>1, ReleaseSound DEF ServerShape
  <2>. QED  BY <1>5, <1>7, <1>10, <2>2 DEF ExecuteFails, Statuses
<1>11. CASE Respond(s)
  <2>1. ASSUME down' = [down EXCEPT ![s] = Append(@, session[s].task)],
               session' = [session EXCEPT ![s] = NoTask("routing")],
               UNCHANGED <<processVars, client, up, callVars, faults, poolVars>>
        PROVE  ServerShape'
    <3>1. Append(down[s], session[s].task) \in Seq(Tasks)
      BY AppendProperties DEF ServerShape, Ends
    <3>2. down' \in [Sessions -> Seq(Tasks)] /\ session' \in [Sessions -> Ends]
      BY <2>1, <3>1, NoTaskIsEnd DEF ServerShape
    <3>. QED  BY <2>1, <3>2 DEF ServerShape, PoolShape
  <2>. QED  BY <1>4, <1>11, <2>1 DEF Respond, ServerShape
<1>12. CASE RouteBytes(s)
  <2>1. CASE CloseSession(s)
    BY <1>4, <1>12, <2>1 DEF RouteBytes, ServerShape
  <2>2. ASSUME NEW m \in Methods, NEW size \in 0 .. MaxSize, up' = [up EXCEPT ![s] = Tail(@)],
               session' = [session EXCEPT ![s] = [at |-> "streaming", left |-> size,
                   task |-> [n |-> 0, calls |-> m, type |-> router_context[m], status |-> "ok"]]]
        PROVE  ServerShape'
    <3>1. [n |-> 0, calls |-> m, type |-> router_context[m], status |-> "ok"] \in Tasks
      <4>1. 0 \in 0 .. MaxCalls /\ router_context[m] \in Types
        BY ServerConstants DEF Types
      <4>. QED  BY <4>1 DEF Tasks, Statuses
    <3>2. session' \in [Sessions -> Ends]
      BY <2>2, <3>1 DEF ServerShape, Ends, Busy
    <3>3. DOMAIN up' = Sessions /\ \A t \in Sessions : up'[t] \in Seq(CallTokens(t) \union ByteTokens)
      BY <1>12, <2>2, Taken DEF RouteBytes
    <3>. QED  BY <1>12, <3>2, <3>3 DEF RouteBytes, ServerShape, PoolShape
  <2>. QED  BY <1>12, <2>1, <2>2 DEF RouteBytes
<1>15. CASE ReadCall(s)
  <2>1. session' \in [Sessions -> Ends]
    <3>1. session[s].left - 1 \in 0 .. MaxSize
      BY <1>15, ServerConstants DEF ReadCall, ServerShape, Ends
    <3>2. [session[s] EXCEPT !.left = @ - 1] \in Ends
      BY <3>1 DEF ServerShape, Ends
    <3>. QED  BY <1>15, <3>2 DEF ReadCall, ServerShape
  <2>2. PICK more \in 0 .. MaxSize : up' = [up EXCEPT ![s] = Bytes(more) \o Tail(@)]
    BY <1>15 DEF ReadCall
  <2>3. Bytes(more) \o Tail(up[s]) \in Seq(CallTokens(s) \union ByteTokens)
    <3>1. Tail(up[s]) \in Seq(CallTokens(s) \union ByteTokens)
      BY <1>15, HeadTailProperties DEF ReadCall, ServerShape
    <3>2. more \in Nat /\ [kind |-> "byte"] \in CallTokens(s) \union ByteTokens
      BY ServerConstants DEF ByteTokens
    <3>3. Bytes(more) \in Seq(CallTokens(s) \union ByteTokens)
      BY <3>2, IsASeq DEF Bytes
    <3>. QED  BY <3>1, <3>3, ConcatProperties
  <2>4. DOMAIN up' = Sessions /\ \A t \in Sessions : up'[t] \in Seq(CallTokens(t) \union ByteTokens)
    <3>1. up'[s] = Bytes(more) \o Tail(up[s]) /\ \A t \in Sessions \ {s} : up'[t] = up[t]
      BY <2>2 DEF ServerShape
    <3>. QED  BY <2>2, <2>3, <3>1 DEF ServerShape
  <2>. QED  BY <1>15, <2>1, <2>4 DEF ReadCall, ServerShape, PoolShape
<1>13. CASE Hangup(s)
  BY <1>4, <1>13 DEF Hangup, ServerShape
<1>14. CASE IdleTimeout(s)
  BY <1>4, <1>14 DEF IdleTimeout, ServerShape
<1>. QED  BY <1>1, <1>2, <1>3, <1>6, <1>8, <1>9, <1>10, <1>11, <1>12, <1>13, <1>14, <1>15
        DEF Serve

-----------------------------------------------------------------------------
(* Sessions                                                                *)

\* A session nothing happens in.
LEMMA Elsewhere ==
    ASSUME NEW s \in Sessions, SessionInv(s),
           client'[s] = client[s], session'[s] = session[s], up'[s] = up[s], down'[s] = down[s],
           s \in astray' <=> s \in astray
    PROVE  SessionInv(s)'
BY DEF SessionInv, InOrder, Ordered, Counted, Announced, InPlace, InCall, Fits

\* A client that is gone, or is on its way out, leaves the server as it is.
LEMMA ClosedByClient ==
    ASSUME ServerShape, NEW s \in Sessions, Ordered(s),
           CloseClient(s), UNCHANGED <<session, up>>
    PROVE  Ordered(s)'
<1>1. client'[s] = Outside("gone") /\ down'[s] = <<>> /\ session'[s] = session[s] /\ up'[s] = up[s]
  BY DEF CloseClient, ServerShape
<1>2. client'[s].at = "gone" /\ client'[s].outcome.status = "none"
  <2>1. Outside("gone").at = "gone" /\ Outside("gone").outcome = Nothing
    BY DEF Outside
  <2>2. Nothing.status = "none"
    BY DEF Nothing
  <2>. QED  BY <1>1, <2>1, <2>2
<1>3. Counted(s)'
  BY <1>1 DEF Ordered, Counted, Announced
<1>4. InPlace(s)'
  BY <1>1, <1>2 DEF Ordered, InPlace
<1>. QED  BY <1>3, <1>4 DEF Ordered

\* A session that is over keeps what was answered in it.
LEMMA ClosedByServer ==
    ASSUME ServerShape, NEW s \in Sessions, Ordered(s),
           CloseSession(s), UNCHANGED <<client, down>>
    PROVE  Ordered(s)'
<1>1. /\ session'[s] = NoTask("over") /\ up'[s] = <<>>
      /\ client'[s] = client[s] /\ down'[s] = down[s]
  BY DEF CloseSession, ServerShape
<1>2. session'[s].at = "over"
  BY <1>1 DEF NoTask
<1>3. Counted(s)'
  BY <1>2 DEF Counted, Busy
<1>4. InPlace(s)'
  BY <1>1, <1>2 DEF Ordered, InPlace, InCall, Fits, Busy
<1>. QED  BY <1>3, <1>4 DEF Ordered

\* A new session has nothing on its way in either direction.
LEMMA ConnectKeeps ==
    ASSUME ServerShape, NEW s \in Sessions, Ordered(s), Connect(s)
    PROVE  Ordered(s)'
<1>1. /\ client'[s].at = "idle" /\ client'[s].outcome = client[s].outcome
      /\ client'[s].n = client[s].n /\ client'[s].method = client[s].method
      /\ session'[s] = NoTask("routing") /\ up'[s] = up[s] /\ down'[s] = down[s]
  BY DEF Connect, ServerShape, Clients
<1>2. client[s].at = "new" /\ up[s] = <<>> /\ down[s] = <<>>
  BY DEF Connect, Ordered, InPlace
<1>3. session'[s].at = "routing"
  BY <1>1 DEF NoTask
<1>4. Counted(s)'
  BY <1>1, <1>2, <1>3 DEF Counted, Busy
<1>5. InPlace(s)'
  BY <1>1, <1>2, <1>3 DEF Ordered, InPlace, Fits, Busy
<1>. QED  BY <1>4, <1>5 DEF Ordered

\* What a call announces is what its client has to write.
LEMMA CallKeeps ==
    ASSUME ServerShape, NEW s \in Sessions, Ordered(s), Call(s),
           client[s].at = "idle", session[s].at # "none"
    PROVE  Ordered(s)'
<1>1. PICK m \in Methods, size \in 0 .. MaxSize :
        /\ size # 0 => m = "add_object"
        /\ client' = [client EXCEPT ![s] = [@ EXCEPT
              !.at = IF m = "add_object" THEN "sending" ELSE "waiting",
              !.n = calls + 1, !.method = m, !.left = size, !.outcome = Nothing]]
        /\ up' = [up EXCEPT ![s] = Append(@,
              [kind |-> "call", request |-> request(s \in Http, m), n |-> calls + 1, size |-> size])]
  BY DEF Call
<1>. DEFINE call == [kind |-> "call", request |-> request(s \in Http, m), n |-> calls + 1, size |-> size]
<1>2. /\ client'[s].at \in {"sending", "waiting"} /\ client'[s].outcome = Nothing
      /\ client'[s].n = calls + 1 /\ client'[s].method = m /\ client'[s].left = size
      /\ session'[s] = session[s] /\ down'[s] = down[s]
  <2>1. client[s] \in Clients
    BY DEF ServerShape
  <2>2. client'[s] = [client[s] EXCEPT
            !.at = IF m = "add_object" THEN "sending" ELSE "waiting",
            !.n = calls + 1, !.method = m, !.left = size, !.outcome = Nothing]
    BY <1>1 DEF ServerShape
  <2>3. session' = session /\ down' = down
    BY DEF Call
  <2>. QED  BY <2>1, <2>2, <2>3 DEF Clients
<1>3. up[s] = <<>> /\ down[s] = <<>> /\ session[s].at \notin Busy /\ session[s].at # "none"
  BY DEF Call, Ordered, InPlace
<1>4. up'[s] = <<call>> /\ Head(up'[s]) = call /\ Tail(up'[s]) = <<>> /\ up'[s] # <<>>
  BY <1>1, <1>3 DEF ServerShape
<1>5. call \in CallTokens(s)
  <2>1. calls + 1 \in 0 .. MaxCalls
    BY ServerConstants DEF Call, ServerShape
  <2>. QED  BY <2>1 DEF CallTokens
<1>6. Announced(s)'
  <2>1. <<>> \in Seq(ByteTokens) /\ Len(<<>>) = 0
    BY EmptySeq
  <2>2. 0 <= size
    BY ServerConstants
  <2>3. call.size = size /\ call.request = request(s \in Http, m)
    OBVIOUS
  <2>. QED  BY <1>1, <1>4, <1>5, <2>1, <2>2, <2>3 DEF Announced
<1>7. Counted(s)'
  BY <1>2, <1>3, <1>6 DEF Counted
<1>8. InCall(s)'
  <2>1. Len(Tail(up'[s])) = 0
    BY <1>4, EmptySeq
  <2>. QED  BY <1>2, <1>3, <1>4, <2>1 DEF InCall
<1>9. InPlace(s)'
  <2>1. Nothing.status = "none"
    BY DEF Nothing
  <2>. QED  BY <1>2, <1>3, <1>8, <2>1 DEF InPlace
<1>. QED  BY <1>7, <1>9 DEF Ordered

\* A byte that is written moves from what is left to what is on its way.
LEMMA WriteKeeps ==
    ASSUME ServerShape, NEW s \in Sessions, Ordered(s), Write(s)
    PROVE  Ordered(s)'
<1>. DEFINE byte == [kind |-> "byte"]
<1>1. /\ client'[s].at = "sending" /\ client'[s].outcome = client[s].outcome
      /\ client'[s].n = client[s].n /\ client'[s].method = client[s].method
      /\ client'[s].left = client[s].left - 1
  <2>1. client[s] \in Clients
    BY DEF ServerShape
  <2>2. client'[s] = [client[s] EXCEPT !.left = @ - 1] /\ client[s].at = "sending"
    BY DEF Write, ServerShape
  <2>. QED  BY <2>1, <2>2 DEF Clients
<1>2. session'[s] = session[s] /\ down'[s] = down[s] /\ up'[s] = Append(up[s], byte)
  BY DEF Write, ServerShape
<1>3. client[s].at = "sending" /\ client[s].left > 0 /\ client[s].left \in Nat /\ session[s].left \in Nat
  <2>1. client[s].left \in 0 .. MaxSize /\ session[s].left \in 0 .. MaxSize
    BY DEF ServerShape, Clients, Ends
  <2>2. client[s].at = "sending" /\ client[s].left > 0
    BY DEF Write
  <2>. QED  BY <2>1, <2>2, ServerConstants
<1>4. session[s].at = "routing" \/ session[s].at \in Busy
  BY DEF Write, Ended, ServerShape, Ends
<1>5. byte \in ByteTokens
  BY DEF ByteTokens
<1>6. InCall(s) /\ client[s].method \in Methods
  BY <1>3 DEF Ordered, InPlace
<1>7. CASE session[s].at = "routing"
  <2>1. up[s] # <<>> /\ down[s] = <<>>
    BY <1>3, <1>6, <1>7 DEF InCall
  <2>2. Announced(s) /\ Head(up[s]).size = client[s].left + Len(Tail(up[s]))
    BY <1>6, <1>7, <2>1 DEF Ordered, Counted, InCall
  <2>3. up[s] \in Seq(CallTokens(s) \union ByteTokens)
    BY DEF ServerShape
  <2>4. Head(up'[s]) = Head(up[s]) /\ Tail(up'[s]) = Append(Tail(up[s]), byte) /\ up'[s] # <<>>
    BY <1>2, <1>5, <2>1, <2>3, HeadTailAppend, AppendProperties
  <2>5. Tail(up[s]) \in Seq(ByteTokens)
    BY <2>2 DEF Announced
  <2>6. Len(Tail(up[s])) \in Nat
    BY <2>5, LenProperties
  <2>. DEFINE rest == Append(Tail(up[s]), byte)
  <2>9. rest \in Seq(ByteTokens) /\ Len(rest) = Len(Tail(up[s])) + 1
    BY <1>5, <2>5, AppendProperties
  <2>7. Announced(s)'
    <3>1. Head(up'[s]) \in CallTokens(s) /\ (Head(up'[s]).size # 0 =>
              Head(up'[s]).request = request(s \in Http, "add_object"))
      BY <2>2, <2>4 DEF Announced
    <3>2. Len(rest) <= Head(up'[s]).size
      BY <1>3, <2>2, <2>4, <2>6, <2>9
    <3>. QED  BY <2>4, <2>9, <3>1, <3>2 DEF Announced
  <2>8. InCall(s)'
    <3>1. Head(up'[s]).size = client'[s].left + Len(Tail(up'[s]))
      <4>1. Len(Tail(up'[s])) = Len(Tail(up[s])) + 1 /\ Head(up'[s]).size = Head(up[s]).size
        BY <2>4, <2>9
      <4>2. Head(up[s]).size = client[s].left + Len(Tail(up[s]))
        BY <2>2
      <4>3. \A left, size \in Nat : left + size = (left - 1) + (size + 1)
        OBVIOUS
      <4>4. client'[s].left = client[s].left - 1
        BY <1>1
      <4>. QED  BY <1>3, <2>6, <4>1, <4>2, <4>3, <4>4
    <3>. QED  BY <1>1, <1>2, <1>6, <1>7, <2>1, <2>4, <3>1 DEF InCall, Busy
  <2>. QED  BY <1>1, <1>2, <1>3, <1>6, <1>7, <2>7, <2>8 DEF Ordered, Counted, InPlace, Fits, Busy
<1>8. CASE session[s].at \in Busy
  <2>1. /\ up[s] \in Seq(ByteTokens) /\ session[s].left = client[s].left + Len(up[s])
        /\ down[s] = <<>> /\ Fits(s, session[s].task)
    BY <1>6, <1>8 DEF Ordered, Counted, InCall
  <2>2. up'[s] \in Seq(ByteTokens) /\ Len(up'[s]) = Len(up[s]) + 1 /\ Len(up[s]) \in Nat
    BY <1>2, <1>5, <2>1, AppendProperties, LenProperties
  <2>3. Counted(s)'
    BY <1>2, <1>3, <1>8, <2>1, <2>2 DEF Ordered, Counted, Busy
  <2>4. InCall(s)'
    BY <1>1, <1>2, <1>3, <1>6, <1>8, <2>1, <2>2 DEF InCall, Fits, Busy
  <2>. QED  BY <1>1, <1>2, <1>3, <1>6, <1>8, <2>3, <2>4 DEF Ordered, InPlace, Fits
<1>. QED  BY <1>4, <1>7, <1>8

\* A client whose caller's function ends, either way, is owed what it was owed.
LEMMA FunctionKeeps ==
    ASSUME ServerShape, NEW s \in Sessions, Ordered(s), Throws(s) \/ Wrote(s)
    PROVE  Ordered(s)'
<1>0. PICK at \in {"thrown", "waiting"} : client' = [client EXCEPT ![s].at = at]
  BY DEF Throws, Wrote
<1>1. /\ client[s].at \in {"sending", "waiting"} /\ client'[s].at \in {"thrown", "waiting"}
      /\ client'[s].outcome = client[s].outcome
      /\ client'[s].n = client[s].n /\ client'[s].method = client[s].method
      /\ client'[s].left = client[s].left
      /\ session'[s] = session[s] /\ up'[s] = up[s] /\ down'[s] = down[s]
  <2>1. client[s] \in Clients /\ client'[s] = [client[s] EXCEPT !.at = at]
    BY <1>0 DEF ServerShape
  <2>2. client[s].at \in {"sending", "waiting"} /\ UNCHANGED <<session, up, down>>
    BY DEF Throws, Wrote
  <2>. QED  BY <2>1, <2>2 DEF Clients
<1>2. Counted(s)'
  BY <1>1 DEF Ordered, Counted, Announced
<1>3. InPlace(s)'
  BY <1>1 DEF Ordered, InPlace, InCall, Fits
<1>. QED  BY <1>2, <1>3 DEF Ordered

\* A client that has its answer leaves nothing of the call behind.
LEMMA ReceiveKeeps ==
    ASSUME ServerShape, NEW s \in Sessions, Ordered(s), Receive(s), s \notin astray
    PROVE  Ordered(s)'
<1>1. client[s].at = "waiting" /\ down[s] # <<>>
  BY DEF Receive
<1>0. /\ client' = [client EXCEPT ![s] = [@ EXCEPT !.at = "idle", !.outcome = Head(down[s])]]
      /\ down' = [down EXCEPT ![s] = Tail(@)] /\ session' = session /\ up' = up
  BY DEF Receive
<1>2. /\ client'[s].at = "idle" /\ client'[s].outcome = Head(down[s])
      /\ client'[s].n = client[s].n /\ client'[s].method = client[s].method
  <2>1. /\ client[s] \in Clients
        /\ client'[s] = [client[s] EXCEPT !.at = "idle", !.outcome = Head(down[s])]
    BY <1>0 DEF ServerShape
  <2>. QED  BY <2>1 DEF Clients
<1>3. session'[s] = session[s] /\ up'[s] = up[s] /\ down'[s] = Tail(down[s])
  BY <1>0 DEF ServerShape
<1>4. InCall(s) /\ Fits(s, Head(down[s])) /\ Len(down[s]) = 1
  BY <1>1 DEF Ordered, InPlace
<1>5. session[s].at \notin Busy /\ session[s].at # "none" /\ up[s] = <<>>
  BY <1>1, <1>4 DEF InCall, ServerShape, Ends
<1>6. down'[s] = <<>>
  <2>1. down[s] \in Seq(Tasks)
    BY DEF ServerShape
  <2>2. Tail(down[s]) \in Seq(Tasks) /\ Len(Tail(down[s])) = 0
    BY <1>1, <1>4, <2>1, HeadTailProperties
  <2>. QED  BY <1>3, <2>2, EmptySeq
<1>7. Counted(s)'
  BY <1>3, <1>5 DEF Counted
<1>8. InPlace(s)'
  BY <1>2, <1>3, <1>4, <1>5, <1>6 DEF InPlace, Fits
<1>. QED  BY <1>7, <1>8 DEF Ordered

\* A call is taken with all the bytes that follow it.
LEMMA RouteKeeps ==
    ASSUME ServerShape, NEW s \in Sessions, Ordered(s), Route(s)
    PROVE  Ordered(s)'
<1>. DEFINE call == Head(up[s])
            task == arrives(s, call)
<1>1. /\ session[s].at = "routing" /\ up[s] # <<>> /\ up'[s] = Tail(up[s])
      /\ client'[s] = client[s] /\ down'[s] = down[s]
  BY DEF Route, ServerShape
<1>2. /\ session'[s].task = task /\ session'[s].left = call.size
      /\ session'[s].at = IF task.calls = "add_object" THEN "streaming"
                          ELSE IF uses_database(task.calls) THEN "connecting" ELSE "answering"
  <2>1. session' = [session EXCEPT ![s] = [task |-> task, left |-> call.size,
              at |-> IF task.calls = "add_object" THEN "streaming"
                     ELSE IF uses_database(task.calls) THEN "connecting" ELSE "answering"]]
    BY DEF Route
  <2>. HIDE DEF call, task
  <2>. QED  BY <2>1 DEF ServerShape
<1>3. session'[s].at \in Busy /\ (task.calls # "add_object" => session'[s].at # "streaming")
  BY <1>2 DEF Busy
<1>4. Announced(s)
  BY <1>1 DEF Ordered, Counted
<1>5. call \in CallTokens(s) /\ Tail(up[s]) \in Seq(ByteTokens) /\ Len(Tail(up[s])) <= call.size
  BY <1>4 DEF Announced
<1>6. /\ task.n = call.n /\ task.calls \in Methods
      /\ call.request = request(s \in Http, task.calls)
      /\ encoded(task.type) = reads(s \in Http, task.calls)
  BY <1>5, Arrives
<1>7. \A m \in Methods : call.request = request(s \in Http, m) => task.calls = m
  <2>1. ASSUME NEW m \in Methods, call.request = request(s \in Http, m)
        PROVE  task.calls = m
    BY <2>1, HandlerFits DEF arrives
  <2>. QED  BY <2>1
<1>8. task.calls # "add_object" => call.size = 0
  BY <1>4, <1>7 DEF Announced, Methods
<1>9. call.size \in Nat /\ Len(Tail(up[s])) \in Nat
  BY <1>5, ServerConstants, LenProperties DEF CallTokens
<1>. HIDE DEF call, task
<1>10. Counted(s)'
  <2>1. session'[s].at # "streaming" => session'[s].left = 0
    BY <1>2, <1>8 DEF uses_database
  <2>. QED  BY <1>1, <1>2, <1>3, <1>5, <2>1 DEF Counted, Busy
<1>11. InPlace(s)'
  <2>1. CASE client[s].at \in {"sending", "thrown", "waiting"}
    <3>1. /\ client[s].method \in Methods /\ down[s] = <<>>
          /\ call.request = request(s \in Http, client[s].method) /\ call.n = client[s].n
          /\ call.size = client[s].left + Len(Tail(up[s]))
      BY <1>1, <2>1 DEF Ordered, InPlace, InCall, call
    <3>2. Fits(s, task)
      BY <1>6, <1>7, <3>1 DEF Fits
    <3>3. Fits(s, session[s].task)'
      BY <1>1, <1>2, <3>2 DEF Fits
    <3>4. InCall(s)'
      BY <1>1, <1>2, <1>3, <3>1, <3>3 DEF InCall, Busy
    <3>. QED  BY <1>1, <1>3, <2>1, <3>1, <3>4 DEF Ordered, InPlace, Fits, Busy
  <2>2. CASE client[s].at = "gone"
    BY <1>1, <1>3, <2>2 DEF Ordered, InPlace, Fits, Busy
  <2>. QED  BY <1>1, <2>1, <2>2 DEF Ordered, InPlace, ServerShape, Clients
<1>. QED  BY <1>10, <1>11 DEF Ordered

\* A byte that is read is one of those announced.
LEMMA ReadKeeps ==
    ASSUME ServerShape, NEW s \in Sessions, Ordered(s), Read(s)
    PROVE  Ordered(s)'
<1>1. /\ session[s].at = "streaming" /\ session[s].left > 0 /\ up[s] # <<>>
      /\ up'[s] = Tail(up[s]) /\ client'[s] = client[s] /\ down'[s] = down[s]
  BY DEF Read, ServerShape
<1>2. /\ session'[s].at = "streaming" /\ session'[s].left = session[s].left - 1
      /\ session'[s].task = session[s].task
  <2>1. session'[s] = [session[s] EXCEPT !.left = @ - 1] /\ session[s] \in Ends
    BY DEF Read, ServerShape
  <2>. QED  BY <1>1, <2>1 DEF Ends
<1>3. up[s] \in Seq(ByteTokens) /\ Len(up[s]) <= session[s].left
  BY <1>1 DEF Ordered, Counted, Busy
<1>4. Tail(up[s]) \in Seq(ByteTokens) /\ Len(Tail(up[s])) = Len(up[s]) - 1 /\ Len(up[s]) \in Nat
  BY <1>1, <1>3, HeadTailProperties, LenProperties
<1>5. session[s].left \in Nat /\ client[s].left \in Nat
  <2>1. session[s].left \in 0 .. MaxSize /\ client[s].left \in 0 .. MaxSize
    BY DEF ServerShape, Clients, Ends
  <2>. QED  BY <2>1, ServerConstants
<1>6. Counted(s)'
  <2>1. Len(Tail(up[s])) <= session[s].left - 1
    BY <1>3, <1>4, <1>5
  <2>. QED  BY <1>1, <1>2, <1>4, <2>1 DEF Counted
<1>7. ASSUME client[s].at \in {"sending", "thrown", "waiting"} PROVE InCall(s)'
  <2>1. /\ down[s] = <<>> /\ Fits(s, session[s].task)
        /\ session[s].left = client[s].left + Len(up[s])
    BY <1>1, <1>7 DEF Ordered, InPlace, InCall, Busy
  <2>2. session[s].left - 1 = client[s].left + Len(Tail(up[s]))
    BY <1>4, <1>5, <2>1
  <2>. QED  BY <1>1, <1>2, <2>1, <2>2 DEF InCall, Fits, Busy
<1>8. InPlace(s)'
  BY <1>1, <1>2, <1>7 DEF Ordered, InPlace, Fits, Busy
<1>. QED  BY <1>6, <1>8 DEF Ordered

\* A handler that has read all there was gets on with the same call.
LEMMA MoveKeeps ==
    ASSUME ServerShape, NEW s \in Sessions, Ordered(s),
           session[s].at \in Busy, session'[s].at \in Busy,
           session[s].left = 0, session'[s].left = 0,
           session'[s].task.n = session[s].task.n,
           session'[s].task.calls = session[s].task.calls,
           session'[s].task.type = session[s].task.type,
           UNCHANGED <<client, up, down>>
    PROVE  Ordered(s)'
<1>1. Counted(s)'
  BY DEF Ordered, Counted, Busy
<1>2. Fits(s, session[s].task) => Fits(s, session[s].task)'
  BY DEF Fits
<1>3. InCall(s) => InCall(s)'
  BY <1>2 DEF InCall, Busy
<1>4. InPlace(s)'
  BY <1>3 DEF Ordered, InPlace, Fits, Busy
<1>. QED  BY <1>1, <1>4 DEF Ordered

\* A stream ends when all that was announced is read.
LEMMA EndStreamKeeps ==
    ASSUME ServerShape, NEW s \in Sessions, Ordered(s), EndStream(s)
    PROVE  Ordered(s)'
<1>1. session[s].at = "streaming" /\ session[s].left = 0 /\ UNCHANGED <<client, up, down>>
  BY DEF EndStream
<1>2. PICK at \in Busy : session' = [session EXCEPT ![s].at = at]
  BY DEF EndStream, Busy
<1>3. session'[s].at \in Busy /\ session'[s].left = 0 /\ session'[s].task = session[s].task
  BY <1>1, <1>2 DEF ServerShape, Ends
<1>. QED  BY <1>1, <1>3, MoveKeeps DEF Busy

\* Waiting for a connection changes nothing in the session.
LEMMA CheckoutKeeps ==
    ASSUME ServerShape, NEW s \in Sessions, Ordered(s), Checkout(s)
    PROVE  Ordered(s)'
<1>1. session[s].at = "connecting" /\ UNCHANGED <<client, up, down>>
  BY DEF Checkout
<1>2. session[s].left = 0
  BY <1>1 DEF Ordered, Counted, Busy
<1>3. session'[s].at = "executing" /\ session'[s].left = 0 /\ session'[s].task = session[s].task
  BY <1>2 DEF Checkout, ServerShape, Ends
<1>. QED  BY <1>1, <1>2, <1>3, MoveKeeps DEF Busy

\* A handler's answer keeps the number and the method of its call.
LEMMA AnswersKeeps ==
    ASSUME ServerShape, NEW s \in Sessions, Ordered(s),
           session[s].at \in {"connecting", "executing"}, NEW status \in Statuses,
           Answers(s, status), UNCHANGED <<client, up, down>>
    PROVE  Ordered(s)'
<1>1. session[s].left = 0
  BY DEF Ordered, Counted, Busy
<1>2. /\ session'[s].at = "answering" /\ session'[s].left = session[s].left
      /\ session'[s].task = [session[s].task EXCEPT !.status = status]
  BY DEF Answers, ServerShape, Ends
<1>3. session[s].task \in Tasks
  BY DEF ServerShape, Ends
<1>4. /\ session'[s].task.n = session[s].task.n
      /\ session'[s].task.calls = session[s].task.calls
      /\ session'[s].task.type = session[s].task.type
  BY <1>2, <1>3 DEF Tasks
<1>. QED  BY <1>1, <1>2, <1>4, MoveKeeps DEF Busy

\* An answer is the only one under way, and nothing of its call is left behind it.
LEMMA RespondKeeps ==
    ASSUME ServerShape, NEW s \in Sessions, Ordered(s), session[s].at = "answering", ~Left(s),
           down' = [down EXCEPT ![s] = Append(@, session[s].task)],
           session' = [session EXCEPT ![s] = NoTask("routing")], UNCHANGED <<client, up>>
    PROVE  Ordered(s)'
<1>1. client[s].at \in {"sending", "thrown", "waiting"}
  BY DEF Left, Ordered, InPlace, ServerShape, Clients, Busy
<1>2. /\ InCall(s) /\ down[s] = <<>> /\ Fits(s, session[s].task)
      /\ session[s].left = client[s].left + Len(up[s])
  BY <1>1 DEF Ordered, InPlace, InCall, Busy
<1>3. session[s].left = 0 /\ up[s] \in Seq(ByteTokens)
  BY DEF Ordered, Counted, Busy
<1>4. client[s].left = 0 /\ up[s] = <<>>
  <2>1. client[s].left \in 0 .. MaxSize
    BY DEF ServerShape, Clients
  <2>2. Len(up[s]) \in Nat /\ (up[s] # <<>> => Len(up[s]) > 0)
    BY <1>3, EmptySeq, LenProperties
  <2>. QED  BY <1>2, <1>3, <2>1, <2>2, ServerConstants
<1>5. /\ down'[s] = <<session[s].task>> /\ session'[s].at = "routing"
      /\ client'[s] = client[s] /\ up'[s] = up[s]
  BY <1>2 DEF ServerShape, NoTask
<1>6. Counted(s)'
  BY <1>4, <1>5 DEF Counted, Busy
<1>7. Len(down'[s]) = 1 /\ Head(down'[s]) = session[s].task
  <2>1. \A x : Len(<<x>>) = 1 /\ Head(<<x>>) = x
    OBVIOUS
  <2>2. down'[s] = <<session[s].task>>
    BY <1>5
  <2>. QED  BY ONLY <2>1, <2>2
<1>8. InCall(s)'
  BY <1>4, <1>5 DEF InCall, Busy
<1>9. InPlace(s)'
  <2>1. Fits(s, Head(down[s]))'
    BY <1>2, <1>5, <1>7 DEF Fits
  <2>. QED  BY <1>1, <1>5, <1>7, <1>8, <2>1 DEF Ordered, InPlace, Fits
<1>. QED  BY <1>6, <1>9 DEF Ordered

\* A session goes astray with a call after one that was broken off, and stays so.
LEMMA GoesAstray ==
    ASSUME NEW s \in Sessions, Client(s)
    PROVE  /\ astray \subseteq astray' /\ astray' \subseteq astray \union {s}
           /\ s \in astray' \ astray => client[s].at = "thrown"
           /\ Call(s) /\ client[s].at = "thrown" => s \in astray'
BY DEF Client, Connect, Call, Write, Throws, Wrote, Receive, Lost, Leave, callVars

\* Only a client that is new connects, and what has begun does not begin again.
LEMMA ClientBegins ==
    ASSUME ServerShape, NEW s \in Sessions, SessionInv(s), Client(s)
    PROVE  /\ client'[s].at = "new" <=> session'[s].at = "none"
           /\ client'[s].at = "thrown" \/ s \in astray' => s \notin Http
<1>1. s \in astray' => s \notin Http
  BY GoesAstray DEF SessionInv, InOrder
<1>2. ASSUME NEW at, client'[s].at = at, at \notin {"new", "thrown"}, session'[s].at # "none"
      PROVE  /\ client'[s].at = "new" <=> session'[s].at = "none"
             /\ client'[s].at = "thrown" \/ s \in astray' => s \notin Http
  BY <1>1, <1>2
<1>3. CASE Connect(s)
  <2>1. client'[s].at = "idle" /\ session'[s].at = "routing"
    BY <1>3 DEF Connect, NoTask, ServerShape, Clients
  <2>. QED  BY <1>2, <2>1
<1>4. CASE ~Connect(s)
  <2>1. session'[s] = session[s] /\ session[s].at # "none"
    BY <1>4 DEF Client, Call, Write, Throws, Wrote, Receive, Lost, Leave, SessionInv
  <2>2. CASE Call(s)
    <3>1. PICK at \in {"sending", "waiting"}, m \in Methods, size \in 0 .. MaxSize :
            client' = [client EXCEPT ![s] = [@ EXCEPT
                !.at = at, !.n = calls + 1, !.method = m, !.left = size, !.outcome = Nothing]]
      BY <2>2 DEF Call
    <3>2. client'[s].at = at
      BY <3>1 DEF ServerShape, Clients
    <3>. QED  BY <1>2, <2>1, <3>2
  <2>3. CASE Write(s)
    <3>1. client'[s].at = "sending"
      BY <2>3 DEF Write, ServerShape, Clients
    <3>. QED  BY <1>2, <2>1, <3>1
  <2>4. CASE Throws(s)
    <3>1. client'[s].at = "thrown" /\ s \notin Http
      BY <2>4 DEF Throws, ServerShape, Clients
    <3>. QED  BY <2>1, <3>1
  <2>5. CASE Wrote(s)
    <3>1. client'[s].at = "waiting"
      BY <2>5 DEF Wrote, ServerShape, Clients
    <3>. QED  BY <1>2, <2>1, <3>1
  <2>6. CASE Receive(s)
    <3>1. CASE client' = client
      BY <1>2, <2>1, <2>6, <3>1 DEF Receive
    <3>2. CASE client' = [client EXCEPT ![s] = [@ EXCEPT !.at = "idle", !.outcome = Head(down[s])]]
      <4>1. client'[s].at = "idle"
        BY <3>2 DEF ServerShape, Clients
      <4>. QED  BY <1>2, <2>1, <4>1
    <3>. QED  BY <2>6, <3>1, <3>2 DEF Receive
  <2>7. CASE Lost(s) \/ Leave(s)
    <3>1. client'[s] = Outside("gone") /\ Outside("gone").at = "gone"
      BY <2>7 DEF Lost, Leave, CloseClient, Outside, ServerShape
    <3>. QED  BY <1>2, <2>1, <3>1
  <2>. QED  BY <1>4, <2>2, <2>3, <2>4, <2>5, <2>6, <2>7 DEF Client
<1>. QED  BY <1>3, <1>4

\* The steps of a client keep its session in step unless it goes astray, and touch
\* no other.
LEMMA ClientSession ==
    ASSUME ServerShape, NEW s \in Sessions, SessionInv(s), Client(s)
    PROVE  /\ SessionInv(s)'
           /\ \A t \in Sessions \ {s} : /\ client'[t] = client[t] /\ session'[t] = session[t]
                                        /\ up'[t] = up[t] /\ down'[t] = down[t]
                                        /\ (t \in astray' <=> t \in astray)
<1>1. \A t \in Sessions \ {s} : /\ client'[t] = client[t] /\ session'[t] = session[t]
                                /\ up'[t] = up[t] /\ down'[t] = down[t]
  BY DEF Client, Connect, Call, Write, Throws, Wrote, Receive, Lost, Leave, CloseClient, ServerShape
<1>2. ASSUME s \notin astray' PROVE Ordered(s)'
  <2>1. s \notin astray /\ Ordered(s)
    BY <1>2, GoesAstray DEF SessionInv, InOrder
  <2>2. CASE Call(s)
    <3>1. client[s].at = "idle" /\ session[s].at # "none"
      BY <1>2, <2>2, GoesAstray DEF Call, SessionInv
    <3>. QED  BY <2>1, <2>2, <3>1, CallKeeps
  <2>3. CASE Lost(s) \/ Leave(s)
    BY <2>1, <2>3, ClosedByClient DEF Lost, Leave
  <2>. QED  BY <2>1, <2>2, <2>3, ConnectKeeps, WriteKeeps, FunctionKeeps, ReceiveKeeps DEF Client
<1>3. \A t \in Sessions \ {s} : t \in astray' <=> t \in astray
  BY GoesAstray
<1>. QED  BY <1>1, <1>2, <1>3, ClientBegins DEF SessionInv, InOrder

\* What is read as bytes, or taken for a call, although it is the other, only is so in
\* sessions whose client has gone astray.
LEMMA OnlyAstray ==
    ASSUME ServerShape, NEW s \in Sessions, Ordered(s)
    PROVE  ~RouteBytes(s) /\ ~ReadCall(s)
<1>1. ASSUME RouteBytes(s) PROVE FALSE
  BY <1>1 DEF RouteBytes, Ordered, Counted, Announced, CallTokens
<1>2. ASSUME ReadCall(s) PROVE FALSE
  <2>1. up[s] \in Seq(ByteTokens) /\ up[s] # <<>> /\ Head(up[s]).kind = "call"
    BY <1>2 DEF ReadCall, Ordered, Counted, Busy
  <2>2. Head(up[s]) \in ByteTokens
    BY <2>1, HeadTailProperties
  <2>. QED  BY <2>1, <2>2 DEF ByteTokens
<1>. QED  BY <1>1, <1>2

\* A session that is served has begun, and stays so.
LEMMA ServeBegins ==
    ASSUME ServerShape, NEW s \in Sessions, SessionInv(s), Serve(s)
    PROVE  client'[s].at = "new" <=> session'[s].at = "none"
<1>1. client'[s] = client[s] /\ session[s].at # "none"
  BY DEF Serve, Route, RouteBytes, Read, ReadCall, EndStream, Checkout, ProvideFails, Execute,
         ExecuteFails, Respond, Hangup, IdleTimeout
<1>. SUFFICES session'[s].at # "none"
  BY <1>1 DEF SessionInv
<1>2. ASSUME NEW at, session' = [session EXCEPT ![s].at = at], at # "none"
      PROVE  session'[s].at # "none"
  BY <1>2 DEF ServerShape, Ends
<1>3. ASSUME NEW end, session' = [session EXCEPT ![s] = end], end.at # "none"
      PROVE  session'[s].at # "none"
  BY <1>3 DEF ServerShape
<1>4. CASE Route(s)
  <2>1. PICK at \in Busy : session' = [session EXCEPT ![s] =
          [task |-> arrives(s, Head(up[s])), left |-> Head(up[s]).size, at |-> at]]
    BY <1>4 DEF Route, Busy
  <2>. QED  BY <2>1 DEF ServerShape, Busy
<1>5. NoTask("over").at # "none" /\ NoTask("routing").at # "none"
  BY DEF NoTask
<1>6. CASE RouteBytes(s)
  BY <1>3, <1>5, <1>6 DEF RouteBytes, CloseSession
<1>7. CASE Read(s) \/ ReadCall(s)
  BY <1>1, <1>7 DEF Read, ReadCall, ServerShape, Ends
<1>8. CASE EndStream(s) \/ Checkout(s)
  BY <1>2, <1>8 DEF EndStream, Checkout
<1>9. CASE ProvideFails(s) \/ Execute(s) \/ ExecuteFails(s)
  BY <1>9 DEF ProvideFails, Execute, ExecuteFails, Answers, ServerShape, Ends
<1>10. CASE Respond(s) \/ Hangup(s) \/ IdleTimeout(s)
  BY <1>3, <1>5, <1>10 DEF Respond, Hangup, IdleTimeout, CloseSession
<1>. QED  BY <1>4, <1>6, <1>7, <1>8, <1>9, <1>10 DEF Serve

\* The steps of a session keep it in step unless its client has gone astray, and
\* touch no other.
LEMMA ServeSession ==
    ASSUME ServerShape, NEW s \in Sessions, SessionInv(s), Serve(s)
    PROVE  /\ SessionInv(s)'
           /\ \A t \in Sessions \ {s} : /\ client'[t] = client[t] /\ session'[t] = session[t]
                                        /\ up'[t] = up[t] /\ down'[t] = down[t]
           /\ astray' = astray
<1>1. \A t \in Sessions \ {s} : /\ client'[t] = client[t] /\ session'[t] = session[t]
                                /\ up'[t] = up[t] /\ down'[t] = down[t]
  BY DEF Serve, Route, RouteBytes, Read, ReadCall, EndStream, Checkout, ProvideFails, Execute,
         ExecuteFails, Respond, Hangup, IdleTimeout, Answers, CloseSession, ServerShape
<1>2. client' = client /\ astray' = astray
  BY DEF Serve, Route, RouteBytes, Read, ReadCall, EndStream, Checkout, ProvideFails, Execute,
         ExecuteFails, Respond, Hangup, IdleTimeout, callVars
<1>3. ASSUME Ordered(s) PROVE Ordered(s)'
  <2>1. CASE Route(s) \/ Read(s) \/ EndStream(s) \/ Checkout(s)
    BY <1>3, <2>1, RouteKeeps, ReadKeeps, EndStreamKeeps, CheckoutKeeps
  <2>2. CASE ProvideFails(s)
    BY <1>3, <2>2, AnswersKeeps DEF ProvideFails, Statuses
  <2>3. CASE Execute(s)
    <3>1. PICK status \in Statuses : Answers(s, status)
      BY <2>3 DEF Execute, throws, Statuses
    <3>. QED  BY <1>3, <2>3, <3>1, AnswersKeeps DEF Execute
  <2>4. CASE ExecuteFails(s)
    BY <1>3, <2>4, AnswersKeeps DEF ExecuteFails, Statuses
  <2>5. CASE Respond(s)
    BY <1>3, <2>5, ClosedByServer, RespondKeeps DEF Respond
  <2>6. CASE Hangup(s) \/ IdleTimeout(s)
    BY <1>3, <2>6, ClosedByServer DEF Hangup, IdleTimeout
  <2>. QED  BY <1>3, <2>1, <2>2, <2>3, <2>4, <2>5, <2>6, OnlyAstray DEF Serve
<1>. QED  BY <1>1, <1>2, <1>3, ServeBegins DEF SessionInv, InOrder

\* The process keeps sessions in step, or ends them.
LEMMA ProcessSession ==
    ASSUME ServerShape, NEW s \in Sessions, SessionInv(s), Process
    PROVE  SessionInv(s)'
<1>1. CASE Kill
  <2>1. /\ client'[s] = client[s] /\ down'[s] = down[s] /\ up'[s] = <<>>
        /\ session'[s] = IF Ended(s) THEN session[s] ELSE NoTask("over")
        /\ astray' = astray
    BY <1>1 DEF Kill, callVars
  <2>2. CASE Ended(s)
    BY <2>1, <2>2 DEF SessionInv, InOrder, Ordered, Counted, InPlace, InCall, Fits, Ended, Busy
  <2>3. CASE ~Ended(s)
    <3>1. session[s].at # "none" /\ session'[s].at = "over"
      BY <2>1, <2>3 DEF Ended, NoTask
    <3>. QED  BY <2>1, <3>1 DEF SessionInv, InOrder, Ordered, Counted, InPlace, InCall, Fits, Busy
  <2>. QED  BY <2>2, <2>3
<1>2. CASE ~Kill
  BY <1>2, Elsewhere DEF Process, ListenHttp, Listen, Signal, JoinServers, JoinHttp, callVars
<1>. QED  BY <1>1, <1>2

-----------------------------------------------------------------------------
(* Connections and the process, by steps                                   *)

\* Who moves within a call without the database holds what it held.
LEMMA HeldElsewhere ==
    ASSUME PoolSound, HeldWhileExecuting, UNCHANGED poolVars,
           \A s \in Sessions : session[s].at = "executing" <=> session'[s].at = "executing"
    PROVE  PoolSound' /\ HeldWhileExecuting'
BY DEF PoolSound, HeldWhileExecuting, poolVars, Closed

\* Clients hold no connections.
LEMMA ClientPool ==
    ASSUME ServerShape, PoolSound, HeldWhileExecuting, NEW s \in Sessions, SessionInv(s), Client(s)
    PROVE  PoolSound' /\ HeldWhileExecuting'
<1>1. UNCHANGED poolVars
  BY DEF Client, Connect, Call, Write, Throws, Wrote, Receive, Lost, Leave
<1>2. CASE Connect(s)
  <2>1. session[s].at = "none"
    BY <1>2 DEF Connect, SessionInv
  <2>2. session' = [session EXCEPT ![s] = NoTask("routing")] /\ NoTask("routing").at = "routing"
    BY <1>2 DEF Connect, NoTask
  <2>. QED  BY <1>1, <2>1, <2>2, HeldElsewhere DEF ServerShape
<1>3. CASE ~Connect(s)
  <2>1. session' = session
    BY <1>3 DEF Client, Call, Write, Throws, Wrote, Receive, Lost, Leave
  <2>. QED  BY <1>1, <2>1, HeldElsewhere
<1>. QED  BY <1>2, <1>3

\* A handler holds a connection just while it runs a statement.
LEMMA ServePool ==
    ASSUME ServerShape, PoolSound, HeldWhileExecuting, NEW s \in Sessions, Serve(s)
    PROVE  PoolSound' /\ HeldWhileExecuting'
<1>1. CASE Checkout(s)
  <2>1. held[s] = Null /\ session' = [session EXCEPT ![s].at = "executing"]
    BY <1>1 DEF Checkout, HeldWhileExecuting
  <2>2. session'[s].at = "executing" /\ \A t \in Sessions \ {s} : session'[t] = session[t]
    BY <2>1 DEF ServerShape, Ends
  <2>3. PoolSound' /\ \A t \in Sessions : held'[t] # Null <=> t = s \/ held[t] # Null
    BY <1>1, <2>1, CheckoutSound DEF Checkout, ServerShape
  <2>. QED  BY <2>2, <2>3 DEF HeldWhileExecuting
<1>2. CASE Execute(s) \/ ExecuteFails(s)
  <2>1. /\ held[s] # Null /\ (release(s) \/ discard(s))
        /\ \E status \in Statuses : Answers(s, status)
    BY <1>2 DEF Execute, ExecuteFails, HeldWhileExecuting, throws, Statuses
  <2>2. session'[s].at = "answering" /\ \A t \in Sessions \ {s} : session'[t] = session[t]
    BY <2>1 DEF Answers, ServerShape, Ends
  <2>3. PoolSound' /\ \A t \in Sessions : held'[t] # Null <=> t # s /\ held[t] # Null
    BY <2>1, ReleaseSound DEF ServerShape
  <2>. QED  BY <2>2, <2>3 DEF HeldWhileExecuting
<1>3. ASSUME UNCHANGED poolVars, session[s].at # "executing", session'[s].at # "executing",
             \A t \in Sessions \ {s} : session'[t] = session[t]
      PROVE  PoolSound' /\ HeldWhileExecuting'
  BY <1>3, HeldElsewhere
<1>4. CASE Route(s)
  <2>1. PICK at \in Busy \ {"executing"} : session' = [session EXCEPT ![s] =
          [task |-> arrives(s, Head(up[s])), left |-> Head(up[s]).size, at |-> at]]
    BY <1>4 DEF Route, Busy
  <2>2. session[s].at = "routing" /\ UNCHANGED poolVars
    BY <1>4 DEF Route
  <2>. QED  BY <1>3, <2>1, <2>2 DEF ServerShape
<1>5. CASE Read(s) \/ ReadCall(s) \/ EndStream(s)
  BY <1>3, <1>5 DEF Read, ReadCall, EndStream, ServerShape, Ends
<1>6. CASE ProvideFails(s)
  BY <1>3, <1>6 DEF ProvideFails, Answers, ServerShape, Ends
<1>7. ASSUME session' = [session EXCEPT ![s] = NoTask("over")]
                \/ session' = [session EXCEPT ![s] = NoTask("routing")],
             session[s].at # "executing", UNCHANGED poolVars
      PROVE  PoolSound' /\ HeldWhileExecuting'
  BY <1>3, <1>7 DEF ServerShape, NoTask
<1>8. CASE Respond(s) \/ Hangup(s) \/ IdleTimeout(s)
  BY <1>7, <1>8 DEF Respond, Hangup, IdleTimeout, CloseSession
<1>9. CASE RouteBytes(s)
  <2>1. session[s].at = "routing" /\ UNCHANGED poolVars
    BY <1>9 DEF RouteBytes
  <2>2. CASE CloseSession(s)
    BY <1>7, <2>1, <2>2 DEF CloseSession
  <2>3. CASE ~CloseSession(s)
    <3>1. PICK m \in Methods, size \in 0 .. MaxSize :
            session' = [session EXCEPT ![s] = [at |-> "streaming", left |-> size,
                task |-> [n |-> 0, calls |-> m, type |-> router_context[m], status |-> "ok"]]]
      BY <1>9, <2>3 DEF RouteBytes
    <3>. QED  BY <1>3, <2>1, <3>1 DEF ServerShape
  <2>. QED  BY <2>2, <2>3
<1>. QED  BY <1>1, <1>2, <1>4, <1>5, <1>6, <1>8, <1>9 DEF Serve

\* Both lists are waited for.
LEMMA AllJoined ==
    ASSUME ServerShape, Joined, JoinHttp
    PROVE  listening = {} /\ \A s \in Sessions : Ended(s)
<1>1. joins("zipline") /\ joins("http")
  BY DEF JoinHttp, Joined
<1>2. listening = {}
  BY <1>1 DEF joins, ServerShape
<1>3. \A s \in Sessions : transport(s) \in {"http", "zipline"}
  BY DEF transport
<1>. QED  BY <1>1, <1>2, <1>3 DEF joins

\* The pool is destroyed only when nobody holds a connection any more, or with the process.
LEMMA ProcessPool ==
    ASSUME ServerShape, PoolSound, HeldWhileExecuting, Joined, Process
    PROVE  PoolSound' /\ HeldWhileExecuting'
<1>1. CASE Kill
  <2>1. /\ prepared' = [c \in Connections |-> {}] /\ idle' = {} /\ held' = [s \in Sessions |-> Null]
        /\ \A s \in Sessions : session'[s] = IF Ended(s) THEN session[s] ELSE NoTask("over")
    BY <1>1 DEF Kill
  <2>2. PoolSound'
    BY <2>1, NullIsNoConnection DEF PoolSound, Closed, Sessions
  <2>3. \A s \in Sessions : session'[s].at # "executing"
    BY <2>1 DEF Ended, NoTask
  <2>. QED  BY <2>1, <2>2, <2>3 DEF HeldWhileExecuting
<1>2. CASE JoinHttp
  <2>1. /\ \A s \in Sessions : session'[s] = session[s]
        /\ destroy /\ held' = held
    BY <1>2 DEF JoinHttp, destroy
  <2>2. \A s \in Sessions : held[s] = Null
    BY <1>2, AllJoined DEF Ended, HeldWhileExecuting
  <2>. QED  BY <2>1, <2>2, DestroySound DEF HeldWhileExecuting, ServerShape
<1>3. CASE ~Kill /\ ~JoinHttp
  BY <1>3, HeldElsewhere DEF Process, ListenHttp, Listen, Signal, JoinServers
<1>. QED  BY <1>1, <1>2, <1>3

\* Where nothing is accepted, a session that is over stays over.
LEMMA ClientJoined ==
    ASSUME ServerShape, Joined, NEW s \in Sessions, Client(s)
    PROVE  Joined'
<1>1. phase' = phase /\ listening' = listening /\ UNCHANGED poolVars
  BY DEF Client, Connect, Call, Write, Throws, Wrote, Receive, Lost, Leave, processVars
<1>2. CASE ~Connect(s)
  <2>1. session' = session
    BY <1>2 DEF Client, Call, Write, Throws, Wrote, Receive, Lost, Leave
  <2>. QED  BY <1>1, <2>1 DEF Joined, Resting, joins, transport, Ended, Closed, poolVars
<1>3. CASE Connect(s)
  <2>1. /\ transport(s) \in listening /\ listening # {}
        /\ \A t \in Sessions \ {s} : session'[t] = session[t]
    BY <1>3 DEF Connect, ServerShape
  <2>2. phase \notin {"starting", "failed", "stopped", "killed"}
    BY <2>1 DEF Joined, Resting
  <2>3. phase = "joined" => joins("zipline") /\ transport(s) # "zipline"
    BY <2>1 DEF Joined, joins
  <2>. QED  BY <1>1, <2>1, <2>2, <2>3 DEF Joined, joins, transport, Ended
<1>. QED  BY <1>2, <1>3

\* A session that is served is not over.
LEMMA ServeJoined ==
    ASSUME ServerShape, Joined, NEW s \in Sessions, Serve(s)
    PROVE  Joined'
<1>1. phase' = phase /\ listening' = listening
  BY DEF Serve, Route, RouteBytes, Read, ReadCall, EndStream, Checkout, ProvideFails, Execute,
         ExecuteFails, Respond, Hangup, IdleTimeout, processVars
<1>2. ~Ended(s)
  BY DEF Serve, Route, RouteBytes, Read, ReadCall, EndStream, Checkout, ProvideFails, Execute,
         ExecuteFails, Respond, Hangup, IdleTimeout, Ended
<1>3. \A t \in Sessions \ {s} : session'[t] = session[t]
  BY DEF Serve, Route, RouteBytes, Read, ReadCall, EndStream, Checkout, ProvideFails, Execute,
         ExecuteFails, Respond, Hangup, IdleTimeout, Answers, CloseSession, ServerShape
<1>4. phase \notin {"starting", "failed", "stopped", "killed"}
  BY <1>2 DEF Joined, Resting
<1>5. phase = "joined" => joins("zipline") /\ transport(s) # "zipline"
  BY <1>2 DEF Joined, joins
<1>. QED  BY <1>1, <1>3, <1>4, <1>5 DEF Joined, joins, transport, Ended

\* The process rests only after both lists were joined, or with a kill.
LEMMA ProcessJoined ==
    ASSUME ServerShape, PoolSound, HeldWhileExecuting, Joined, Process
    PROVE  Joined'
<1>1. CASE ListenHttp
  BY <1>1 DEF ListenHttp, Joined, Resting, Ended, Closed, poolVars
<1>2. CASE Listen
  BY <1>2 DEF Listen, Joined
<1>3. CASE Signal
  BY <1>3 DEF Signal, Joined, joins, transport, Ended
<1>4. CASE Kill
  <2>1. \A s \in Sessions : Ended(s)'
    BY <1>4 DEF Kill, Ended, NoTask
  <2>2. listening' = {} /\ phase' = "killed" /\ \A c \in Connections : Closed(c)'
    BY <1>4 DEF Kill, Closed
  <2>. QED  BY <2>1, <2>2 DEF Joined, Resting
<1>5. CASE JoinServers
  BY <1>5 DEF JoinServers, Joined, joins, transport, Ended
<1>6. CASE JoinHttp
  <2>1. listening = {} /\ \A s \in Sessions : Ended(s)
    BY <1>6, AllJoined
  <2>2. \A s \in Sessions : held[s] = Null
    BY <2>1 DEF Ended, HeldWhileExecuting
  <2>3. \A c \in Connections : Closed(c)'
    BY <1>6, <2>2, DestroySound DEF JoinHttp, ServerShape
  <2>4. phase' = "stopped" /\ listening' = listening /\ session' = session
    BY <1>6 DEF JoinHttp
  <2>. QED  BY <2>1, <2>3, <2>4 DEF Joined, Resting, joins, Ended
<1>. QED  BY <1>1, <1>2, <1>3, <1>4, <1>5, <1>6 DEF Process

-----------------------------------------------------------------------------
(* The invariant                                                           *)

\* A process that has not started satisfies the invariant.
LEMMA ServerInvInit == Init => ServerInv
<1>. SUFFICES ASSUME Init PROVE ServerInv
  OBVIOUS
<1>1. ServerShape
  <2>1. client \in [Sessions -> Clients] /\ session \in [Sessions -> Ends]
    BY OutsideIsClient, NoTaskIsEnd DEF Init
  <2>2. /\ DOMAIN up = Sessions /\ \A s \in Sessions : up[s] \in Seq(CallTokens(s) \union ByteTokens)
        /\ down \in [Sessions -> Seq(Tasks)]
    BY EmptySeq DEF Init
  <2>3. PoolShape
    BY DEF Init, PoolInit, PoolShape, Sessions
  <2>4. phase = "starting" /\ listening = {} /\ signalled \in BOOLEAN
    BY DEF Init
  <2>5. calls \in 0 .. MaxCalls /\ astray \subseteq Sessions /\ faults \in 0 .. MaxFaults
    BY ServerConstants DEF Init
  <2>. QED  BY <2>1, <2>2, <2>3, <2>4, <2>5 DEF ServerShape
<1>2. ASSUME NEW s \in Sessions
      PROVE  /\ s \notin astray /\ client[s].at = "new" /\ client[s].outcome.status = "none"
             /\ session[s].at = "none" /\ up[s] = <<>> /\ down[s] = <<>> /\ held[s] = Null
  BY DEF Init, PoolInit, Outside, NoTask, Nothing, Sessions
<1>3. \A s \in Sessions : SessionInv(s)
  BY <1>2 DEF SessionInv, InOrder, Ordered, Counted, InPlace, Busy
<1>4. PoolSound
  BY NullIsNoConnection DEF Init, PoolInit, PoolSound, Closed
<1>5. HeldWhileExecuting
  BY <1>2 DEF HeldWhileExecuting
<1>6. Joined
  BY <1>2 DEF Init, PoolInit, Joined, Resting, Ended, Closed
<1>. QED  BY <1>1, <1>3, <1>4, <1>5, <1>6 DEF ServerInv

\* Every step keeps the parts of the invariant together.
LEMMA ServerInvNext == ServerInv /\ [Next]_vars => ServerInv'
<1>. SUFFICES ASSUME ServerInv, [Next]_vars PROVE ServerInv'
  OBVIOUS
<1>. USE DEF ServerInv
<1>1. CASE Process
  BY <1>1, ProcessShape, ProcessSession, ProcessPool, ProcessJoined
<1>2. ASSUME NEW s \in Sessions, Client(s) PROVE ServerInv'
  <2>1. \A t \in Sessions : SessionInv(t)'
    BY <1>2, ClientSession, Elsewhere
  <2>. QED  BY <1>2, <2>1, ClientShape, ClientPool, ClientJoined
<1>3. ASSUME NEW s \in Sessions, Serve(s) PROVE ServerInv'
  <2>1. \A t \in Sessions : SessionInv(t)'
    BY <1>3, ServeSession, Elsewhere
  <2>. QED  BY <1>3, <2>1, ServeShape, ServePool, ServeJoined
<1>4. CASE UNCHANGED vars
  <2>1. /\ UNCHANGED <<phase, listening, signalled, client, session>>
        /\ UNCHANGED <<up, down, calls, astray, faults, prepared, idle, held>>
    BY <1>4 DEF vars, processVars, callVars, poolVars
  <2>2. ServerShape' /\ PoolSound' /\ HeldWhileExecuting' /\ Joined'
    <3>1. ServerShape'
      BY <2>1 DEF ServerShape, PoolShape
    <3>2. PoolSound' /\ HeldWhileExecuting'
      BY <2>1 DEF PoolSound, HeldWhileExecuting, Closed
    <3>3. Joined'
      BY <2>1 DEF Joined, Resting, joins, transport, Ended, Closed
    <3>. QED  BY <3>1, <3>2, <3>3
  <2>3. \A t \in Sessions : SessionInv(t)'
    BY <2>1, Elsewhere
  <2>. QED  BY <2>2, <2>3
<1>. QED  BY <1>1, <1>2, <1>3, <1>4 DEF Next

\* Of every run of a server with its clients, the invariant holds.
LEMMA ServerInvHolds == Spec => []ServerInv
BY ServerInvInit, ServerInvNext, PTL DEF Spec

-----------------------------------------------------------------------------
(* What follows from it                                                    *)

\* Type correctness of the server and its clients, with at most one answer on its way
\* to a client in order, for any number of sessions, connections, calls and faults.
THEOREM ServerTypeOKHolds == Spec => []ServerTypeOK
<1>1. ServerInv => ServerTypeOK
  <2>. SUFFICES ASSUME ServerInv PROVE ServerTypeOK
    OBVIOUS
  <2>1. ServerShape /\ HeldWhileExecuting /\ \A s \in Sessions : SessionInv(s)
    BY DEF ServerInv
  <2>2. ASSUME NEW s \in Sessions
        PROVE  /\ client[s].at \in {"new", "idle", "sending", "thrown", "waiting", "gone"}
               /\ client[s].n \in 0 .. MaxCalls /\ client[s].left \in 0 .. MaxSize
               /\ session[s].at \in {"none", "routing", "streaming", "connecting", "executing",
                                     "answering", "over"}
               /\ session[s].left \in 0 .. MaxSize
               /\ client[s].outcome.status \in Statuses /\ session[s].task.status \in Statuses
    BY <2>1 DEF ServerShape, Clients, Ends, Tasks, Busy
  <2>3. ASSUME NEW s \in Sessions, NEW i \in DOMAIN up[s]
        PROVE  up[s][i].kind \in {"call", "byte"}
    <3>1. up[s] \in Seq(CallTokens(s) \union ByteTokens)
      BY <2>1 DEF ServerShape
    <3>2. up[s][i] \in CallTokens(s) \union ByteTokens
      BY <3>1, LenProperties, ElementOfSeq
    <3>. QED  BY <3>2 DEF CallTokens, ByteTokens
  <2>4. ASSUME NEW s \in Sessions, s \notin astray PROVE ~(Len(down[s]) > 1)
    <3>1. down[s] = <<>> \/ Len(down[s]) = 1
      BY <2>1, <2>4 DEF SessionInv, InOrder, Ordered, InPlace
    <3>2. CASE Len(down[s]) = 1
      BY <3>2
    <3>3. CASE down[s] = <<>>
      <4>1. Len(down[s]) = 0
        BY <3>3, EmptySeq, Zenon
      <4>. QED  BY <4>1
    <3>. QED  BY <3>1, <3>2, <3>3
  <2>5. astray \subseteq Sessions \ Http
    BY <2>1 DEF ServerShape, SessionInv, InOrder
  <2>. QED  BY <2>1, <2>2, <2>3, <2>4, <2>5 DEF ServerTypeOK, ServerShape, HeldWhileExecuting
<1>. QED  BY <1>1, ServerInvHolds, PTL

\* Handlers share any number of connections soundly, whatever breaks.
THEOREM PoolSoundHolds == Spec => []PoolSound
<1>1. ServerInv => PoolSound
  BY DEF ServerInv
<1>. QED  BY <1>1, ServerInvHolds, PTL

\* The server always knows where in a stream it is, for calls and bytes in any
\* number, although clients break off or throw and connections to the database fail:
\* unless that very client is called again after it threw, whatever others do.
THEOREM InStepHolds == Spec => []InStep
<1>1. ServerInv => InStep
  <2>. SUFFICES ASSUME ServerInv, NEW s \in Sessions, InOrder(s), up[s] # <<>>
                PROVE  /\ session[s].at = "routing" => Head(up[s]).kind = "call"
                       /\ session[s].at = "streaming" => Head(up[s]).kind = "byte"
    BY DEF InStep
  <2>1. session[s].at = "routing" => Head(up[s]) \in CallTokens(s)
    BY DEF ServerInv, SessionInv, Ordered, Counted, Announced
  <2>2. session[s].at = "streaming" => Head(up[s]) \in ByteTokens
    <3>1. session[s].at = "streaming" => up[s] \in Seq(ByteTokens)
      BY DEF ServerInv, SessionInv, Ordered, Counted, Busy
    <3>. QED  BY <3>1, HeadTailProperties
  <2>. QED  BY <2>1, <2>2 DEF CallTokens, ByteTokens
<1>. QED  BY <1>1, ServerInvHolds, PTL

\* Every answer is that of the call it is taken for, over both transports, unless the
\* client it comes to was called again after its caller's function threw.
THEOREM AnswerFitsCallHolds == Spec => []AnswerFitsCall
<1>1. ServerInv => AnswerFitsCall
  BY DEF ServerInv, SessionInv, Ordered, InPlace, Fits, AnswerFitsCall
<1>. QED  BY <1>1, ServerInvHolds, PTL

\* However the process ends, no handler is left with a store that is gone.
THEOREM StoreOutlivesHandlersHolds == Spec => []StoreOutlivesHandlers
<1>1. ServerInv => StoreOutlivesHandlers
  BY DEF ServerInv, Joined, Resting, StoreOutlivesHandlers
<1>. QED  BY <1>1, ServerInvHolds, PTL
=============================================================================
