-------------------------- MODULE ServerInvariant --------------------------
(***************************************************************************)
(* Why sessions stay in step and nothing outlives what it uses: the        *)
(* inductive invariant behind the safety properties of Server, as named    *)
(* parts.                                                                  *)
(***************************************************************************)
EXTENDS Server

Types == {router_context[m] : m \in Methods}
Tasks == [n : 0 .. MaxCalls, calls : Methods \union {""}, type : Types \union {""}, status : Statuses]
Clients == [at : {"new", "idle", "sending", "thrown", "waiting", "gone"}, n : 0 .. MaxCalls,
            method : Methods \union {""}, left : 0 .. MaxSize, outcome : Tasks]
Busy == {"streaming", "connecting", "executing", "answering"}
Ends == [at : {"none", "routing", "over"} \union Busy, left : 0 .. MaxSize, task : Tasks]

\* What may be on its way to the server in a session.
CallTokens(s) ==
    [kind : {"call"}, request : {request(s \in Http, m) : m \in Methods},
     n : 0 .. MaxCalls, size : 0 .. MaxSize]
ByteTokens == [kind : {"byte"}]

PoolShape ==
    /\ prepared \in [Connections -> {{}, provide}]
    /\ idle \subseteq Connections
    /\ held \in [Sessions -> Connections \union {Null}]

ServerShape ==
    /\ phase \in {"starting", "http", "running", "joined", "stopped", "failed", "killed"}
    /\ listening \subseteq {"http", "zipline"}
    /\ signalled \in BOOLEAN
    /\ client \in [Sessions -> Clients]
    /\ session \in [Sessions -> Ends]
    /\ DOMAIN up = Sessions /\ \A s \in Sessions : up[s] \in Seq(CallTokens(s) \union ByteTokens)
    /\ down \in [Sessions -> Seq(Tasks)]
    /\ calls \in 0 .. MaxCalls /\ astray \subseteq Sessions /\ faults \in 0 .. MaxFaults
    /\ PoolShape

-----------------------------------------------------------------------------
(* Sessions                                                                *)

\* A task or an answer is that of the client's call.
Fits(s, task) ==
    /\ task.n = client[s].n
    /\ task.calls = client[s].method
    /\ encoded(task.type) = reads(s \in Http, client[s].method)

\* A call is followed by bytes only, and by no more than it announced; only an
\* upload announces any.
Announced(s) ==
    /\ Head(up[s]) \in CallTokens(s)
    /\ Tail(up[s]) \in Seq(ByteTokens)
    /\ Len(Tail(up[s])) <= Head(up[s]).size
    /\ Head(up[s]).size # 0 => Head(up[s]).request = request(s \in Http, "add_object")

\* What the server has yet to read is the rest of what was announced to it.
Counted(s) ==
    /\ session[s].at = "routing" /\ up[s] # <<>> => Announced(s)
    /\ session[s].at \in Busy =>
          /\ up[s] \in Seq(ByteTokens) /\ Len(up[s]) <= session[s].left
          /\ session[s].at # "streaming" => session[s].left = 0

\* A client in a call, and one whose caller's function threw out of it, is owed
\* what its request becomes: it is on its way, it is being served, it is answered,
\* or the session is over.
InCall(s) ==
    /\ session[s].at # "none"
    /\ session[s].at = "over" /\ up[s] # <<>> => down[s] = <<>>
    /\ session[s].at = "routing" /\ up[s] # <<>> =>
          /\ down[s] = <<>>
          /\ Head(up[s]).request = request(s \in Http, client[s].method)
          /\ Head(up[s]).n = client[s].n
          /\ Head(up[s]).size = client[s].left + Len(Tail(up[s]))
    /\ session[s].at = "routing" /\ up[s] = <<>> => client[s].left = 0
    /\ session[s].at \in Busy =>
          /\ down[s] = <<>>
          /\ Fits(s, session[s].task)
          /\ session[s].left = client[s].left + Len(up[s])

InPlace(s) ==
    /\ client[s].at \in {"new", "idle"} =>
          up[s] = <<>> /\ down[s] = <<>> /\ session[s].at \notin Busy
    /\ client[s].at \in {"sending", "thrown", "waiting"} => client[s].method \in Methods /\ InCall(s)
    /\ client[s].at = "gone" => down[s] = <<>>
    /\ down[s] # <<>> => Len(down[s]) = 1 /\ Fits(s, Head(down[s]))
    /\ client[s].outcome.status # "none" => Fits(s, client[s].outcome)

Ordered(s) == Counted(s) /\ InPlace(s)

\* Of a session that has gone astray no more is known than that it has begun, and
\* is one of zipline's.
SessionInv(s) ==
    /\ client[s].at = "new" <=> session[s].at = "none"
    /\ client[s].at = "thrown" \/ ~InOrder(s) => s \notin Http
    /\ InOrder(s) => Ordered(s)

-----------------------------------------------------------------------------
(* Connections and the process                                             *)

HeldWhileExecuting == \A s \in Sessions : held[s] # Null <=> session[s].at = "executing"

Resting ==
    /\ listening = {}
    /\ \A s \in Sessions : Ended(s)
    /\ \A c \in Connections : Closed(c)

\* What is joined stays as it was joined, and where the process is at rest it
\* stays so.
Joined ==
    /\ phase \in {"joined", "stopped"} => joins("zipline")
    /\ phase \in {"starting", "failed", "stopped", "killed"} => Resting

ServerInv ==
    /\ ServerShape
    /\ \A s \in Sessions : SessionInv(s)
    /\ PoolSound
    /\ HeldWhileExecuting
    /\ Joined
=============================================================================
