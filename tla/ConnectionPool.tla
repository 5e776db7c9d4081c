--------------------------- MODULE ConnectionPool ---------------------------
(***************************************************************************)
(* db::pool with its provider: the connections to the database that the    *)
(* handlers of a process share.  A handler checks one out, runs one        *)
(* statement that was prepared when the connection was opened, and gives   *)
(* it back.  The pool itself is ext::pool, a library.                      *)
(***************************************************************************)
EXTENDS Naturals, FiniteSets

CONSTANTS
    Handlers,       \* who checks connections out
    Connections,    \* as many as the pool may open
    Null

VARIABLES
    prepared,   \* the statements of each open connection, none while it is closed
    idle,       \* open connections nobody holds
    held        \* the connection each handler holds

poolVars == <<prepared, idle, held>>

ASSUME NullIsNoConnection == Null \notin Connections

\* The members of db::connection that run a statement, with the number of their
\* parameters; fetch_buckets_all is the overload of fetch_buckets without names.
parameters ==
    [add_object            |-> 6,
     create_bucket         |-> 1,
     fetch_bucket          |-> 1,
     fetch_buckets         |-> 1,
     fetch_buckets_all     |-> 0,
     fetch_store_totals    |-> 0,
     get_errors            |-> 0,
     get_object            |-> 2,
     get_objects           |-> 2,
     remove_bucket         |-> 1,
     remove_object         |-> 2,
     remove_objects        |-> 2,
     remove_orphan_objects |-> 0,
     rename_bucket         |-> 2,
     update_object_errors  |-> 1]

Members == DOMAIN parameters

\* The name a member runs its statement by, and how many arguments it sends:
\* all its parameters, but get_objects, whose two are the name of the portal and
\* the number of rows to fetch.
statement(m) == <<m, IF m = "get_objects" THEN 0 ELSE parameters[m]>>

Statements == {statement(m) : m \in Members}

\* Mutated form: every statement is derived from its member.
provide_derived == {<<m, parameters[m]>> : m \in Members}

\* What the provider prepares: a function of the name and the parameters of each
\* member, and get_objects by hand.
provide == {<<m, parameters[m]>> : m \in Members \ {"get_objects"}} \union {<<"get_objects", 0>>}

PoolInit ==
    /\ prepared = [c \in Connections |-> {}]
    /\ idle = {}
    /\ held = [h \in Handlers |-> Null]

\* An open connection has its statements.
Closed(c) == prepared[c] = {}

\* Mutated form: an idle connection is handed out and stays on the list.
checkout_shared(h) ==
    \E c \in Connections :
        /\ \/ c \in idle /\ UNCHANGED prepared
           \/ /\ idle = {} /\ Closed(c)
              /\ prepared' = [prepared EXCEPT ![c] = provide]
        /\ held' = [held EXCEPT ![h] = c]
        /\ UNCHANGED idle

\* An idle connection, or else a new one, which is handed out only when all of
\* its statements are prepared.
checkout(h) ==
    \E c \in Connections :
        /\ \/ /\ c \in idle
              /\ idle' = idle \ {c}
              /\ UNCHANGED prepared
           \/ /\ idle = {} /\ Closed(c)
              /\ prepared' = [prepared EXCEPT ![c] = provide]
              /\ UNCHANGED idle
        /\ held' = [held EXCEPT ![h] = c]

\* The handler's connection goes out of scope.
release(h) ==
    /\ idle' = idle \union {held[h]}
    /\ held' = [held EXCEPT ![h] = Null]
    /\ UNCHANGED prepared

\* A connection that broke is closed.
discard(h) ==
    /\ prepared' = [prepared EXCEPT ![held[h]] = {}]
    /\ held' = [held EXCEPT ![h] = Null]
    /\ UNCHANGED idle

\* The pool is destroyed with what is idle in it.
destroy ==
    /\ prepared' = [c \in Connections |-> IF c \in idle THEN {} ELSE prepared[c]]
    /\ idle' = {}
    /\ UNCHANGED held

-----------------------------------------------------------------------------
\* An open connection is with one handler or with the pool, never with two and
\* never with none, which would take it away from the others for good; and a
\* handler finds every statement that any function of db::connection runs
\* (connection.cpp) prepared under that name and with those arguments (pool.cpp),
\* also after connections broke and were replaced.
PoolSound ==
    /\ \A h \in Handlers : held[h] # Null =>
          /\ held[h] \notin idle
          /\ \A g \in Handlers : held[g] = held[h] => g = h
          /\ Statements \subseteq prepared[held[h]]
    /\ \A c \in Connections :
          Closed(c) <=> c \notin idle /\ \A h \in Handlers : held[h] # c
=============================================================================
