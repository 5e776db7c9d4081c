------------------------------ MODULE Protocol ------------------------------
(***************************************************************************)
(* The calls a client can make of a server.  Each exists four times: as a  *)
(* method of the client library and a route of the server, over zipline    *)
(* (fstore::object_store, router_context) and over HTTP (sync::http,       *)
(* http::router).  The two ends agree on a call only by a number or by a   *)
(* path, and on an answer only by the type each of them decodes or encodes.*)
(***************************************************************************)
EXTENDS Naturals, Sequences

Methods ==
    {"add_object", "fetch_bucket", "get_object", "get_object_metadata",
     "get_server_info", "remove_object", "remove_objects"}

-----------------------------------------------------------------------------
(* Zipline: an event's number, then the arguments                          *)

event ==
    <<"add_object", "fetch_bucket", "get_object", "get_object_metadata",
      "get_server_info", "remove_object", "remove_objects">>

\* Mutated form: a route is added out of the order of the events.
make_router_unordered ==
    <<"add_object", "fetch_bucket", "get_object_metadata", "get_object",
      "get_server_info", "remove_object", "remove_objects">>

\* The server's handlers, by the numbers of their events.
make_router ==
    <<"add_object", "fetch_bucket", "get_object", "get_object_metadata",
      "get_server_info", "remove_object", "remove_objects">>

event_code(m) == CHOOSE code \in DOMAIN event : event[code] = m

\* What each method decodes: a stream is a size and as many bytes, whichever of
\* the three overloads of get_object takes it in.
client_reads ==
    [add_object          |-> "object",
     fetch_bucket        |-> "bucket",
     get_object          |-> "stream",
     get_object_metadata |-> "object",
     get_server_info     |-> "server_info",
     remove_object       |-> "object",
     remove_objects      |-> "remove_result"]

\* A file is encoded as a stream.
encoded(type) == IF type = "file" THEN "stream" ELSE type

\* What each handler answers.
router_context ==
    [add_object          |-> "object",
     fetch_bucket        |-> "bucket",
     get_object          |-> "file",
     get_object_metadata |-> "object",
     get_server_info     |-> "server_info",
     remove_object       |-> "object",
     remove_objects      |-> "remove_result"]

\* Errors are told apart by their place in a list both ends are built with.
error_list == <<"invalid_data", "not_found", "unique_bucket_violation">>

-----------------------------------------------------------------------------
(* HTTP: a verb and a path                                                 *)

http_request ==
    [add_object          |-> <<"POST", "/object/:bucket">>,
     fetch_bucket        |-> <<"GET", "/bucket/:name">>,
     get_object          |-> <<"GET", "/data/:bucket/:object">>,
     get_object_metadata |-> <<"GET", "/object/:bucket/:object">>,
     get_server_info     |-> <<"GET", "/">>,
     remove_object       |-> <<"DELETE", "/object/:bucket/:object">>,
     remove_objects      |-> <<"DELETE", "/object/:bucket">>]

\* The routes, with the function of the store behind each and what it answers.
http_router ==
    {[route |-> <<"GET", "/">>,                          calls |-> "get_server_info",     type |-> "server_info"],
     [route |-> <<"GET", "/bucket/:name">>,              calls |-> "fetch_bucket",        type |-> "bucket"],
     [route |-> <<"GET", "/object/:bucket/:object">>,    calls |-> "get_object_metadata", type |-> "object"],
     [route |-> <<"DELETE", "/object/:bucket/:object">>, calls |-> "remove_object",       type |-> "object"],
     [route |-> <<"DELETE", "/object/:bucket">>,         calls |-> "remove_objects",      type |-> "remove_result"],
     [route |-> <<"POST", "/object/:bucket">>,           calls |-> "add_object",          type |-> "object"],
     [route |-> <<"GET", "/data/:bucket/:object">>,      calls |-> "get_object",          type |-> "file"]}

\* A download is the body of its response as it is, all else is JSON.
http_reads ==
    [add_object          |-> "object",
     fetch_bucket        |-> "bucket",
     get_object          |-> "stream",
     get_object_metadata |-> "object",
     get_server_info     |-> "server_info",
     remove_object       |-> "object",
     remove_objects      |-> "remove_result"]

-----------------------------------------------------------------------------
(* Either                                                                  *)

reads(http, m) == IF http THEN http_reads[m] ELSE client_reads[m]

request(http, m) == IF http THEN http_request[m] ELSE event_code(m)

\* The handler a request reaches, and the type it answers.
handler(http, req) ==
    IF http THEN CHOOSE r \in http_router : r.route = req
    ELSE LET m == make_router[req] IN [route |-> req, calls |-> m, type |-> router_context[m]]

\* Of the errors in the list, those a handler can throw: what it names is not
\* there.  A failed call of the database is an exception outside the list.
throws(m) ==
    IF m \in {"fetch_bucket", "get_object", "get_object_metadata", "remove_object"}
    THEN {"not_found"} ELSE {}

\* Whether a handler needs a connection to the database.
uses_database(m) == m # "get_server_info"
=============================================================================
