------------------------------- MODULE Routes -------------------------------
(***************************************************************************)
(* How a request finds its handler and its row: first what a handler does  *)
(* with its path, then the table of routes that leads to the handler.      *)
(*                                                                         *)
(* parseRoute: the path the handlers put together from the parts of the    *)
(* URL that Drogon matched, taken apart again.  A part is a sequence of    *)
(* characters: letters of both cases, one that no name may have, and in an *)
(* identifier the separator, anywhere; each part may be empty.             *)
(***************************************************************************)
EXTENDS Integers, Sequences, SequencesExt

CONSTANT MaxId      \* bound on the length of an identifier in a URL

ASSUME RoutesAssumption == MaxId \in Nat

VARIABLES rtcase, rtout
routeVars == <<rtcase, rtout>>

Slash == "/"
NameChars == {"a", "A"}
Reserved == <<"a", "a", "a">>      \* stands for "invalid" and its like, in any case
RouteNames == {<<>>, <<"a">>, <<"A", "a">>, <<"a", "-">>, <<"A", "a", "a">>}
RouteIds == SeqOf({"a", "-", Slash}, MaxId)
RouteActions == {<<>>, <<"a">>}

(* Patterns of three, four and five parts lead to the rows.                *)
RouteCases ==
    {c \in [tenant : RouteNames, package : RouteNames, entity : RouteNames,
            id : RouteIds, action : RouteActions, parts : 3..5] :
        (c.parts = 3 => c.id = <<>>) /\ (c.parts < 5 => c.action = <<>>)}

Unrouted == [valid |-> FALSE, id |-> <<>>, names |-> <<>>, action |-> <<>>, extra |-> <<>>]
InitRoutes == rtcase \in RouteCases /\ rtout = <<>>

(* handleEntity, handleEntityWithId and handleEntityAction.                *)
FullPath(c) ==
    <<Slash>> \o c.tenant \o <<Slash>> \o c.package \o <<Slash>> \o c.entity
    \o (IF c.parts = 3 THEN <<>> ELSE <<Slash>> \o c.id)
    \o (IF c.parts = 5 THEN <<Slash>> \o c.action ELSE <<>>)

(* Split at separators; empty segments are dropped: the segments that were *)
(* read, and the characters after the last separator.                      *)
NothingRead == [done |-> <<>>, open |-> <<>>]
ReadChar(read, c) ==
    IF c # Slash THEN [done |-> read.done, open |-> Append(read.open, c)]
    ELSE [done |-> IF read.open = <<>> THEN read.done ELSE Append(read.done, read.open), open |-> <<>>]
ReadPath(path) ==
    LET read[n \in 0..Len(path)] == IF n = 0 THEN NothingRead ELSE ReadChar(read[n - 1], path[n])
    IN read[Len(path)]
Segments(path) == ReadChar(ReadPath(path), Slash).done

toLower(name) == [i \in DOMAIN name |-> IF name[i] = "A" THEN "a" ELSE name[i]]
is_valid_name(name) == name # <<>> /\ ToSet(name) \subseteq NameChars

parseRoute(path) ==
    LET s == Segments(path)
    IN IF Len(s) < 3 \/ toLower(s[1]) = Reserved \/ \E i \in 1..3 : ~is_valid_name(s[i]) THEN Unrouted
       ELSE [valid |-> TRUE, names |-> SubSeq(s, 1, 3), id |-> IF Len(s) > 3 THEN s[4] ELSE <<>>,
             action |-> IF Len(s) > 4 THEN s[5] ELSE <<>>, extra |-> SubSeq(s, 6, Len(s))]

(* handleRestfulRequest turns a route with an action away.                 *)
RouteRequest == rtout = <<>> /\ rtout' = <<parseRoute(FullPath(rtcase))>> /\ UNCHANGED rtcase

SpecRoutes == InitRoutes /\ [][RouteRequest]_routeVars

-----------------------------------------------------------------------------
Served(r) == r.valid /\ r.action = <<>>
Nameable(name) == ToSet(name) \subseteq NameChars

(* The path of such a URL has an empty segment, and those are dropped.     *)
Skips(c) == IF c.id = <<>> THEN c.action # <<>> ELSE Slash \in {c.id[1], c.id[Len(c.id)]}

(* A request that is served acts on the tenant, package and entity of its  *)
(* URL, if none is empty, and on the row of its URL and no other - an      *)
(* identifier with a separator inside is turned away, never cut to its     *)
(* first part - but for identifiers that begin or end with a separator     *)
(* and an empty one before an action: those lead to the row that is left   *)
(* when the empty segments are dropped.  And every plain URL is served.    *)
NeverAnotherRow ==
    rtout # <<>> =>
        LET r == rtout[1]
            names == {rtcase.tenant, rtcase.package, rtcase.entity}
        IN
        /\ Served(r) /\ <<>> \notin names =>
              /\ r.names = <<rtcase.tenant, rtcase.package, rtcase.entity>>
              /\ Skips(rtcase) \/ (r.id = rtcase.id /\ rtcase.action = <<>>)
        /\ (/\ \A n \in names : n # <<>> /\ Nameable(n)
            /\ Len(rtcase.tenant) # Len(Reserved) /\ Slash \notin ToSet(rtcase.id) /\ rtcase.action = <<>>)
              => Served(r)

-----------------------------------------------------------------------------
(***************************************************************************)
(* registerRoutes (daemon/server_routes.cpp): the patterns the daemon      *)
(* registers, in that order, with the methods of each and the limiter that *)
(* counts its requests.  Drogon looks a path up among the patterns without *)
(* variables and then goes through the others in order of registration;    *)
(* whether a pattern that fits the path but not the method ends the search *)
(* is left open.                                                           *)
(***************************************************************************)
VARIABLES dcase, dout
tableVars == <<dcase, dout>>

Var == "{}"
Route(path, methods, read, write, preflight) ==
    [path |-> path, methods |-> methods, read |-> read, write |-> write, preflight |-> preflight]
Uncounted(path, methods) == Route(path, methods, "none", "none", "none")

HealthRoutes ==
    [i \in 1..7 |-> Uncounted(<< <<"health">>, <<"healthz">>, <<"version">>, <<"api", "version">>, <<"status">>,
                                 <<"api", "status">>, <<"metrics">> >>[i], {"GET", "OPTIONS"})]
SchemaRoutes == << Uncounted(<<"api", "dbal", "schema">>, {"GET", "POST"}) >>

Admin(path, methods) == Route(path, methods \cup {"OPTIONS"}, "admin", "admin", "admin")
AdminRoutes ==
    << Admin(<<"admin", "config">>, {"GET", "POST"}), Admin(<<"admin", "adapters">>, {"GET"}),
       Admin(<<"admin", "test-connection">>, {"POST"}), Admin(<<"admin", "seed">>, {"POST"}) >>
SecretRoutes ==
    << Admin(<<"admin", "credentials">>, {"POST"}), Admin(<<"admin", "secrets">>, {"POST"}),
       Admin(<<"admin", "secrets", Var, "reveal">>, {"POST"}) >>

Changes(path) == Route(path, {"POST"}, "mutation", "mutation", "mutation")
RpcRoutes == << Changes(<<"api", "dbal">>) >>
SearchRoutes == << Route(<<Var, Var, Var, "_search">>, {"GET"}, "read", "read", "read") >>
BulkRoutes ==
    << Changes(<<Var, Var, Var, "_bulk", "create">>), Changes(<<Var, Var, Var, "_bulk", "update">>),
       Changes(<<Var, Var, Var, "_bulk", "delete">>) >>
BatchRoutes == << Changes(<<Var, Var, "_batch">>) >>

BlobRoutes ==
    << Route(<<Var, Var, "blob", "_stats">>, {"GET", "OPTIONS"}, "read", "read", "read"),
       Route(<<Var, Var, "blob">>, {"GET", "OPTIONS"}, "read", "read", "read"),
       Route(<<Var, Var, "blob", Var, Var>>, {"GET", "POST", "OPTIONS"}, "read", "mutation", "mutation"),
       Route(<<Var, Var, "blob", Var>>, {"GET", "PUT", "DELETE", "HEAD", "OPTIONS"}, "read", "mutation", "mutation") >>
BqlRoutes == << Route(<<Var, Var, "bql", "parse">>, {"POST", "OPTIONS"}, "read", "read", "none") >>
QueryRoutes == << Route(<<Var, Var, "query", Var>>, {"GET", "OPTIONS"}, "read", "read", "none") >>

Entity(path, methods) == Route(path, methods \cup {"OPTIONS"}, "read", "mutation", "none")
EntityRoutes ==
    << Entity(<<Var, Var, Var>>, {"GET", "POST"}),
       Entity(<<Var, Var, Var, Var>>, {"GET", "POST", "PUT", "PATCH", "DELETE"}),
       Entity(<<Var, Var, Var, Var, Var>>, {"GET", "POST"}) >>

OidcRoutes ==
    << Uncounted(<<".well-known", "openid-configuration">>, {"GET"}), Uncounted(<<"oidc", "jwks.json">>, {"GET"}),
       Uncounted(<<"oidc", "authorize">>, {"GET"}), Uncounted(<<"oidc", "token">>, {"POST"}),
       Uncounted(<<"oidc", "login">>, {"GET", "POST"}), Uncounted(<<"oidc", "userinfo">>, {"GET"}),
       Uncounted(<<"oidc", "logout">>, {"GET", "POST"}) >>
SamlAndCasRoutes ==
    << Uncounted(<<"saml", "metadata">>, {"GET"}), Uncounted(<<"saml", "sso">>, {"GET"}),
       Uncounted(<<"saml", "login">>, {"GET", "POST"}), Uncounted(<<"cas", "login">>, {"GET", "POST"}),
       Uncounted(<<"cas", "serviceValidate">>, {"GET"}) >>

registerRoutes ==
    HealthRoutes \o SchemaRoutes \o AdminRoutes \o SecretRoutes \o RpcRoutes \o SearchRoutes \o BulkRoutes \o BatchRoutes
    \o BlobRoutes \o BqlRoutes \o QueryRoutes \o EntityRoutes \o OidcRoutes \o SamlAndCasRoutes

(***************************************************************************)
(* A request is meant for one route.  Up to two of the values it puts for  *)
(* the variables are words of some route.                                  *)
(***************************************************************************)
RouteWords == {"_search", "_bulk", "create", "_batch", "blob", "_stats", "bql", "parse", "query"}
Variables(route) == {k \in DOMAIN route.path : route.path[k] = Var}
Filled(route, word) == [k \in DOMAIN route.path |-> IF route.path[k] # Var THEN route.path[k] ELSE word[k]]
Wordings(route) ==
    {[k \in DOMAIN route.path |-> IF k = i THEN v ELSE IF k = j THEN w ELSE "x"] :
        i, j \in Variables(route) \cup {0}, v, w \in RouteWords}
Fillings(route) == {Filled(route, word) : word \in Wordings(route)}

NotRouted == [route |-> 0, budget |-> "none"]
InitTable ==
    /\ dout = NotRouted
    /\ \E i \in DOMAIN registerRoutes : \E method \in registerRoutes[i].methods, path \in Fillings(registerRoutes[i]),
          ends \in BOOLEAN : dcase = [aim |-> i, method |-> method, path |-> path, ends |-> ends]

FitsPattern(route, path) == Len(route.path) = Len(path) /\ \A k \in DOMAIN path : route.path[k] \in {Var, path[k]}
Takes(i) ==
    /\ FitsPattern(registerRoutes[i], dcase.path)
    /\ dcase.ends \/ dcase.method \in registerRoutes[i].methods

Comes(i, j) ==
    \/ Variables(registerRoutes[i]) = {} /\ Variables(registerRoutes[j]) # {}
    \/ (Variables(registerRoutes[i]) = {} <=> Variables(registerRoutes[j]) = {}) /\ i <= j

(* HEAD is registered for single blobs only.                               *)
budget(route, method) ==
    CASE method \in {"GET", "HEAD"} -> route.read
      [] method = "OPTIONS" -> route.preflight
      [] OTHER -> route.write

Dispatch ==
    /\ dout = NotRouted
    /\ \E i \in DOMAIN registerRoutes :
          /\ Takes(i) /\ \A j \in DOMAIN registerRoutes : Takes(j) => Comes(i, j)
          /\ dout' = [route |-> i, budget |-> IF dcase.method \in registerRoutes[i].methods
                                              THEN budget(registerRoutes[i], dcase.method) ELSE "none"]
    /\ UNCHANGED dcase

SpecTable == InitTable /\ [][Dispatch]_tableVars

-----------------------------------------------------------------------------
(* No route hides a more particular one ("registered BEFORE generic entity *)
(* routes", server_routes.cpp:775, 1008, 1131): a request goes to the      *)
(* route it is meant for, or one of its values is a word that the route    *)
(* it goes to spells.  And no read uses up the budget of changes, and no   *)
(* change of rows or blobs that of reads, whichever route takes it.        *)
RequestsReachTheirRoute ==
    dout # NotRouted =>
        LET own == registerRoutes[dcase.aim]
            taken == registerRoutes[dout.route]
        IN /\ dout.route = dcase.aim \/ \E k \in Variables(own) : taken.path[k] # Var
           /\ dcase.method \in {"GET", "HEAD"} => dout.budget # "mutation"
           /\ dcase.method \in {"PUT", "PATCH", "DELETE"} /\ dcase.method \in taken.methods => dout.budget = "mutation"
=============================================================================
