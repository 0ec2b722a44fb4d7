--------------------------- MODULE Configuration ---------------------------
(***************************************************************************)
(* From the environment, the command line or an admin's request to a       *)
(* client: ConnectionValidator and AdapterFactory each take the database   *)
(* URL apart, Client's constructor stacks search and cache on the adapter. *)
(* A URL is its protocol ("" without "://") and the parts and separators   *)
(* that follow.                                                            *)
(***************************************************************************)
EXTENDS Integers, Sequences, FiniteSets, FiniteSetsExt, SequencesExt

CONSTANTS MaxArguments,     \* bound on the arguments of the command line
          MaxParams         \* bound on the parameters of a cache or search URL

ASSUME ConfigurationAssumption == MaxArguments \in Nat /\ MaxParams \in Nat

VARIABLES ccase, cout
configVars == <<ccase, cout>>

Unset == "unset"
Undecided == [status |-> "none"]

(***************************************************************************)
(* URLs                                                                    *)
(***************************************************************************)
Url(protocol, rest) == [protocol |-> protocol, rest |-> rest]
NoUrl == Url(Unset, <<>>)
Numbers == {"5432", "70000", "overflow"}
Lower(name) ==
    CASE name = "SQLITE" -> "sqlite" [] name = "POSTGRES" -> "postgres" [] OTHER -> name
Has(rest, i, j, atoms) == \E k \in i..j : rest[k] \in atoms
Find(rest, atom) == IF \E k \in DOMAIN rest : rest[k] = atom
                    THEN CHOOSE k \in DOMAIN rest : rest[k] = atom /\ ~Has(rest, 1, k - 1, {atom})
                    ELSE 0
Before(rest, k) == IF k = 0 THEN rest ELSE SubSeq(rest, 1, k - 1)
After(rest, k) == IF k = 0 THEN <<>> ELSE SubSeq(rest, k + 1, Len(rest))

(* The regular expression of ConnectionValidator: [user[:password]@] then  *)
(* host [:digits] [/database] [?anything], where user has no ":" or "@",   *)
(* password no "@", host no ":" or "/", database no "?", none is empty.    *)
UserInfo(rest, u) ==
    \/ u = 0
    \/ /\ rest[u] = "@" /\ ~Has(rest, 1, u - 1, {"@"})
       /\ LET c == Find(SubSeq(rest, 1, u - 1), ":") IN u > 1 /\ (c # 0 => c > 1 /\ c < u - 1)
MatchesUrl(rest) ==
    LET n == Len(rest) IN
    \E u \in 0..n : UserInfo(rest, u) /\
    \E h \in (u + 1)..n : ~Has(rest, u + 1, h, {":", "/"}) /\
    \E p \in {h} \cup {q \in (h + 2)..n : rest[h + 1] = ":" /\ \A k \in (h + 2)..q : rest[k] \in Numbers} :
    \E d \in {p} \cup {e \in (p + 2)..n : rest[p + 1] = "/" /\ ~Has(rest, p + 2, e, {"?"})} :
        d = n \/ rest[d + 1] = "?"

validateSQLite(url) == url.rest # <<>>
validatePostgreSQL(url) == url.protocol \in {"postgres", "postgresql"} /\ MatchesUrl(url.rest)
validateMySQL(url) == url.protocol = "mysql" /\ MatchesUrl(url.rest)
extractProtocol(url) == Lower(url.protocol)
hasValidFormat(url) == url.protocol # ""

ConnectionIsValid(url) ==
    /\ url # Url("", <<>>) /\ hasValidFormat(url)
    /\ CASE extractProtocol(url) = "sqlite" -> validateSQLite(url)
         [] extractProtocol(url) \in {"postgresql", "postgres"} -> validatePostgreSQL(url)
         [] extractProtocol(url) = "mysql" -> validateMySQL(url)
         [] OTHER -> FALSE

(***************************************************************************)
(* AdapterFactory                                                          *)
(***************************************************************************)
NoAdapter == [type |-> "none"]

(* Wrong: the options stay with the database.                              *)
LocationWithOptions(main) == main
(* What comes before the options.                                          *)
Location(main) == Before(main, Find(main, "?"))

(* protocol://[user[:password]@]host[:port]/database[?options], by first   *)
(* occurrences; a port that is no int throws.                              *)
parseConnectionUrl(url) ==
    LET rest == url.rest
        at == Find(rest, "@")
        credentials == Before(rest, at)
        main == IF at = 0 THEN rest ELSE After(rest, at)
        location == Location(main)
        address == Before(location, Find(location, "/"))
        colon == Find(address, ":")
        port == After(address, colon)
    IN [ok |-> url.protocol # "" /\ (colon = 0 \/ (port # <<>> /\ port[1] \in {"5432", "70000"})),
        user |-> IF at = 0 THEN <<>> ELSE Before(credentials, Find(credentials, ":")),
        password |-> IF at = 0 THEN <<>> ELSE After(credentials, Find(credentials, ":")),
        options |-> After(main, Find(main, "?")), database |-> After(location, Find(location, "/")),
        host |-> Before(address, colon), port |-> port]

(* What an adapter connects to; "reachable" says whether it can.           *)
createSQLiteAdapter(url, reachable) == IF reachable THEN [type |-> "sqlite", path |-> url.rest] ELSE NoAdapter
createPostgresAdapter(url, reachable) ==
    LET c == parseConnectionUrl(url) IN IF c.ok /\ reachable THEN [type |-> "postgres", at |-> c] ELSE NoAdapter
createMySQLAdapter(url, reachable) ==
    LET c == parseConnectionUrl(url) IN IF c.ok /\ reachable THEN [type |-> "mysql", at |-> c] ELSE NoAdapter
createMongoDBAdapter(url, reachable) ==
    LET location == Before(url.rest, Find(url.rest, "?"))
        name == IF url.protocol = "" THEN <<>> ELSE After(location, Find(location, "/"))
    IN IF reachable THEN [type |-> "mongodb", database |-> IF name = <<>> THEN <<"metabuilder">> ELSE name] ELSE NoAdapter

extractAdapterType(url) ==
    CASE url.protocol = "postgresql" -> "postgres"
      [] url.protocol = "mongodb+srv" -> "mongodb"
      [] url.protocol \in {"elasticsearch", "es"} -> "elasticsearch"
      [] url.protocol \in {"surrealdb", "surreal"} -> "surrealdb"
      [] OTHER -> url.protocol

createFromType(type, url, reachable) ==
    CASE Lower(type) = "sqlite" -> createSQLiteAdapter(url, reachable)
      [] Lower(type) \in {"postgres", "postgresql"} -> createPostgresAdapter(url, reachable)
      [] Lower(type) = "mysql" -> createMySQLAdapter(url, reachable)
      [] Lower(type) = "mongodb" -> createMongoDBAdapter(url, reachable)
      [] OTHER -> NoAdapter

(* Without a protocol DBAL_ADAPTER decides.                                *)
createFromUrl(url, adapterEnv, reachable) ==
    IF url = Url("", <<>>) THEN NoAdapter
    ELSE IF url.protocol = "" THEN createFromType(IF adapterEnv = Unset THEN "sqlite" ELSE adapterEnv, url, reachable)
    ELSE createFromType(extractAdapterType(url), url, reachable)

isSupported(adapter) ==
    Lower(adapter) \in {"sqlite", "postgres", "postgresql", "mysql", "mongodb", "prisma", "supabase", "redis",
                        "cassandra", "elasticsearch", "es", "surrealdb", "surreal", "dynamodb", "cockroachdb", "tidb"}

(***************************************************************************)
(* Client                                                                  *)
(***************************************************************************)
validateMode(mode) == mode \in {"", "development", "dev", "production", "prod", "test"}
validateAdapter(adapter) == adapter # ""
validateDatabaseUrl(adapter, url) ==
    /\ ConnectionIsValid(url)
    /\ \/ adapter = extractProtocol(url)
       \/ {adapter, extractProtocol(url)} \subseteq {"postgres", "postgresql"}
ConfigIsValid(c) == validateMode(c.mode) /\ validateAdapter(c.adapter) /\ validateDatabaseUrl(c.adapter, c.url)

(* A cache or search URL: a scheme that fits or not, and its parameters in *)
(* order.  The first bad one is an error; others are ignored or override.  *)
Extra(scheme, params) == [scheme |-> scheme, params |-> params]
NotEnabled(error) == [enabled |-> FALSE, error |-> error]
LastOf(params, key, default) ==
    LET given == {i \in DOMAIN params : params[i].key = key} IN IF given = {} THEN default ELSE params[Max(given)].value

parseCacheUrl(x) ==
    LET bad(p) == \/ p.key = "ttl" /\ p.value \in {"30abc", "abc", "0"}
                  \/ p.key = "pattern" /\ p.value # "read-through" IN
    IF x.scheme = Unset THEN NotEnabled(FALSE)
    ELSE IF x.scheme = "other" \/ \E i \in DOMAIN x.params : bad(x.params[i]) THEN NotEnabled(TRUE)
    ELSE [enabled |-> TRUE, error |-> FALSE, ttl |-> LastOf(x.params, "ttl", "300")]

isValidIndexName(name) == name \notin {"", "_a", "A"}
parseSearchUrl(x) ==
    LET bad(p) == \/ p.key = "index" /\ ~isValidIndexName(p.value)
                  \/ p.key = "refresh" /\ p.value \notin {"true", "false", "wait_for"}
    IN IF x.scheme = Unset THEN NotEnabled(FALSE)
       ELSE IF x.scheme = "other" \/ \E i \in DOMAIN x.params : bad(x.params[i]) THEN NotEnabled(TRUE)
       ELSE [enabled |-> TRUE, error |-> FALSE, index |-> LastOf(x.params, "index", "dbal_search"),
             refresh |-> LastOf(x.params, "refresh", "false")]

NoClient == [adapter |-> NoAdapter, layers |-> <<>>, faulty |-> TRUE]

(* SearchingAdapter::tryCreate and CachingAdapter::tryCreate, in front of  *)
(* the client's adapter or not at all; "usable" says whether the library's *)
(* own constructor takes the URL.                                          *)
tryCreateSearch(client, x, usable) ==
    LET cfg == parseSearchUrl(x) IN
    IF ~cfg.error /\ cfg.enabled /\ usable
    THEN [client EXCEPT !.layers = <<[layer |-> "search", index |-> cfg.index, refresh |-> cfg.refresh]>> \o @]
    ELSE client

tryCreateCache(client, x, usable) ==
    LET cfg == parseCacheUrl(x) IN
    IF ~cfg.error /\ cfg.enabled /\ usable
    THEN [client EXCEPT !.layers = <<[layer |-> "cache", ttl |-> cfg.ttl]>> \o @]
    ELSE client

Client(c, env) ==
    LET adapter == createFromUrl(c.url, env.adapter, env.reachable)
        plain == [adapter |-> adapter, layers |-> <<>>, faulty |-> FALSE]
    IN IF ~ConfigIsValid(c) \/ adapter = NoAdapter THEN NoClient
       ELSE tryCreateCache(tryCreateSearch(plain, env.search, env.searchUsable), env.cache, env.cacheUsable)

(***************************************************************************)
(* Starting: the environment, then the command line                        *)
(***************************************************************************)
(* The address and the configuration file are read like the port.         *)
DaemonConfig == [port |-> "8080", development |-> FALSE, daemon |-> FALSE]
IsPort(v) == v \in {"8081", "9000"}         \* what std::stoi takes
DevelopmentMode(v) == v \in {"development", "dev"}

fromEnvironment(env) ==
    [DaemonConfig EXCEPT !.port = IF env.port = Unset THEN @ ELSE env.port,
                         !.daemon = env.daemon,
                         !.development = IF env.mode = Unset THEN @ ELSE DevelopmentMode(env.mode)]

(* An option takes the next argument, whatever it is; one that has none    *)
(* left, and anything unknown, is skipped; a port that is no number throws.*)
TakeArgument(acc, arg) ==
    IF acc.halt # "" THEN acc
    ELSE IF acc.want = "--port" THEN [acc EXCEPT !.config.port = arg, !.halt = IF IsPort(arg) THEN "" ELSE "crash", !.want = ""]
    ELSE IF acc.want = "--mode" THEN [acc EXCEPT !.config.development = DevelopmentMode(arg), !.want = ""]
    ELSE IF arg \in {"--port", "--mode"} THEN [acc EXCEPT !.want = arg]
    ELSE IF arg = "-d" THEN [acc EXCEPT !.config.daemon = TRUE]
    ELSE IF arg = "--help" THEN [acc EXCEPT !.halt = "help"]
    ELSE acc
NoArguments(config) == [config |-> config, want |-> "", halt |-> ""]
parseCommandLine(config, args) ==
    LET taken[n \in 0..Len(args)] == IF n = 0 THEN NoArguments(config) ELSE TakeArgument(taken[n - 1], args[n])
    IN taken[Len(args)]

createClientConfig(config, env) ==
    [mode |-> IF config.development THEN "development" ELSE "production",
     adapter |-> IF env.adapter = Unset THEN "sqlite" ELSE env.adapter,
     url |-> IF env.url # NoUrl THEN env.url ELSE IF env.url2 # NoUrl THEN env.url2 ELSE Url("", <<":memory:">>)]

(* The environment, then the command line; an exception ends the process.  *)
main(env, args) ==
    LET parsed == parseCommandLine(fromEnvironment(env), args) IN
    IF env.port # Unset /\ ~IsPort(env.port) THEN [status |-> "crash"]
    ELSE IF parsed.halt # "" THEN [status |-> parsed.halt]
    ELSE [status |-> "started", config |-> parsed.config, client |-> createClientConfig(parsed.config, env)]

(***************************************************************************)
(* The admin API                                                           *)
(***************************************************************************)
validateAdminAuth(r) == IF r.token = Unset THEN 403 ELSE IF r.shown # r.token THEN 401 ELSE 0

(* What POST /admin/config and /admin/test-connection check alike.         *)
AdminRejection(r) ==
    IF r.method = "OPTIONS" THEN 204
    ELSE IF validateAdminAuth(r) # 0 THEN validateAdminAuth(r)
    ELSE IF ~r.json \/ r.adapter = "" \/ r.url = Url("", <<>>) \/ ~isSupported(r.adapter) THEN 400
    ELSE 0

RequestedClient(r, env) == Client([mode |-> "production", adapter |-> r.adapter, url |-> r.url], env)

handlePostConfig(r, env) ==
    IF AdminRejection(r) # 0 THEN AdminRejection(r)
    ELSE IF RequestedClient(r, env) # NoClient THEN 200 ELSE 500

handleTestConnection(r, env) ==
    IF AdminRejection(r) # 0 THEN AdminRejection(r)
    ELSE IF RequestedClient(r, env) # NoClient THEN 200 ELSE 422

(* GET /admin/config and /admin/adapters                                   *)
handleGetConfig(r) == IF r.method = "OPTIONS" THEN 204 ELSE IF validateAdminAuth(r) # 0 THEN validateAdminAuth(r) ELSE 200
handleGetAdapters(r) ==
    LET all == {"sqlite", "postgres", "mysql", "mongodb", "redis", "elasticsearch", "cassandra", "surrealdb",
                "supabase", "prisma", "dynamodb", "cockroachdb", "tidb"}
    IN IF handleGetConfig(r) # 200 THEN {} ELSE {a \in all : isSupported(a)}

(***************************************************************************)
(* Inputs                                                                  *)
(***************************************************************************)
Protocols == {"sqlite", "SQLITE", "postgres", "postgresql", "POSTGRES", "mysql", "mongodb", "redis", ""}
UrlParts ==
    [user : {<<>>, <<"u">>}, password : {<<>>, <<"p">>, <<"p", ":", "q">>, <<"p", "/", "q">>, <<"p", "?", "q">>, <<"p", "@", "q">>},
     host : {<<>>, <<"h">>}, port : {<<>>, <<"5432">>, <<"70000">>, <<"overflow">>, <<"x">>},
     database : {<<>>, <<"d">>, <<"d", "/", "e">>, <<"d", ":", "e">>},
     options : {<<>>, <<"o">>, <<"o", "/", "r">>, <<"o", "?", "r">>, <<"o", ":", "r">>, <<"o", "@", "r">>}]
(* A password needs a user.                                                *)
Spelled(parts) ==
    (IF parts.user = <<>> THEN <<>>
     ELSE parts.user \o (IF parts.password = <<>> THEN <<>> ELSE <<":">> \o parts.password) \o <<"@">>)
    \o parts.host \o (IF parts.port = <<>> THEN <<>> ELSE <<":">> \o parts.port)
    \o (IF parts.database = <<>> THEN <<>> ELSE <<"/">> \o parts.database)
    \o (IF parts.options = <<>> THEN <<>> ELSE <<"?">> \o parts.options)

UrlParam(k, v) == [key |-> k, value |-> v]
CacheParams == {UrlParam("ttl", "60"), UrlParam("ttl", "30abc"), UrlParam("ttl", "0"), UrlParam("pattern", "read-through"),
                UrlParam("pattern", "write-through"), UrlParam("later", "x")}
SearchParams == {UrlParam("index", "a"), UrlParam("index", "_a"), UrlParam("refresh", "wait_for"), UrlParam("refresh", "x"), UrlParam("later", "x")}
Extras(params) == {Extra(Unset, <<>>), Extra("other", <<>>)} \cup [scheme : {"fits"}, params : SeqOf(params, MaxParams)]
SomeUrls == {Url(p, r) : p \in Protocols, r \in {<<>>, <<"h">>, <<"h", ":", "overflow">>}}
NoExtra == Extra(Unset, <<>>)
Environment(named, up, search, searchUsable, cache, cacheUsable) ==
    [adapter |-> named, reachable |-> up, search |-> search, searchUsable |-> searchUsable, cache |-> cache, cacheUsable |-> cacheUsable]
BareEnv(named, up) == Environment(named, up, NoExtra, TRUE, NoExtra, TRUE)
Production(adapter, url) == [mode |-> "production", adapter |-> adapter, url |-> url]
AdminCall(method, token, shown, json, adapter, url) ==
    [method |-> method, token |-> token, shown |-> shown, json |-> json, adapter |-> adapter, url |-> url]
Arguments == {"--port", "9000", "--mode", "dev", "-d", "--help", "zzz"}
BootEnv == [port |-> Unset, mode |-> Unset, daemon |-> FALSE, adapter |-> Unset, url |-> NoUrl, url2 |-> NoUrl]

InitConfig ==
    /\ cout = Undecided
    /\ \/ ccase \in [kind : {"url"}, protocol : {"postgres", "mysql"}, parts : {q \in UrlParts : q.password # <<>> => q.user # <<>>}]
       \/ \E url \in SomeUrls, adapter \in {"sqlite", "postgres", "postgresql", "mongodb", ""}, named \in {Unset, "mysql"},
            up \in BOOLEAN :
            ccase = [kind |-> "client", config |-> Production(adapter, url), env |-> BareEnv(named, up)]
       \/ \E search \in Extras(SearchParams), cache \in Extras(CacheParams), su, cu, up \in BOOLEAN :
            ccase = [kind |-> "client", config |-> Production("sqlite", Url("sqlite", <<"h">>)),
                     env |-> Environment(Unset, up, search, su, cache, cu)]
       \/ \E args \in SeqOf(Arguments, MaxArguments), port \in {Unset, "8081", "x"}, mode \in {Unset, "dev"} :
            ccase = [kind |-> "boot", args |-> args, env |-> [BootEnv EXCEPT !.port = port, !.mode = mode]]
       \/ \E args \in SeqOf(Arguments, 1), daemon \in BOOLEAN, url, url2 \in {NoUrl, Url("mysql", <<"h">>)} :
            ccase = [kind |-> "boot", args |-> args, env |-> [BootEnv EXCEPT !.daemon = daemon, !.url = url, !.url2 = url2]]
       \/ \E method \in {"GET", "POST", "OPTIONS"}, token \in {Unset, "t"}, shown \in {Unset, "t", "s"}, json, up \in BOOLEAN,
            adapter \in {"", "sqlite", "mysql", "redis", "oracle"}, url \in SomeUrls :
            ccase = [kind |-> "admin", env |-> BareEnv(Unset, up),
                     request |-> AdminCall(method, token, shown, json, adapter, url)]

ConnectUrl ==
    /\ ccase.kind = "url"
    /\ LET url == Url(ccase.protocol, Spelled(ccase.parts)) IN
       cout' = [status |-> IF ConnectionIsValid(url) THEN "valid" ELSE "invalid", adapter |-> createFromUrl(url, Unset, TRUE)]
StartClient == ccase.kind = "client" /\ cout' = [status |-> "done", client |-> Client(ccase.config, ccase.env)]
BootDaemon == ccase.kind = "boot" /\ cout' = main(ccase.env, ccase.args)
AdminRequest ==
    /\ ccase.kind = "admin"
    /\ cout' = [status |-> "done", switch |-> handlePostConfig(ccase.request, ccase.env),
                test |-> handleTestConnection(ccase.request, ccase.env), listed |-> handleGetAdapters(ccase.request)]

NextConfig == cout = Undecided /\ (ConnectUrl \/ StartClient \/ BootDaemon \/ AdminRequest) /\ UNCHANGED ccase
SpecConfig == InitConfig /\ [][NextConfig]_configVars

-----------------------------------------------------------------------------
(* The factory reads a URL as it was written, whatever separators its      *)
(* password, database and options contain: the host it connects to is the  *)
(* host that was meant.  Only an "@" is out of place, which splits at the  *)
(* first one (adapter_factory.cpp:150).                                    *)
PartsAreFound ==
    ccase.kind = "url" /\ cout # Undecided /\ cout.status = "valid" /\ cout.adapter # NoAdapter =>
        \/ "@" \in ToSet(ccase.parts.password) \cup ToSet(ccase.parts.options)
        \/ \A part \in DOMAIN ccase.parts : cout.adapter.at[part] = ccase.parts[part]

(* The validator and the factory know the same URLs: what the first lets   *)
(* through the second can open, a port beyond int apart; and the client    *)
(* is of the adapter its configuration names, not of the one in the        *)
(* environment.                                                            *)
ValidIsCreated ==
    /\ ccase.kind = "url" /\ cout # Undecided /\ cout.status = "valid" =>
          cout.adapter # NoAdapter \/ ccase.parts.port = <<"overflow">> \/ "@" \in ToSet(Spelled(ccase.parts))
    /\ ccase.kind = "client" /\ cout # Undecided /\ cout.client # NoClient =>
          \/ cout.client.adapter.type = ccase.config.adapter
          \/ ccase.config.adapter = "postgresql" /\ cout.client.adapter.type = "postgres"

(* client_init.cpp:57-61: whatever DBAL_CACHE_URL and DBAL_SEARCH_URL say  *)
(* and whether their servers take it, the client starts when it would      *)
(* without them, over the same adapter; a cache is in front of a mirror,   *)
(* and it never runs with a lifetime nobody wrote.                         *)
ExtrasAreOptional ==
    ccase.kind = "client" /\ cout # Undecided =>
        LET client == cout.client
            layers == {client.layers[i].layer : i \in DOMAIN client.layers}
        IN /\ client.adapter =
                 Client(ccase.config, [ccase.env EXCEPT !.search = NoExtra, !.cache = NoExtra]).adapter
           /\ layers = {"cache", "search"} => client.layers[1].layer = "cache"
           /\ \A i \in DOMAIN client.layers :
                 client.layers[i].layer = "cache" =>
                    client.layers[i].ttl \in {"300", "60"}

(* A value on the command line counts, whatever the environment says (the  *)
(* help text, daemon_config.cpp:68): the last one that is not itself taken *)
(* as another option's value.                                              *)
CommandLineWins ==
    ccase.kind = "boot" /\ cout # Undecided /\ cout.status = "started" =>
        \A i \in 2..Len(ccase.args) :
            ccase.args[i] = "9000" /\ ccase.args[i - 1] = "--port"
              /\ (i > 2 => ccase.args[i - 2] \notin {"--port", "--mode"})
            => cout.config.port = "9000"

(* A connection that was tested can be switched to, and one that failed    *)
(* the test cannot.                                                        *)
TestForetellsSwitch ==
    ccase.kind = "admin" /\ cout # Undecided => (cout.test = 200 <=> cout.switch = 200)

(* The readers of URLs, environment and command line agree: the host that  *)
(* was meant is found, what the validator lets through can be opened, the  *)
(* optional layers stay optional, the command line wins, and a test of a   *)
(* connection foretells the switch to it. The parts name the exceptions.   *)
StartsAsConfigured ==
    /\ PartsAreFound
    /\ ValidIsCreated
    /\ ExtrasAreOptional
    /\ CommandLineWins
    /\ TestForetellsSwitch
=============================================================================
