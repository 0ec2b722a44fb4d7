------------------------------ MODULE MCRules ------------------------------
(***************************************************************************)
(* The rules requests meet, the throttles, the queries and rows they turn  *)
(* into, the sentences of BQL, the configuration, the reading of requests, *)
(* and the accounts, side by side: a behaviour picks one part and stays    *)
(* with it, so the state counts add.                                       *)
(***************************************************************************)
EXTENDS AccessGate, Throttles, RowWriting, Bql, Configuration, HttpParsing, NamedQueries, BlobRanges, Routes,
        Credentials, UserRpc, SqlBatches

VARIABLE part

(* The parts that answer one case each, and the parts that run on.         *)
caseVars ==
    <<gateVars, listVars, writeVars, bqlVars, configVars, parseVars, namedVars, rangeVars, routeVars, tableVars>>
accountVars == <<credentialVars, secretVars, userVars, sqlBatchVars>>
ruleVars == <<part, throttleVars, caseVars, accountVars>>

(***************************************************************************)
(* The parts that do not move start in one state.  Of the SQL table one    *)
(* row is there: creates conflict with it and with nothing else.           *)
(***************************************************************************)
OneRequest ==
    [method |-> "GET", caller |-> Anonymous, tenant |-> CHOOSE t \in Tenants : TRUE, decl |-> Undeclared,
     registry |-> TRUE, privileged |-> FALSE, secret |-> TRUE, key |-> TRUE, adminToken |-> TRUE,
     tenantAuth |-> "open", entityAuth |-> "open", id |-> FALSE, action |-> FALSE, limited |-> FALSE, client |-> TRUE]
OneList == [kind |-> "filter", backend |-> "sql", filters |-> <<>>, ors |-> <<>>, sort |-> <<>>, apart |-> FALSE]
OneStatement ==
    [kind |-> "insert", backend |-> "sqlite", schema |-> <<"id", "createdAt", "a", "b">>, data |-> {},
     filter |-> {}, idForm |-> "text"]
OneScript == [kind |-> "script", lines |-> <<>>]
OneStart ==
    [kind |-> "client", config |-> Production("", NoUrl), env |-> BareEnv(Unset, TRUE)]
OneStream == [server |-> "Server", stream |-> <<>>]
OneQuery == [kind |-> "load", files |-> <<>>]
OneRange == [backend |-> "fs", size |-> 0, offset |-> NotGiven, length |-> NotGiven]
OneRoute == [tenant |-> <<"a">>, package |-> <<"a">>, entity |-> <<"a">>, id |-> <<>>, action |-> <<>>, parts |-> 3]
OneAim == [aim |-> 1, method |-> "GET", path |-> <<"health">>, ends |-> TRUE]

CaseParts == {"gate", "lists", "rows", "bql", "config", "http", "named", "ranges", "routes", "table"}
Parts == CaseParts \cup {"window", "bucket", "nonce", "creds", "secrets", "users", "sqlbatch"}

InitCases ==
    /\ IF part = "gate" THEN InitGate ELSE greq = OneRequest /\ gans = Unanswered
    /\ IF part = "lists" THEN InitList ELSE lreq = OneList /\ lans = Waiting
    /\ IF part = "rows" THEN InitWriting ELSE wcase = OneStatement /\ wout = Undone
    /\ IF part = "bql" THEN InitBql ELSE bcase = OneScript /\ bout = Unparsed
    /\ IF part = "config" THEN InitConfig ELSE ccase = OneStart /\ cout = Undecided
    /\ IF part = "http" THEN InitParsing ELSE hcase = OneStream /\ hgot = 0 /\ hout = Pending
    /\ IF part = "named" THEN InitNamed ELSE ncase = OneQuery /\ nout = Unqueried
    /\ IF part = "ranges" THEN InitRanges ELSE rgcase = OneRange /\ rgout = Unsent200
    /\ IF part = "routes" THEN InitRoutes ELSE rtcase = OneRoute /\ rtout = <<>>
    /\ IF part = "table" THEN InitTable ELSE dcase = OneAim /\ dout = NotRouted

InitAccounts ==
    /\ InitCredentials /\ (part # "creds" => creds = [u \in CredNames |-> NoCred])
    /\ InitSecrets /\ (part # "secrets" => envKey = NoValue)
    /\ InitUsers
    /\ InitSqlBatches /\ tableRows = {CHOOSE i \in BulkIds : TRUE}

Init == part \in Parts /\ InitAccounts /\ InitThrottles /\ InitCases

NextThrottlePart ==
    \/ part = "window" /\ NextWindow
    \/ part = "bucket" /\ NextBucket
    \/ part = "nonce" /\ NextNonce

NextCasePart ==
    \/ /\ part = "gate" /\ NextGate
       /\ UNCHANGED <<listVars, writeVars, bqlVars, configVars, parseVars, namedVars, rangeVars, routeVars, tableVars>>
    \/ /\ part = "lists" /\ NextList
       /\ UNCHANGED <<gateVars, writeVars, bqlVars, configVars, parseVars, namedVars, rangeVars, routeVars, tableVars>>
    \/ /\ part = "rows" /\ NextWriting
       /\ UNCHANGED <<gateVars, listVars, bqlVars, configVars, parseVars, namedVars, rangeVars, routeVars, tableVars>>
    \/ /\ part = "bql" /\ NextBql
       /\ UNCHANGED <<gateVars, listVars, writeVars, configVars, parseVars, namedVars, rangeVars, routeVars, tableVars>>
    \/ /\ part = "config" /\ NextConfig
       /\ UNCHANGED <<gateVars, listVars, writeVars, bqlVars, parseVars, namedVars, rangeVars, routeVars, tableVars>>
    \/ /\ part = "http" /\ NextParsing
       /\ UNCHANGED <<gateVars, listVars, writeVars, bqlVars, configVars, namedVars, rangeVars, routeVars, tableVars>>
    \/ /\ part = "named" /\ NextNamed
       /\ UNCHANGED <<gateVars, listVars, writeVars, bqlVars, configVars, parseVars, rangeVars, routeVars, tableVars>>
    \/ /\ part = "ranges" /\ ReadRange
       /\ UNCHANGED <<gateVars, listVars, writeVars, bqlVars, configVars, parseVars, namedVars, routeVars, tableVars>>
    \/ /\ part = "routes" /\ RouteRequest
       /\ UNCHANGED <<gateVars, listVars, writeVars, bqlVars, configVars, parseVars, namedVars, rangeVars, tableVars>>
    \/ /\ part = "table" /\ Dispatch
       /\ UNCHANGED <<gateVars, listVars, writeVars, bqlVars, configVars, parseVars, namedVars, rangeVars, routeVars>>

NextAccountPart ==
    \/ part = "creds" /\ NextCredentials /\ UNCHANGED <<secretVars, userVars, sqlBatchVars>>
    \/ part = "secrets" /\ NextSecrets /\ UNCHANGED <<credentialVars, userVars, sqlBatchVars>>
    \/ part = "users" /\ NextUsers /\ UNCHANGED <<credentialVars, secretVars, sqlBatchVars>>
    \/ part = "sqlbatch" /\ NextSqlBatches /\ UNCHANGED <<credentialVars, secretVars, userVars>>

Next ==
    /\ part' = part
    /\ \/ NextThrottlePart /\ UNCHANGED <<caseVars, accountVars>>
       \/ NextCasePart /\ UNCHANGED <<throttleVars, accountVars>>
       \/ NextAccountPart /\ UNCHANGED <<throttleVars, caseVars>>

Spec == Init /\ [][Next]_ruleVars

(* The daemon comes up as it is configured, and with its routes in an      *)
(* order in which none hides a more particular one.                        *)
ComesUpAsConfigured == StartsAsConfigured /\ RequestsReachTheirRoute

(* From the bytes on the socket to the row: the cuts of the stream do not  *)
(* change an answer and the two parsers agree; a request acts on the row   *)
(* its URL names and no other, and a range of a blob is the bytes asked    *)
(* for. The parts name the exceptions.                                     *)
RequestsReachTheirRows ==
    /\ AnswerIgnoresCuts
    /\ TwinsAgree
    /\ NeverAnotherRow
    /\ RangeIsExact
    /\ ReadableIsRead

(* Accounts under calls that interleave: who signs in is an account that   *)
(* had the password at some moment of the call, a password that was        *)
(* acknowledged was stored, a reset moves no account to another tenant,    *)
(* user calls show and change rows of their tenant, a batch that answers   *)
(* with a number changed one row per item, and a revealed secret is the    *)
(* one that was sealed, if its row could be read.                          *)
AccountsAreKept ==
    /\ [](/\ TypeOKCredentials
          /\ SignedInIsTheOwner
          /\ SetMeansStored
          /\ RevealedIsSealed
          /\ TypeOKUsers
          /\ RpcStaysInTenant
          /\ ShowsOwnTenant
          /\ BatchMeansAll)
    /\ ResetKeepsTenant
=============================================================================
