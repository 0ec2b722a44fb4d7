--------------------------- MODULE DaemonRequests ---------------------------
(***************************************************************************)
(* The daemon's one Client and the requests that use it: start-up, lazy    *)
(* creation, the admin's switch to another database, and entity requests   *)
(* whose checks and write are separate calls of the client.                *)
(*                                                                         *)
(* Clients are numbered in the order they are built; a handler keeps the   *)
(* number it was built with, and the client is gone once it is replaced.   *)
(* A call through a client that is gone is undefined: it may kill the      *)
(* daemon, fail, or still find the old database.                           *)
(***************************************************************************)
EXTENDS Naturals, FiniteSets

CONSTANTS RProcs,        \* requests in flight
          RTenants, RUsers,
          Databases,     \* adapter and URL; the first configuration is any
          MaxRequests2,  \* bound on requests served
          MaxClients,    \* bound on clients built
          ClientFails,   \* the constructor of Client may throw
          Switching      \* the admin may switch databases

ASSUME RequestAssumption ==
    /\ MaxRequests2 \in Nat /\ MaxClients \in Nat /\ ClientFails \in BOOLEAN
    /\ RTenants # {} /\ RUsers # {} /\ Databases # {}

RIds == {1, 2}
NoRow == [tenant |-> "none", owner |-> "none", v |-> 0]
FirstRow == [tenant |-> CHOOSE t \in RTenants : TRUE, owner |-> CHOOSE u \in RUsers : TRUE, v |-> 1]
NoUser == "none"
NullTenant == "null"     \* of a row whose tenantId is absent or no string
FirstRows == {FirstRow, [FirstRow EXCEPT !.tenant = NullTenant]}

VARIABLES routes,     \* routes_registered_
          running,    \* running_, and the process is alive
          client,     \* dbal_client_: its number, 0 when null
          built,      \* clients built so far
          dbOf,       \* the database of each client
          config,     \* config_adapter_ and config_database_url_
          mutex,      \* client_mutex_: a switch between its two halves
          services,   \* the client OIDC, SAML and CAS hold, 0 when disabled
          queryRef,   \* the client of the static query handler, 0 before
          rows,       \* what each database holds of one entity
          rq,         \* the requests
          served,
          past        \* per request: tenants and owners its row had since it began

requestVars == <<routes, running, client, built, dbOf, config, mutex, services, queryRef, rows, rq,
                 served, past>>
clientVars == <<client, built, dbOf, config, mutex>>
startVars == <<routes, running, services, queryRef>>

IdleReq == [pc |-> "idle", op |-> "none", tenant |-> "none", user |-> NoUser, id |-> 1, ref |-> 0,
            body |-> NoRow]

InitRequests ==
    /\ routes = FALSE /\ running = FALSE
    /\ client = 0 /\ built = 0 /\ dbOf = [g \in 1..MaxClients |-> "none"]
    /\ config = CHOOSE d \in Databases : TRUE
    /\ mutex = FALSE
    /\ services = 0 /\ queryRef = 0
    /\ \E first \in [Databases -> FirstRows] :
          rows = [d \in Databases |-> [i \in RIds |-> IF i = 1 THEN first[d] ELSE NoRow]]
    /\ rq = [p \in RProcs |-> IdleReq]
    /\ served = 0
    /\ past = [p \in RProcs |-> [tenants |-> {}, owners |-> {}]]

(***************************************************************************)
(* The client                                                              *)
(***************************************************************************)
(* make_unique<Client>(config): a new number, or an exception.             *)
Builds(db) ==
    /\ built < MaxClients
    /\ built' = built + 1 /\ client' = built + 1
    /\ dbOf' = [dbOf EXCEPT ![built + 1] = db]

(* ensureClient: TRUE with a client, old or new; what it leaves is primed. *)
ensureClient(ok) ==
    /\ ~mutex
    /\ \/ ok /\ client # 0 /\ UNCHANGED <<client, built, dbOf>>
       \/ ok /\ client = 0 /\ Builds(config)
       \/ ~ok /\ client = 0 /\ ClientFails /\ UNCHANGED <<client, built, dbOf>>
    /\ UNCHANGED <<config, mutex>>

(* start and registerRoutes: the services are built once, with the client  *)
(* of that moment, and stay disabled when there is none.                   *)
StartServer(configured) ==
    /\ ~routes
    /\ routes' = TRUE /\ running' = TRUE
    /\ IF configured
       THEN \E ok \in BOOLEAN : ensureClient(ok) /\ services' = IF ok THEN client' ELSE 0
       ELSE services' = 0 /\ UNCHANGED clientVars
    /\ UNCHANGED <<queryRef, rows, rq, served, past>>

(* switchAdapter, when the new client cannot be built.                     *)
SwitchFails ==
    /\ running /\ ~mutex /\ ClientFails
    /\ UNCHANGED requestVars

(* switchAdapter: the new client first, then the old one is closed and     *)
(* destroyed; the configuration follows while client_mutex_ is held.       *)
SwitchClient(db) ==
    /\ Switching /\ running /\ ~mutex
    /\ Builds(db)
    /\ mutex' = TRUE
    /\ UNCHANGED <<startVars, config, rows, rq, served, past>>

StoreConfig ==
    /\ mutex
    /\ config' = dbOf[client] /\ mutex' = FALSE
    /\ UNCHANGED <<startVars, client, built, dbOf, rows, rq, served, past>>

StopServer ==
    /\ running /\ \A p \in RProcs : rq[p].pc = "idle"
    /\ running' = FALSE
    /\ UNCHANGED <<routes, clientVars, services, queryRef, rows, rq, served, past>>

(***************************************************************************)
(* Requests                                                                *)
(***************************************************************************)
(* The response is sent; its status is what the comments name.             *)
Finish(p) == rq' = [rq EXCEPT ![p] = IdleReq]
Step(p, pc) == rq' = [rq EXCEPT ![p].pc = pc]
Row(p) == rows[dbOf[rq[p].ref]][rq[p].id]
Alive(p) == rq[p].ref = client
Only(p) == UNCHANGED <<startVars, clientVars, rows, served, past>>

(* Every route that needs the client: the limiter, ensureClient, then a    *)
(* handler with a reference to it.                                         *)
Dispatch(p, r) ==
    /\ running /\ rq[p].pc = "idle" /\ served < MaxRequests2
    /\ served' = served + 1
    /\ \/ Finish(p) /\ UNCHANGED <<clientVars, past>>           \* 429
       \/ ensureClient(FALSE) /\ Finish(p) /\ UNCHANGED past    \* 503
       \/ /\ ensureClient(TRUE)
          /\ rq' = [rq EXCEPT ![p] = [r EXCEPT !.ref = client']]
          /\ LET row == rows[dbOf'[client']][r.id] IN
             past' = [past EXCEPT ![p] = [tenants |-> {row.tenant}, owners |-> {row.owner}]]
    /\ UNCHANGED <<startVars, rows>>

Asks(pc, op, tenant, user, id, body) ==
    [IdleReq EXCEPT !.pc = pc, !.op = op, !.tenant = tenant, !.user = user, !.id = id, !.body = body]

(* POST, with the tenant the row gets: inject_owner puts the caller and    *)
(* its tenant over what the body says, else the body's stays, a null too,  *)
(* and the route's fills in for a missing one.                             *)
PostEntity(p, tenant, user) ==
    Dispatch(p, Asks("create", "create", tenant, user, 1, [tenant |-> tenant, owner |-> user, v |-> 1]))

(* GET, PUT and DELETE on an id; with check_ownership a caller is compared *)
(* with the stored owner first.  An update may carry any field.            *)
OnId(p, op, tenant, user, id, body) ==
    Dispatch(p, Asks(IF user = NoUser THEN "tenant" ELSE "owner", op, tenant, user, id, body))

ReadEntity(p, tenant, user, id) == OnId(p, "read", tenant, user, id, NoRow)
UpdateEntity(p, tenant, user, id, body) == OnId(p, "update", tenant, user, id, body)
DeleteEntity(p, tenant, user, id) == OnId(p, "delete", tenant, user, id, NoRow)

(* Routes with a single call of the client.                                *)
ListRoute(p, tenant) == Dispatch(p, Asks("call", "list", tenant, NoUser, 1, NoRow))
SearchRoute(p) == ListRoute(p, CHOOSE t \in RTenants : TRUE)
BulkRoute(p) == ListRoute(p, CHOOSE t \in RTenants : TRUE)
BatchRoute(p) == ListRoute(p, CHOOSE t \in RTenants : TRUE)
RpcRoute(p) == ListRoute(p, CHOOSE t \in RTenants : TRUE)
SeedRoute(p) == ListRoute(p, CHOOSE t \in RTenants : TRUE)
CredentialRoutes(p) == ListRoute(p, CHOOSE t \in RTenants : TRUE)

(* A query procedure goes through the handler of the first one.            *)
QueryRoute(p) ==
    /\ running /\ rq[p].pc = "idle" /\ served < MaxRequests2
    /\ served' = served + 1
    /\ \/ Finish(p) /\ UNCHANGED <<clientVars, queryRef>>          \* 429
       \/ ensureClient(FALSE) /\ Finish(p) /\ UNCHANGED queryRef   \* 503
       \/ /\ ensureClient(TRUE)
          /\ queryRef' = IF queryRef = 0 THEN client' ELSE queryRef
          /\ rq' = [rq EXCEPT ![p] = [IdleReq EXCEPT !.pc = "call", !.op = "query", !.ref = queryRef']]
    /\ UNCHANGED <<routes, running, services, rows, past>>

(* A sign-on route, where the service is enabled.                          *)
SignOnRoute(p) ==
    /\ running /\ services # 0 /\ rq[p].pc = "idle" /\ served < MaxRequests2
    /\ rq' = [rq EXCEPT ![p] = [IdleReq EXCEPT !.pc = "call", !.op = "login", !.ref = services]]
    /\ served' = served + 1
    /\ UNCHANGED <<startVars, clientVars, rows, past>>

(***************************************************************************)
(* The handlers, one call of the client per step                           *)
(***************************************************************************)
HandleCall(p) ==
    /\ rq[p].pc = "call" /\ Alive(p)
    /\ Finish(p) /\ Only(p)

(* Wrong: nothing is sent when the row is missing.                         *)
CheckOwnerOfPresent(p) ==
    /\ rq[p].pc = "owner" /\ Alive(p) /\ Row(p) # NoRow
    /\ IF Row(p).owner # rq[p].user THEN Finish(p) ELSE Step(p, "tenant")
    /\ Only(p)

(* handleEntityWithId: 404 for a missing row, 403 for another's.           *)
CheckOwner(p) ==
    /\ rq[p].pc = "owner" /\ Alive(p)
    /\ IF Row(p) = NoRow \/ Row(p).owner # rq[p].user THEN Finish(p) ELSE Step(p, "tenant")
    /\ Only(p)

(* Wrong: only reads look at the tenant.                                   *)
CheckTenantOfReads(p) ==
    /\ rq[p].pc = "tenant" /\ Alive(p)
    /\ IF Row(p) = NoRow \/ rq[p].op = "read" THEN Finish(p) ELSE Step(p, "write")
    /\ Only(p)

(* handleRead, and the first half of handleUpdate and handleDelete: a row  *)
(* of another tenant is not found, and one that names no tenant is found   *)
(* under every tenant's route.  A read ends here.                          *)
CheckTenant(p) ==
    /\ rq[p].pc = "tenant" /\ Alive(p)
    /\ IF Row(p) = NoRow \/ Row(p).tenant \notin {NullTenant, rq[p].tenant} \/ rq[p].op = "read"
       THEN Finish(p) ELSE Step(p, "write")
    /\ Only(p)

(* Rows seen by the requests in flight.                                    *)
Remember(db, id, row) ==
    past' = [q \in RProcs |->
        IF rq[q].pc # "idle" /\ rq[q].ref # 0 /\ dbOf[rq[q].ref] = db /\ rq[q].id = id
        THEN [tenants |-> past[q].tenants \cup {row.tenant}, owners |-> past[q].owners \cup {row.owner}]
        ELSE past[q]]

PutRow(p, id, row) ==
    LET db == dbOf[rq[p].ref] IN
    /\ rows' = [rows EXCEPT ![db][id] = row]
    /\ Remember(db, id, row)
    /\ UNCHANGED <<startVars, clientVars, served>>

(* Fields the body leaves out keep their value.                            *)
Merged(old, body) ==
    [tenant |-> IF body.tenant = "none" THEN old.tenant ELSE body.tenant,
     owner |-> IF body.owner = "none" THEN old.owner ELSE body.owner,
     v |-> IF body.v = 0 THEN old.v ELSE body.v]

(* handleUpdate after its checks: an empty body is refused with 400, and   *)
(* the row may be gone by now, a 404.                                      *)
WriteUpdate(p) ==
    /\ rq[p].pc = "write" /\ rq[p].op = "update" /\ Alive(p)
    /\ IF rq[p].body = NoRow \/ Row(p) = NoRow
       THEN Finish(p) /\ Only(p)
       ELSE PutRow(p, rq[p].id, Merged(Row(p), rq[p].body)) /\ Finish(p)

WriteDelete(p) ==
    /\ rq[p].pc = "write" /\ rq[p].op = "delete" /\ Alive(p)
    /\ IF Row(p) = NoRow THEN Finish(p) /\ Only(p)
       ELSE PutRow(p, rq[p].id, NoRow) /\ Finish(p)

(* handleCreate, in a free place of the database.                          *)
WriteCreate(p) ==
    /\ rq[p].pc = "create" /\ Alive(p)
    /\ LET db == dbOf[rq[p].ref]
           free == {i \in RIds : rows[db][i] = NoRow}
       IN IF free = {} THEN Finish(p) /\ Only(p)
          ELSE PutRow(p, CHOOSE i \in free : TRUE, rq[p].body) /\ Finish(p)

(* A call through a client that was destroyed.                             *)
UseDestroyedClient(p) ==
    /\ rq[p].pc # "idle" /\ ~Alive(p)
    /\ \/ Finish(p) /\ Only(p)
       \/ /\ running' = FALSE /\ rq' = [q \in RProcs |-> IdleReq]
          /\ UNCHANGED <<routes, services, queryRef, clientVars, rows, served, past>>

HandlerStep(p) ==
    \/ HandleCall(p) \/ CheckOwner(p) \/ CheckTenant(p) \/ WriteUpdate(p) \/ WriteDelete(p)
    \/ WriteCreate(p) \/ UseDestroyedClient(p)

(* An empty one, one that puts null for the tenant, one that gives the row *)
(* away.                                                                   *)
Bodies == {NoRow, [NoRow EXCEPT !.tenant = NullTenant, !.v = 2]}
    \cup [tenant : RTenants \ {FirstRow.tenant}, owner : RUsers \ {FirstRow.owner}, v : {0}]

Arrives(p) ==
    \/ \E t \in RTenants, u \in RUsers \cup {NoUser} :
          \/ PostEntity(p, t, u) \/ ReadEntity(p, t, u, 1) \/ DeleteEntity(p, t, u, 1)
          \/ \E b \in Bodies : UpdateEntity(p, t, u, 1, b)
    \/ PostEntity(p, NullTenant, NoUser)
    \/ \E t \in RTenants : ListRoute(p, t)
    \/ SearchRoute(p) \/ BulkRoute(p) \/ BatchRoute(p) \/ RpcRoute(p) \/ SeedRoute(p) \/ CredentialRoutes(p)
    \/ QueryRoute(p) \/ SignOnRoute(p)

NextRequests ==
    \/ \E b \in BOOLEAN : StartServer(b)
    \/ SwitchFails \/ StoreConfig \/ StopServer
    \/ \E d \in Databases : SwitchClient(d)
    \/ \E p \in RProcs : Arrives(p) \/ HandlerStep(p)

(* A thread of the event loop runs a handler to its end.                   *)
FairRequests == \A p \in RProcs : WF_requestVars(rq[p].pc # "idle" /\ HandlerStep(p))

SpecRequests == InitRequests /\ [][NextRequests]_requestVars /\ FairRequests

-----------------------------------------------------------------------------
(* The state is well formed; references are to clients that were built.    *)
TypeOKRequests ==
    /\ client \in 0..built /\ services \in 0..built /\ queryRef \in 0..built
    /\ \A p \in RProcs : rq[p].ref \in 0..built
    /\ \A p \in RProcs : rq[p].pc # "idle" => rq[p].ref # 0

(* Whenever client_mutex_ is free, the configuration the admin is shown is *)
(* that of the client in use: a switch that failed changed neither.        *)
ConfigNamesTheClient == ~mutex /\ client # 0 => dbOf[client] = config

(* The row had the route's tenant, or none, at some moment of the request. *)
TenantWasMet(p) == {rq[p].tenant, NullTenant} \cap past[p].tenants # {}

(* A row that an update or a deletion changes had the tenant of the route, *)
(* and with check_ownership the caller as its owner, at some moment since  *)
(* the request began, whatever other requests did between check and write. *)
(* The exception is a row that at some such moment named no tenant:        *)
(* crud_handler.cpp compares only with a tenantId that is a string.        *)
WritesWereAllowed ==
    [][\A p \in RProcs :
          rows' # rows /\ rq[p].pc = "write" /\ rq'[p].pc = "idle" =>
              /\ TenantWasMet(p)
              /\ rq[p].user # NoUser => rq[p].user \in past[p].owners]_requestVars

(* A switch that fails leaves the previous client serving.                 *)
ClientsAreOnlyReplaced == [][client # 0 => client' # 0]_requestVars

(* A request ends, unless the daemon died under it.                        *)
RequestsEnd == \A p \in RProcs : rq[p].pc # "idle" ~> rq[p].pc = "idle"

(* No request calls a client that was destroyed.                           *)
RequestsUseALiveClient == \A p \in RProcs : rq[p].pc # "idle" => Alive(p)

(* The daemon's requests over a client that is made lazily and switched: a *)
(* row that is changed had the tenant of the route, or none, and the owner *)
(* that was checked at some moment of the request, the configuration names *)
(* the database of the client in use, and a switch that fails leaves the   *)
(* previous client serving.                                                *)
RequestsAreSafe ==
    /\ [](/\ TypeOKRequests
          /\ ConfigNamesTheClient)
    /\ WritesWereAllowed
    /\ ClientsAreOnlyReplaced
=============================================================================
