----------------------------- MODULE AccessGate -----------------------------
(***************************************************************************)
(* What stands between an HTTP request and an entity: the early returns of *)
(* the three entity routes, the schema's access rules, the JSON auth       *)
(* configuration and the two kinds of bearer token.  A behaviour takes one *)
(* request and answers it.                                                 *)
(*                                                                         *)
(* The rules of the requested operation are one record; the others do not  *)
(* matter.  A signature is good or not, and a token's age is one of        *)
(* "ok", "expired" and "noexp".  The answer is a status, or the operation  *)
(* of Client that handleRestfulRequest calls.                              *)
(***************************************************************************)
EXTENDS Naturals, FiniteSets

CONSTANTS Tenants,     \* tenants in paths and tokens; contains "system"
          Roles

VARIABLES greq,        \* the request with the configuration it meets
          gans         \* its answer
gateVars == <<greq, gans>>

NoTenant == "none"
NoRole == "none"
Unanswered == [status |-> 1, op |-> "none"]
Pass == 0
ReadMethods == {"GET"}
WriteMethods == {"POST", "PUT", "PATCH", "DELETE"}

(***************************************************************************)
(* Inputs                                                                  *)
(***************************************************************************)
Anonymous == [kind |-> "none"]
Operator == [kind |-> "operator"]
Tokens ==
    [kind : {"HS256"}, signed : BOOLEAN, age : {"ok", "expired", "noexp"}, tenant : {NoTenant}, role : {NoRole}]
    \cup [kind : {"RS256"}, signed : {TRUE}, age : {"ok", "expired", "noexp"},
          tenant : Tenants \cup {NoTenant}, role : Roles]
    \cup [kind : {"none alg"}, signed : {TRUE}, age : {"ok"}, tenant : Tenants, role : Roles]

(* What a schema declares for the operation: no block, one condition or a  *)
(* list of alternatives, with boolean predicates and roles.                *)
Undeclared == [shape |-> "absent", flags |-> {}, roles |-> {}]
Declarations ==
    {Undeclared} \cup
    [shape : {"object", "array"}, flags : {{}, {"public"}, {"self"}, {"self", "public"}, {"system"}},
     roles : {{}, {CHOOSE x \in Roles : TRUE}}]

(* The entry of the tenant and that of the entity in the auth              *)
(* configuration.                                                          *)
AuthConfigs == {<<"absent", "absent">>, <<"open", "absent">>, <<"open", "auth">>}
Rules == {<<FALSE, Undeclared>>} \cup ({TRUE} \X Declarations)

(* POST goes to the collection or names an action; PUT and DELETE have an  *)
(* id.                                                                     *)
Routes ==
    ({"GET", "POST", "OPTIONS"} \X {<<FALSE, FALSE>>, <<TRUE, FALSE>>, <<TRUE, TRUE>>})
    \cup ({"PUT", "DELETE"} \X {<<TRUE, FALSE>>})

(* The interesting corners: the limiter and the missing client are early   *)
(* returns, so they vary alone.                                            *)
Plausible(r) ==
    /\ r.limited => r.client
    /\ ~r.adminToken => r.caller = Operator
    /\ (r.limited \/ ~r.client \/ r.method = "OPTIONS") =>
          r.decl = Undeclared /\ r.caller = Anonymous /\ r.tenantAuth = "open" /\ r.entityAuth = "absent" /\ ~r.privileged /\ r.key /\ r.secret
    /\ r.privileged => r.method = "POST" /\ ~r.id

InitGate ==
    /\ gans = Unanswered
    /\ \E route \in Routes, auth \in AuthConfigs, rules \in Rules :
          greq \in {r \in [method : {route[1]}, id : {route[2][1]}, action : {route[2][2]},
                          tenantAuth : {auth[1]}, entityAuth : {auth[2]}, registry : {rules[1]}, decl : {rules[2]},
                          caller : {Anonymous, Operator} \cup Tokens, tenant : Tenants, privileged : BOOLEAN,
                          secret : BOOLEAN, key : BOOLEAN, adminToken : BOOLEAN, limited : BOOLEAN,
                          client : BOOLEAN] : Plausible(r)}

(***************************************************************************)
(* Tokens and rules                                                        *)
(***************************************************************************)
NoClaims == [valid |-> FALSE]
Claims(tenant, role) == [valid |-> TRUE, tenant |-> tenant, role |-> role]

(* An HS256 token carries neither tenant nor role, and its expiry is       *)
(* optional; RS256 reads the expiry and fails without it.                  *)
JwtValidator(t) == IF t.signed /\ t.age # "expired" THEN Claims(NoTenant, NoRole) ELSE NoClaims
RsJwtValidator(t) == IF t.signed /\ t.age = "ok" THEN Claims(t.tenant, t.role) ELSE NoClaims

fromRequest(r) ==
    CASE r.caller.kind = "HS256" /\ r.secret -> JwtValidator(r.caller)
      [] r.caller.kind = "RS256" /\ r.key -> RsJwtValidator(r.caller)
      [] OTHER -> NoClaims

IsOperator(r) == r.adminToken /\ r.caller = Operator

(* Roles are read from a single condition only, predicates from any.       *)
parseACLRoles(d) == IF d.shape = "object" THEN d.roles ELSE {}
parseACLOperation(d) == d.flags

isSystemOnly(r) == r.registry /\ "system" \in parseACLOperation(r.decl)
isPublicWrite(r) == "public" \in parseACLOperation(r.decl)
requiresAuthToRead(r) == parseACLOperation(r.decl) # {} /\ "public" \notin parseACLOperation(r.decl)
roleAllowed(r, role) == parseACLRoles(r.decl) = {} \/ role \in parseACLRoles(r.decl)

(* Each level of the configuration falls back to the one above; the        *)
(* defaults and the tenant are open.                                       *)
getEntityConfig(r) ==
    IF r.tenantAuth = "absent" THEN "open"
    ELSE IF r.entityAuth = "absent" THEN r.tenantAuth
    ELSE r.entityAuth

(***************************************************************************)
(* The rejections, each in the order of its early returns                  *)
(***************************************************************************)
tenant_mismatch(claims, tenant) ==
    claims.tenant # NoTenant /\ claims.tenant # tenant /\ tenant # "system"

(* Wrong: the tenant is compared before the public rule is looked at.      *)
write_authz_tenant_first(r) ==
    LET claims == fromRequest(r) IN
    IF ~r.registry \/ r.method \notin WriteMethods THEN Pass
    ELSE IF IsOperator(r) THEN Pass
    ELSE IF claims.valid /\ tenant_mismatch(claims, r.tenant) THEN 403
    ELSE IF isPublicWrite(r) /\ (claims.valid \/ ~r.privileged) THEN Pass
    ELSE IF isPublicWrite(r) THEN 403
    ELSE IF ~claims.valid THEN 401
    ELSE IF ~roleAllowed(r, claims.role) THEN 403
    ELSE Pass

write_authz_rejection(r) ==
    LET claims == fromRequest(r) IN
    IF ~r.registry \/ r.method \notin WriteMethods THEN Pass
    ELSE IF IsOperator(r) THEN Pass
    ELSE IF isPublicWrite(r) /\ (claims.valid \/ ~r.privileged) THEN Pass
    ELSE IF isPublicWrite(r) THEN 403
    ELSE IF ~claims.valid THEN 401
    ELSE IF tenant_mismatch(claims, r.tenant) THEN 403
    ELSE IF ~roleAllowed(r, claims.role) THEN 403
    ELSE Pass

read_authz_rejection(r) ==
    LET claims == fromRequest(r) IN
    IF ~r.registry \/ r.method \notin ReadMethods \/ ~requiresAuthToRead(r) THEN Pass
    ELSE IF IsOperator(r) THEN Pass
    ELSE IF ~claims.valid THEN 401
    ELSE IF tenant_mismatch(claims, r.tenant) THEN 403
    ELSE IF ~roleAllowed(r, claims.role) THEN 403
    ELSE Pass

(* require_auth of the JSON configuration; system is not exempt here.      *)
require_auth(r) ==
    LET claims == fromRequest(r) IN
    IF getEntityConfig(r) # "auth" \/ IsOperator(r) THEN Pass
    ELSE IF ~r.secret /\ ~r.key THEN 503
    ELSE IF ~claims.valid THEN 401
    ELSE IF claims.tenant # NoTenant /\ claims.tenant # r.tenant THEN 403
    ELSE Pass

(***************************************************************************)
(* The routes                                                              *)
(***************************************************************************)
handleRestfulRequest(r) ==
    IF r.action THEN "404"
    ELSE IF r.method = "GET" THEN (IF r.id THEN "read" ELSE "list")
    ELSE IF r.method = "POST" THEN (IF r.id THEN "400" ELSE "create")
    ELSE IF r.method = "DELETE" THEN "delete"
    ELSE "update"

(* What precedes the rules on every entity route.                          *)
Preliminaries(r) ==
    IF r.method = "OPTIONS" THEN 204
    ELSE IF r.limited THEN 429
    ELSE IF ~r.client THEN 503
    ELSE IF isSystemOnly(r) THEN 403
    ELSE Pass

(* The first stage that does not pass answers.                             *)
Rejection(r) ==
    IF Preliminaries(r) # Pass THEN Preliminaries(r)
    ELSE IF write_authz_rejection(r) # Pass THEN write_authz_rejection(r)
    ELSE IF read_authz_rejection(r) # Pass THEN read_authz_rejection(r)
    ELSE require_auth(r)

(* Status of a rejection, or the operation that runs.                      *)
AnswerTo(r) ==
    IF Rejection(r) # Pass THEN [status |-> Rejection(r), op |-> "none"]
    ELSE LET op == handleRestfulRequest(r) IN
         [status |-> CASE op = "404" -> 404 [] op = "400" -> 400 [] OTHER -> Pass, op |-> op]

Answered(r) == gans' = AnswerTo(r)
EntityRoute(r) == ~r.id /\ Answered(r)
EntityIdRoute(r) == r.id /\ ~r.action /\ Answered(r)
EntityActionRoute(r) == r.action /\ Answered(r)

NextGate ==
    /\ gans = Unanswered
    /\ EntityRoute(greq) \/ EntityIdRoute(greq) \/ EntityActionRoute(greq)
    /\ UNCHANGED greq

SpecGate == InitGate /\ [][NextGate]_gateVars

-----------------------------------------------------------------------------
Reached == gans # Unanswered /\ gans.status = Pass
SignedIn(r) == fromRequest(r).valid
Stranger(r) == [r EXCEPT !.caller = Anonymous]

(* Answers are statuses, or one of the five operations.                    *)
TypeOKGate ==
    gans # Unanswered => gans.status \in {Pass, 204, 400, 401, 403, 404, 429, 503}

(* The rules the comments of the routes give, put together: what reaches   *)
(* Client was written by the operator, by nobody in particular where the   *)
(* schema says public, or by a caller of the tenant with a named role.     *)
WritesFollowTheRules ==
    Reached /\ greq.method \in WriteMethods /\ greq.registry /\ ~IsOperator(greq) =>
        \/ isPublicWrite(greq) /\ (SignedIn(greq) \/ ~greq.privileged)
        \/ /\ SignedIn(greq)
           /\ ~tenant_mismatch(fromRequest(greq), greq.tenant)
           /\ roleAllowed(greq, fromRequest(greq).role)

(* Where the schema has a read predicate that is not public, a reader has  *)
(* shown a token that fits, whatever the JSON configuration leaves open.   *)
ReadsFollowTheRules ==
    Reached /\ greq.method = "GET" /\ greq.registry /\ requiresAuthToRead(greq) /\ ~IsOperator(greq) =>
        /\ SignedIn(greq)
        /\ ~tenant_mismatch(fromRequest(greq), greq.tenant)
        /\ roleAllowed(greq, fromRequest(greq).role)

(* Showing a token, good or bad, never loses what an anonymous caller may  *)
(* do: the stages do not add up to a refusal only signed-in callers meet.  *)
SigningInNeverHurts ==
    gans # Unanswered /\ Rejection(Stranger(greq)) = Pass => gans.status \in {Pass, 400, 404}

(* An entity that requires a caller is not served to anyone but the        *)
(* operator while no key to check tokens with is configured.               *)
FailsClosed ==
    Reached /\ getEntityConfig(greq) = "auth" /\ ~IsOperator(greq) => greq.secret \/ greq.key

(* The chain of early returns before a request reaches its rows decides as *)
(* the declared rules put together: no read or write they forbid passes,   *)
(* showing a token never costs a right, and an entity that requires a      *)
(* caller is closed while no key is configured.                            *)
GateFollowsTheRules ==
    /\ TypeOKGate
    /\ WritesFollowTheRules
    /\ ReadsFollowTheRules
    /\ SigningInNeverHurts
    /\ FailsClosed
=============================================================================
