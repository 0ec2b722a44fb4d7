----------------------------- MODULE SsoTickets -----------------------------
(***************************************************************************)
(* The single-use rows of the other two sign-on protocols: CAS service     *)
(* tickets (cas/cas_ticket_store.cpp) and pending SAML requests            *)
(* (saml/state/saml_request_store.cpp), with the login and validation      *)
(* handlers that use them.  A row is found by a list call and consumed by  *)
(* an update: two steps between which other requests run.                  *)
(***************************************************************************)
EXTENDS Integers, FiniteSets

CONSTANTS
    SsoProcs,     \* requests in flight
    MaxSsoRows,   \* bound on the rows ever created
    SamlIds,      \* AuthnRequest IDs, chosen by the service provider
    SsoFails,     \* may a row access or the signing of a response fail?
    SsoExpires    \* may rows expire?

ASSUME SsoAssumption ==
    /\ MaxSsoRows \in Nat \ {0} /\ SamlIds \cap Nat = {}
    /\ {SsoFails, SsoExpires} \subseteq BOOLEAN

SsoRows == 1 .. MaxSsoRows

VARIABLES
    rows,      \* number of rows; CasTicket and SamlAuthnRequestState together
    ssoKey,    \* ticketHash (a fresh number) or requestId
    consumed,  \* rows with consumedAt set
    overdue,   \* rows whose expiresAt has passed
    sstep,     \* where a request is
    skey,      \* ticket or requestId it presents
    srow,      \* row its list call found
    fits,      \* CAS: is it for the service the ticket was issued for?
    before,    \* history: rows consumed before the request began
    answered   \* history: rows for which a request was answered positively

ssoVars == <<rows, ssoKey, consumed, overdue, sstep, skey, srow, fits, before, answered>>
ssoRequest == <<sstep, skey, srow, fits, before>>
SsoKeys == SsoRows \cup SamlIds

(* The rows of both stores and where each request stands between its calls. *)
TypeOKSso ==
    /\ rows \in 0 .. MaxSsoRows
    /\ ssoKey \in [SsoRows -> SsoKeys]
    /\ consumed \subseteq 1 .. rows /\ overdue \subseteq 1 .. rows
    /\ sstep \in [SsoProcs -> {"idle", "list", "update", "sign"}]
    /\ skey \in [SsoProcs -> SsoKeys]
    /\ srow \in [SsoProcs -> SsoRows]
    /\ fits \in [SsoProcs -> BOOLEAN]
    /\ \A p \in SsoProcs : sstep[p] \in {"update", "sign"} => ssoKey[srow[p]] = skey[p]

InitSso ==
    /\ rows = 0 /\ ssoKey = [r \in SsoRows |-> r]
    /\ consumed = {} /\ overdue = {}
    /\ sstep = [p \in SsoProcs |-> "idle"]
    /\ skey = [p \in SsoProcs |-> 1]
    /\ srow = [p \in SsoProcs |-> 1]
    /\ fits = [p \in SsoProcs |-> TRUE]
    /\ before = [p \in SsoProcs |-> {}]
    /\ answered = {}

(* POST /cas/login with the right password: one createEntity; a ticket's   *)
(* random text is new.                                                     *)
IssueTicket ==
    /\ rows < MaxSsoRows
    /\ rows' = rows + 1
    /\ ssoKey' = [ssoKey EXCEPT ![rows + 1] = rows + 1]
    /\ UNCHANGED <<consumed, overdue, ssoRequest, answered>>

(* GET /saml/sso: nothing stops a provider from sending one ID twice.      *)
StoreRequest(id) ==
    /\ rows < MaxSsoRows
    /\ rows' = rows + 1
    /\ ssoKey' = [ssoKey EXCEPT ![rows + 1] = id]
    /\ UNCHANGED <<consumed, overdue, ssoRequest, answered>>

Expire(r) ==
    /\ SsoExpires /\ r \in 1 .. rows
    /\ overdue' = overdue \cup {r}
    /\ UNCHANGED <<rows, ssoKey, consumed, ssoRequest, answered>>

(* GET /cas/serviceValidate, or POST /saml/login after its password check  *)
(* (a wrong password shows the form again and touches no row).             *)
Present(p, k, ok) ==
    /\ sstep[p] = "idle"
    /\ k \in SamlIds => ok
    /\ sstep' = [sstep EXCEPT ![p] = "list"]
    /\ skey' = [skey EXCEPT ![p] = k]
    /\ fits' = [fits EXCEPT ![p] = ok]
    /\ before' = [before EXCEPT ![p] = consumed]
    /\ UNCHANGED <<rows, ssoKey, consumed, overdue, srow, answered>>

Done(p) ==
    /\ sstep' = [sstep EXCEPT ![p] = "idle"]
    /\ skey' = [skey EXCEPT ![p] = 1]
    /\ srow' = [srow EXCEPT ![p] = 1]
    /\ fits' = [fits EXCEPT ![p] = TRUE]
    /\ before' = [before EXCEPT ![p] = {}]

(* filter on the key, limit 1, no sort: any row with the key may be front. *)
Front(p) == {r \in 1 .. rows : ssoKey[r] = skey[p]}
RedeemableAgain(p, r) == r \notin overdue /\ fits[p]  \* wrong: consumedAt ignored
Redeemable(p, r) == r \notin consumed \cup overdue /\ fits[p]

ListAccepts(p) == \E r \in Front(p) :
    /\ sstep[p] = "list"
    /\ Redeemable(p, r)
    /\ sstep' = [sstep EXCEPT ![p] = "update"]
    /\ srow' = [srow EXCEPT ![p] = r]
    /\ UNCHANGED <<rows, ssoKey, consumed, overdue, skey, fits, before, answered>>

(* Not recognised, used, expired, issued for another service, or an error. *)
ListRefuses(p) ==
    /\ sstep[p] = "list"
    /\ SsoFails \/ Front(p) = {} \/ \E r \in Front(p) : ~Redeemable(p, r)
    /\ Done(p)
    /\ UNCHANGED <<rows, ssoKey, consumed, overdue, answered>>

(* CAS: consumedAt is set and the ticket's user returned.                  *)
ConsumeTicket(p) ==
    /\ sstep[p] = "update" /\ skey[p] \notin SamlIds
    /\ consumed' = consumed \cup {srow[p]}
    /\ answered' = answered \cup {srow[p]}
    /\ Done(p)
    /\ UNCHANGED <<rows, ssoKey, overdue>>

(* SAML: the request is taken first, the response signed afterwards.       *)
ConsumeRequest(p) ==
    /\ sstep[p] = "update" /\ skey[p] \in SamlIds
    /\ consumed' = consumed \cup {srow[p]}
    /\ sstep' = [sstep EXCEPT ![p] = "sign"]
    /\ UNCHANGED <<rows, ssoKey, overdue, skey, srow, fits, before, answered>>

UpdateFails(p) ==
    /\ sstep[p] = "update" /\ SsoFails
    /\ Done(p)
    /\ UNCHANGED <<rows, ssoKey, consumed, overdue, answered>>

SignResponse(p) ==
    /\ sstep[p] = "sign"
    /\ answered' = answered \cup {srow[p]}
    /\ Done(p)
    /\ UNCHANGED <<rows, ssoKey, consumed, overdue>>

(* 400: no response, and the request is spent all the same.                *)
SignFails(p) ==
    /\ sstep[p] = "sign" /\ SsoFails
    /\ Done(p)
    /\ UNCHANGED <<rows, ssoKey, consumed, overdue, answered>>

NextSso ==
    \/ IssueTicket
    \/ \E id \in SamlIds : StoreRequest(id)
    \/ \E r \in SsoRows : Expire(r)
    \/ \E p \in SsoProcs, k \in SsoKeys, ok \in BOOLEAN : Present(p, k, ok)
    \/ \E p \in SsoProcs : \/ ListAccepts(p) \/ ListRefuses(p) \/ ConsumeTicket(p)
                           \/ ConsumeRequest(p) \/ UpdateFails(p)
                           \/ SignResponse(p) \/ SignFails(p)

SpecSso == InitSso /\ [][NextSso]_ssoVars

-----------------------------------------------------------------------------
(* A replay is refused: a request that begins after a row was consumed is  *)
(* never answered with that row, whatever else is in flight.               *)
ReplayRefused == \A p \in SsoProcs :
    sstep[p] \in {"update", "sign"} => srow[p] \notin before[p]

(* A positive answer is paid for: the row it rests on is consumed, so that *)
(* every later request sees it.                                            *)
AnswersAreConsumed == answered \subseteq consumed

(* Both stores are stores of single-use handles, up to overlapping reads.  *)
Redemptions == INSTANCE OneTimeStore WITH
    Handles <- SsoRows, Callers <- SsoProcs, Atomic <- FALSE,
    live <- 1 .. rows \ (consumed \cup overdue),
    inside <- {e \in SsoProcs \X SsoRows : sstep[e[1]] = "update" /\ srow[e[1]] = e[2]}

(* List-then-update implements the single-use store that is not atomic.    *)
RowsAreOneTime == Redemptions!StoreSpec

(* CAS tickets and SAML requests under overlapping presentations, failures *)
(* and expiries: a request that begins after a row was consumed is refused,*)
(* every positive answer consumed its row, and the rows are single-use     *)
(* handles up to overlapping reads.                                        *)
TicketsAreSound ==
    /\ [](/\ TypeOKSso
          /\ ReplayRefused
          /\ AnswersAreConsumed)
    /\ RowsAreOneTime
=============================================================================
