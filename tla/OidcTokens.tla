----------------------------- MODULE OidcTokens -----------------------------
(***************************************************************************)
(* The token endpoint of the OpenID Connect provider: authorization codes  *)
(* (oidc/tokens/auth_code_store.cpp), refresh token families               *)
(* (oidc/tokens/refresh_token_store.cpp) and the exchanges that use them   *)
(* (oidc/oidc_service.cpp).  Codes and tokens are rows of the generic      *)
(* entity store, which has no conditional update: every list, create and   *)
(* update is a step of its own and other requests run in between.          *)
(*                                                                         *)
(* A token is the number of its creation; a family is the number of its    *)
(* first token.  User, tenant, scope and client are those of the code the  *)
(* family started from and are copied along, so origin stands for them.    *)
(***************************************************************************)
EXTENDS Integers, FiniteSets

CONSTANTS
    Procs,       \* requests in flight, in one daemon or in its replicas
    Codes,       \* authorization codes
    Offline,     \* codes whose scope contains offline_access
    MaxTokens,   \* bound on the number of refresh tokens ever issued
    FamilyLimit, \* opts.limit of revokeFamily's list call
    Fails,       \* may a store call or the signing of a token fail?
    Expires      \* may codes and tokens expire?

ASSUME TokensAssumption ==
    /\ Codes # {}
    /\ Offline \subseteq Codes
    /\ MaxTokens \in Nat
    /\ FamilyLimit \in Nat
    /\ Fails \in BOOLEAN /\ Expires \in BOOLEAN

Tokens == 1 .. MaxTokens
Checks == {"client", "redirect", "verifier"}  \* what a request may get right
Steps  == {"idle", "listCode", "consumeCode", "session", "issueFirst",
           "listToken", "consumeToken", "sign", "issueNext",
           "listFamily", "revokeFamily", "listRevoke", "revokeOne"}
OnToken == {"consumeToken", "sign", "issueNext",
            "listFamily", "revokeFamily", "revokeOne"}

VARIABLES
    codeState,    \* AuthorizationCode rows
    codeExpired,  \* codes whose expiresAt has passed
    issued,       \* number of RefreshToken rows
    family,       \* RefreshToken.familyId
    parent,       \* RefreshToken.parentId, 0 for none
    origin,       \* the code a token's user, scope, ... come from
    revoked,      \* tokens with revokedAt set
    tokenExpired, \* tokens whose expiresAt has passed
    pc, code, tok, good, todo, \* per request: step, inputs, rows to revoke
    lossy,        \* history: some row of the family was not listed or not revoked
    wonCode,      \* history: <<code, thread>> of completed code exchanges
    wonToken,     \* history: <<token, thread>> of completed rotations
    killed,       \* history: those of them that were listed and revoked in full
    outrun,       \* history: threads that held a token when its family was killed
    escaped       \* history: tokens issued across the killing of their family

codes   == <<codeState, codeExpired>>
tokens  == <<issued, family, parent, origin, revoked, tokenExpired>>
inputs  == <<code, tok, good>>
claims  == <<wonCode, wonToken>>
purge   == <<killed, outrun, escaped>>
vars    == <<codes, tokens, pc, inputs, todo, lossy, claims, purge>>

Issued    == 1 .. issued
Live(t)   == t \in Issued /\ t \notin revoked
Family(f) == {t \in Issued : family[t] = f}
AnyCode   == CHOOSE c \in Codes : TRUE

(* Types; and a thread that acts on a token acts on an issued one.         *)
TypeOK ==
    /\ codeState \in [Codes -> {"unissued", "live", "consumed"}]
    /\ codeExpired \subseteq Codes
    /\ issued \in 0 .. MaxTokens
    /\ family \in [Tokens -> 0 .. MaxTokens]
    /\ parent \in [Tokens -> 0 .. MaxTokens]
    /\ origin \in [Tokens -> Codes]
    /\ revoked \subseteq Issued
    /\ tokenExpired \subseteq Issued
    /\ pc \in [Procs -> Steps]
    /\ code \in [Procs -> Codes]
    /\ tok \in [Procs -> 0 .. MaxTokens]
    /\ \A p \in Procs : pc[p] \in OnToken => tok[p] \in Issued
    /\ good \in [Procs -> SUBSET Checks]
    /\ todo \in [Procs -> SUBSET Issued]
    /\ lossy \in [Procs -> BOOLEAN]
    /\ wonCode \subseteq Codes \X Procs
    /\ wonToken \subseteq Issued \X Procs
    /\ killed \subseteq 0 .. MaxTokens
    /\ outrun \subseteq Procs
    /\ escaped \subseteq Issued

Init ==
    /\ codeState = [c \in Codes |-> "unissued"]
    /\ codeExpired = {}
    /\ issued = 0
    /\ family = [t \in Tokens |-> 0]
    /\ parent = [t \in Tokens |-> 0]
    /\ origin = [t \in Tokens |-> AnyCode]
    /\ revoked = {}
    /\ tokenExpired = {}
    /\ pc = [p \in Procs |-> "idle"]
    /\ code = [p \in Procs |-> AnyCode]
    /\ tok = [p \in Procs |-> 0]
    /\ good = [p \in Procs |-> {}]
    /\ todo = [p \in Procs |-> {}]
    /\ lossy = [p \in Procs |-> FALSE]
    /\ wonCode = {} /\ wonToken = {}
    /\ killed = {} /\ outrun = {} /\ escaped = {}
-----------------------------------------------------------------------------
Goto(p, step) == pc' = [pc EXCEPT ![p] = step]

(* The request is answered.                                                *)
Return(p) ==
    /\ pc' = [pc EXCEPT ![p] = "idle"]
    /\ tok' = [tok EXCEPT ![p] = 0]
    /\ code' = [code EXCEPT ![p] = AnyCode]
    /\ good' = [good EXCEPT ![p] = {}]
    /\ todo' = [todo EXCEPT ![p] = {}]
    /\ lossy' = [lossy EXCEPT ![p] = FALSE]
    /\ outrun' = outrun \ {p}

(* A store call, or the signing of a token, returns an error: the request  *)
(* ends.  (When no refresh token can be created the caller still gets its  *)
(* other tokens; MaxTokens makes the creation fail.  The failures inside   *)
(* revokeFamily are swallowed: ListFamilyFails, RevokeRowFails.)           *)
CallFails(p) ==
    /\ \/ Fails /\ pc[p] \in Steps \ {"idle", "listFamily", "revokeFamily"}
       \/ issued = MaxTokens /\ pc[p] \in {"issueFirst", "issueNext"}
    /\ Return(p)
    /\ UNCHANGED <<codes, tokens, claims, killed, escaped>>

(* createEntity("RefreshToken", ...): f = 0 starts a family.               *)
NewToken(f, from, c) ==
    /\ issued < MaxTokens
    /\ issued' = issued + 1
    /\ family' = [family EXCEPT ![issued'] = IF f = 0 THEN issued' ELSE f]
    /\ parent' = [parent EXCEPT ![issued'] = from]
    /\ origin' = [origin EXCEPT ![issued'] = c]
    /\ UNCHANGED <<revoked, tokenExpired>>
-----------------------------------------------------------------------------
(* /authorize or /login succeeded: AuthCodeStore::issue                    *)
IssueCode(c) ==
    /\ codeState[c] = "unissued"
    /\ codeState' = [codeState EXCEPT ![c] = "live"]
    /\ UNCHANGED <<codeExpired, tokens, pc, inputs, todo, lossy, claims, purge>>

ExpireCode(c) ==
    /\ Expires
    /\ codeState[c] # "unissued"
    /\ c \notin codeExpired
    /\ codeExpired' = codeExpired \cup {c}
    /\ UNCHANGED <<codeState, tokens, pc, inputs, todo, lossy, claims, purge>>

ExpireToken(t) ==
    /\ Expires
    /\ t \in Issued \ tokenExpired
    /\ tokenExpired' = tokenExpired \cup {t}
    /\ UNCHANGED <<codes, issued, family, parent, origin, revoked,
                   pc, inputs, todo, lossy, claims, purge>>

(* POST /token, grant_type=authorization_code                              *)
StartExchange(p, c, right) ==
    /\ pc[p] = "idle"
    /\ code' = [code EXCEPT ![p] = c]
    /\ good' = [good EXCEPT ![p] = right]
    /\ Goto(p, "listCode")
    /\ UNCHANGED <<codes, tokens, tok, todo, lossy, claims, purge>>

(* Mutant of CodeUsable: consumedAt is not looked at.                      *)
CodeUsableAgain(p) ==
    /\ codeState[code[p]] # "unissued"
    /\ "client" \in good[p]
    /\ code[p] \notin codeExpired

(* AuthCodeStore::redeem: the row is read and judged as it was read.       *)
CodeUsable(p) ==
    /\ codeState[code[p]] = "live"
    /\ "client" \in good[p]
    /\ code[p] \notin codeExpired

RefuseCode(p) ==
    /\ pc[p] = "listCode"
    /\ ~CodeUsable(p)
    /\ Return(p)
    /\ UNCHANGED <<codes, tokens, claims, killed, escaped>>

AcceptCode(p) ==
    /\ pc[p] = "listCode"
    /\ CodeUsable(p)
    /\ Goto(p, "consumeCode")
    /\ UNCHANGED <<codes, tokens, inputs, todo, lossy, claims, purge>>

(* redeem: consumedAt is set, unconditionally.  Only then does exchangeCode *)
(* compare redirect_uri and verify PKCE: a wrong one burns the code.       *)
ConsumeCode(p) ==
    /\ pc[p] = "consumeCode"
    /\ codeState' = [codeState EXCEPT ![code[p]] = "consumed"]
    /\ IF {"redirect", "verifier"} \subseteq good[p]
         THEN Goto(p, "session") /\ UNCHANGED <<inputs, todo, lossy, outrun>>
         ELSE Return(p)
    /\ UNCHANGED <<codeExpired, tokens, claims, killed, escaped>>

(* createSession, then the ID and access tokens are signed.                *)
GrantAccess(p) ==
    /\ pc[p] = "session"
    /\ wonCode' = wonCode \cup {<<code[p], p>>}
    /\ IF code[p] \in Offline
         THEN Goto(p, "issueFirst") /\ UNCHANGED <<inputs, todo, lossy, outrun>>
         ELSE Return(p)
    /\ UNCHANGED <<codes, tokens, wonToken, killed, escaped>>

(* RefreshTokenStore::issue with an empty familyId                         *)
IssueFirst(p) ==
    /\ pc[p] = "issueFirst"
    /\ NewToken(0, 0, code[p])
    /\ Return(p)
    /\ UNCHANGED <<codes, claims, killed, escaped>>
-----------------------------------------------------------------------------
(* POST /token, grant_type=refresh_token                                   *)
StartRefresh(p, t, right) ==
    /\ pc[p] = "idle"
    /\ tok' = [tok EXCEPT ![p] = t]
    /\ good' = [good EXCEPT ![p] = right]
    /\ Goto(p, "listToken")
    /\ UNCHANGED <<codes, tokens, code, todo, lossy, claims, purge>>

(* RefreshTokenStore::rotate reads the row: unknown token, wrong client,   *)
(* reuse, expiry.                                                          *)
RefuseToken(p) ==
    /\ pc[p] = "listToken"
    /\ \/ tok[p] \notin Issued
       \/ "client" \notin good[p]
       \/ tok[p] \notin revoked /\ tok[p] \in tokenExpired
    /\ Return(p)
    /\ UNCHANGED <<codes, tokens, claims, killed, escaped>>

DetectReuse(p) ==
    /\ pc[p] = "listToken"
    /\ "client" \in good[p]
    /\ tok[p] \in revoked
    /\ Goto(p, "listFamily")
    /\ UNCHANGED <<codes, tokens, inputs, todo, lossy, claims, purge>>

(* Mutant of AcceptToken: an empty list is not noticed.                    *)
AcceptUnknownToken(p) ==
    /\ pc[p] = "listToken"
    /\ "client" \in good[p]
    /\ tok[p] \notin revoked
    /\ tok[p] \notin tokenExpired
    /\ Goto(p, "consumeToken")
    /\ UNCHANGED <<codes, tokens, inputs, todo, lossy, claims, purge>>

AcceptToken(p) ==
    /\ pc[p] = "listToken"
    /\ "client" \in good[p]
    /\ Live(tok[p])
    /\ tok[p] \notin tokenExpired
    /\ Goto(p, "consumeToken")
    /\ UNCHANGED <<codes, tokens, inputs, todo, lossy, claims, purge>>

(* Mutant of ConsumeToken: the presented token is left as it was.          *)
KeepToken(p) ==
    /\ pc[p] = "consumeToken"
    /\ Goto(p, "sign")
    /\ UNCHANGED <<codes, tokens, inputs, todo, lossy, claims, purge>>

(* rotate: revokedAt is set, unconditionally.                              *)
ConsumeToken(p) ==
    /\ pc[p] = "consumeToken"
    /\ revoked' = revoked \cup {tok[p]}
    /\ Goto(p, "sign")
    /\ UNCHANGED <<codes, issued, family, parent, origin, tokenExpired,
                   inputs, todo, lossy, claims, purge>>

(* exchangeRefreshToken: new ID and access tokens are signed.              *)
SignTokens(p) ==
    /\ pc[p] = "sign"
    /\ wonToken' = wonToken \cup {<<tok[p], p>>}
    /\ Goto(p, "issueNext")
    /\ UNCHANGED <<codes, tokens, inputs, todo, lossy, wonCode, purge>>

Purging(f) == \E q \in Procs : pc[q] = "revokeFamily" /\ family[tok[q]] = f

(* exchangeRefreshToken: the successor joins the same family.              *)
IssueNext(p) ==
    /\ pc[p] = "issueNext"
    /\ NewToken(family[tok[p]], tok[p], origin[tok[p]])
    /\ escaped' = IF p \in outrun \/ tok[p] \in escaped \/ Purging(family[tok[p]])
                    THEN escaped \cup {issued'} ELSE escaped
    /\ Return(p)
    /\ UNCHANGED <<codes, claims, killed>>

(* Mutant of ListFamily: only the presented token is revoked.              *)
ListPresentedOnly(p) ==
    /\ pc[p] = "listFamily"
    /\ todo' = [todo EXCEPT ![p] = {tok[p]} \ revoked]
    /\ Goto(p, "revokeFamily")
    /\ UNCHANGED <<codes, tokens, inputs, lossy, claims, purge>>

(* revokeFamily: at most FamilyLimit rows are listed.                      *)
ListFamily(p) ==
    /\ pc[p] = "listFamily"
    /\ LET all == Family(family[tok[p]]) IN
         \E listed \in SUBSET all :
            /\ Cardinality(listed) = IF Cardinality(all) < FamilyLimit
                                        THEN Cardinality(all) ELSE FamilyLimit
            /\ todo' = [todo EXCEPT ![p] = listed \ revoked]
            /\ lossy' = [lossy EXCEPT ![p] = listed # all]
    /\ Goto(p, "revokeFamily")
    /\ UNCHANGED <<codes, tokens, inputs, claims, purge>>

(* revokeFamily: the list call fails; rotate reports a revocation anyway.  *)
ListFamilyFails(p) ==
    /\ Fails
    /\ pc[p] = "listFamily"
    /\ Return(p)
    /\ UNCHANGED <<codes, tokens, claims, killed, escaped>>

(* revokeFamily: one update of the loop                                    *)
RevokeRow(p, t) ==
    /\ pc[p] = "revokeFamily"
    /\ t \in todo[p]
    /\ todo' = [todo EXCEPT ![p] = @ \ {t}]
    /\ revoked' = revoked \cup {t}
    /\ UNCHANGED <<codes, issued, family, parent, origin, tokenExpired,
                   pc, inputs, lossy, claims, purge>>

RevokeRowFails(p, t) ==
    /\ Fails
    /\ pc[p] = "revokeFamily"
    /\ t \in todo[p]
    /\ todo' = [todo EXCEPT ![p] = @ \ {t}]
    /\ lossy' = [lossy EXCEPT ![p] = TRUE]
    /\ UNCHANGED <<codes, tokens, pc, inputs, claims, purge>>

Holders(f) == {q \in Procs : /\ pc[q] \in {"consumeToken", "sign", "issueNext"}
                             /\ family[tok[q]] = f}

(* revokeFamily returns, and rotate reports the reuse.                     *)
RevokeFamilyDone(p) ==
    /\ pc[p] = "revokeFamily"
    /\ todo[p] = {}
    /\ pc' = [pc EXCEPT ![p] = "idle"]
    /\ tok' = [tok EXCEPT ![p] = 0]
    /\ good' = [good EXCEPT ![p] = {}]
    /\ lossy' = [lossy EXCEPT ![p] = FALSE]
    /\ IF lossy[p] THEN UNCHANGED <<killed, outrun>>
       ELSE /\ killed' = killed \cup {family[tok[p]]}
            /\ outrun' = outrun \cup Holders(family[tok[p]])
    /\ UNCHANGED <<codes, tokens, code, todo, claims, escaped>>
-----------------------------------------------------------------------------
(* /oidc/logout: RefreshTokenStore::revoke of this one token               *)
StartRevoke(p, t) ==
    /\ pc[p] = "idle"
    /\ tok' = [tok EXCEPT ![p] = t]
    /\ Goto(p, "listRevoke")
    /\ UNCHANGED <<codes, tokens, code, good, todo, lossy, claims, purge>>

NothingToRevoke(p) ==
    /\ pc[p] = "listRevoke"
    /\ ~Live(tok[p])
    /\ Return(p)
    /\ UNCHANGED <<codes, tokens, claims, killed, escaped>>

FoundLive(p) ==
    /\ pc[p] = "listRevoke"
    /\ Live(tok[p])
    /\ Goto(p, "revokeOne")
    /\ UNCHANGED <<codes, tokens, inputs, todo, lossy, claims, purge>>

RevokeOne(p) ==
    /\ pc[p] = "revokeOne"
    /\ revoked' = revoked \cup {tok[p]}
    /\ Return(p)
    /\ UNCHANGED <<codes, issued, family, parent, origin, tokenExpired,
                   claims, killed, escaped>>
-----------------------------------------------------------------------------
Begin(p) ==
    \/ \E c \in Codes, right \in SUBSET Checks : StartExchange(p, c, right)
    \/ \E t \in Tokens, right \in SUBSET {"client"} : StartRefresh(p, t, right)
    \/ \E t \in Tokens : StartRevoke(p, t)

Continue(p) ==
    \/ CallFails(p)
    \/ RefuseCode(p) \/ AcceptCode(p) \/ ConsumeCode(p) \/ GrantAccess(p) \/ IssueFirst(p)
    \/ RefuseToken(p) \/ DetectReuse(p) \/ AcceptToken(p) \/ ConsumeToken(p)
    \/ SignTokens(p) \/ IssueNext(p)
    \/ ListFamily(p) \/ ListFamilyFails(p) \/ RevokeFamilyDone(p)
    \/ \E t \in Tokens : RevokeRow(p, t) \/ RevokeRowFails(p, t)
    \/ NothingToRevoke(p) \/ FoundLive(p) \/ RevokeOne(p)

Next ==
    \/ \E p \in Procs : Begin(p) \/ Continue(p)
    \/ \E c \in Codes : IssueCode(c) \/ ExpireCode(c)
    \/ \E t \in Tokens : ExpireToken(t)

Spec == Init /\ [][Next]_vars
-----------------------------------------------------------------------------
(* Single use, as far as read-then-update gives it: a thread that has      *)
(* exchanged a code, or rotated a token, never gets it through a second    *)
(* time (AuthCodeStore::redeem, RefreshTokenStore::rotate).  A code is     *)
(* therefore exchanged at most once per thread, and exactly once when      *)
(* requests do not run concurrently.                                       *)
SingleUsePerThread ==
    \A p \in Procs :
       /\ pc[p] = "session" => <<code[p], p>> \notin wonCode
       /\ pc[p] = "sign" => <<tok[p], p>> \notin wonToken

(* Only leaves of a rotation chain are live: whatever the interleaving, a  *)
(* token that has a successor is revoked, and a successor has the family,  *)
(* user and scope of its predecessor (exchangeRefreshToken).               *)
LiveTokensAreLeaves ==
    \A t \in Issued : parent[t] # 0 =>
       /\ parent[t] \in revoked
       /\ family[t] = family[parent[t]]
       /\ origin[t] = origin[parent[t]]

(* Reuse detection: in a family that revokeFamily has revoked completely,  *)
(* every live token was issued by a rotation that overlapped the           *)
(* revocation, or descends from such a token.                              *)
KilledFamilyExplained ==
    \A t \in Issued : Live(t) /\ family[t] \in killed => t \in escaped
=============================================================================
