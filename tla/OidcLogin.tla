------------------------------ MODULE OidcLogin ------------------------------
(***************************************************************************)
(* Signing in at the OpenID Connect provider: /authorize, the login form   *)
(* with its continuation and restart tokens (PendingAuthorizeStore), and   *)
(* the browser session that lets a second application skip the form.       *)
(* One browser, several tabs; a tab can be duplicated, so one form may be  *)
(* submitted twice.  Every store call and every row access is a step.      *)
(*                                                                         *)
(* A token is opaque and never repeats: a token is minted afresh once      *)
(* nothing refers to it any more.  An expired entry of the store behaves   *)
(* as an absent one (take and peek both erase it), so expiry removes it;   *)
(* so is an entry whose token no page shows, which nobody can present.     *)
(***************************************************************************)
EXTENDS Integers, FiniteSets

CONSTANTS
    Tabs,          \* tabs of one browser, each with at most one request in flight
    AuthRequests,  \* valid authorize requests (client, redirect_uri, challenge, ...)
    Accounts,      \* users with a credential
    MaxTokensLogin, \* names for continuation and restart tokens in use at a time
    SessionIds,    \* names for OidcSession rows of the browser
    LoginFails,    \* may a row access of the identity store fail?
    LoginExpires,  \* may tokens and sessions expire?
    LoginRestarts  \* may the daemon restart?

NoToken == 0
LoginTokens == 1 .. MaxTokensLogin
Blank   == <<NoToken, NoToken>>
NoSession == "none"
NoOne   == "nobody"

ASSUME LoginAssumption ==
    /\ MaxTokensLogin \in Nat
    /\ NoSession \notin SessionIds
    /\ AuthRequests # {}
    /\ NoOne \notin Accounts
    /\ {LoginFails, LoginExpires, LoginRestarts} \subseteq BOOLEAN

LoginSteps == {"idle", "verify", "issue", "session", "lookup", "reissue", "revoke", "clear"}

VARIABLES
    pending,   \* PendingAuthorizeStore (5 min): live continuation -> request
    restarts,  \* PendingAuthorizeStore (30 min): live restart token -> request
    page,      \* <<continuation, restart>> of the form a tab shows
    want,      \* history: the request the tab's sign-in is about
    lstep,     \* where the tab's request is
    taken,     \* continuation and authorize request the handler holds
    typed,     \* the user whose password was accepted
    sid,       \* session cookie the request carried
    cookie,    \* the browser's session cookie
    sessions,  \* OidcSession rows: live ones -> user
    stale,     \* history: was the cookie's session over when the tab's request began?
    grant,     \* history: what the tab's code was issued for
    lapsed     \* history: tabs whose form's restart token expired or died with the daemon

tokenVars   == <<pending, restarts>>
sessionVars == <<cookie, sessions>>
handlerVars == <<lstep, taken, typed, sid, stale>>
loginVars   == <<tokenVars, page, want, handlerVars, sessionVars, grant, lapsed>>

(* Types, and a request in its handler holds what that step needs.         *)
TypeOKLogin ==
    /\ pending \in UNION {[S -> AuthRequests] : S \in SUBSET LoginTokens}
    /\ restarts \in UNION {[S -> AuthRequests] : S \in SUBSET LoginTokens}
    /\ DOMAIN pending \cap DOMAIN restarts = {}
    /\ page \in [Tabs -> (LoginTokens \cup {NoToken}) \X (LoginTokens \cup {NoToken})]
    /\ want \in [Tabs -> AuthRequests]
    /\ lstep \in [Tabs -> LoginSteps]
    /\ taken \in [Tabs -> (LoginTokens \cup {NoToken}) \X AuthRequests]
    /\ typed \in [Tabs -> Accounts \cup {NoOne}]
    /\ sid \in [Tabs -> SessionIds \cup {NoSession}]
    /\ cookie \in SessionIds \cup {NoSession}
    /\ sessions \in UNION {[S -> Accounts] : S \in SUBSET SessionIds}
    /\ \A t \in Tabs : lstep[t] \in {"issue", "session", "reissue"} => typed[t] # NoOne

InitLogin ==
    /\ pending = <<>> /\ restarts = <<>>
    /\ page = [t \in Tabs |-> Blank]
    /\ want = [t \in Tabs |-> CHOOSE q \in AuthRequests : TRUE]
    /\ lstep = [t \in Tabs |-> "idle"]
    /\ taken = [t \in Tabs |-> <<NoToken, want[t]>>]
    /\ typed = [t \in Tabs |-> NoOne]
    /\ sid = [t \in Tabs |-> NoSession]
    /\ cookie = NoSession /\ sessions = <<>>
    /\ stale = [t \in Tabs |-> FALSE]
    /\ grant = [t \in Tabs |-> <<>>] /\ lapsed = {}

Bind(f, k, v) == [x \in DOMAIN f \cup {k} |-> IF x = k THEN v ELSE f[x]]
Without(f, k) == [x \in DOMAIN f \ {k} |-> f[x]]

(* Tab t goes to page pg, with pend and rest as the two stores.            *)
Goto(t, pg, pend, rest) ==
    LET shown(f) == {k \in DOMAIN f : \E o \in Tabs : k \in {page'[o][1], page'[o][2]}}
    IN  /\ page' = [page EXCEPT ![t] = pg]
        /\ pending' = [k \in shown(pend) |-> pend[k]]
        /\ restarts' = [k \in shown(rest) |-> rest[k]]

(* generate_token: a token nothing refers to once t has left its page.     *)
(* Tokens are interchangeable, so the least such number stands for all.    *)
Free(t) == {k \in LoginTokens :
    /\ k # page[t][2]
    /\ \A o \in Tabs \ {t} : k \notin {page[o][1], page[o][2], taken[o][1]}}
Least(S, k) == k \in S /\ \A j \in S : k <= j

Finish(t) ==
    /\ lstep' = [lstep EXCEPT ![t] = "idle"]
    /\ taken' = [taken EXCEPT ![t] = <<NoToken, want[t]>>]
    /\ typed' = [typed EXCEPT ![t] = NoOne]
    /\ sid' = [sid EXCEPT ![t] = NoSession]
    /\ stale' = [stale EXCEPT ![t] = FALSE]

(* pending_store_.store(q), and the form with the new continuation and r.  *)
ShowForm(t, q, r, rest) == \E k \in LoginTokens :
    /\ Least(Free(t) \ {r}, k)
    /\ Goto(t, <<k, r>>, Bind(pending, k, q), rest)

-----------------------------------------------------------------------------
(* GET /oidc/authorize with a session cookie: the session is looked up.    *)
AuthorizeWithCookie(t, q) ==
    /\ lstep[t] = "idle" /\ page[t] = Blank
    /\ cookie # NoSession
    /\ lstep' = [lstep EXCEPT ![t] = "lookup"]
    /\ want' = [want EXCEPT ![t] = q]
    /\ taken' = [taken EXCEPT ![t] = <<NoToken, q>>]
    /\ sid' = [sid EXCEPT ![t] = cookie]
    /\ stale' = [stale EXCEPT ![t] = cookie \notin DOMAIN sessions]
    /\ grant' = [grant EXCEPT ![t] = <<>>]
    /\ lapsed' = lapsed \ {t}
    /\ UNCHANGED <<tokenVars, page, typed, sessionVars>>

(* The request is stored twice and the browser sent to the login form.     *)
SendToLogin(t, q) == \E r \in LoginTokens :
    /\ Least(Free(t), r)
    /\ ShowForm(t, q, r, Bind(restarts, r, q))
    /\ lapsed' = lapsed \ {t}

AuthorizeWithoutCookie(t, q) ==
    /\ lstep[t] = "idle" /\ page[t] = Blank
    /\ cookie = NoSession
    /\ want' = [want EXCEPT ![t] = q]
    /\ SendToLogin(t, q)
    /\ grant' = [grant EXCEPT ![t] = <<>>]
    /\ UNCHANGED <<handlerVars, sessionVars>>

LookupFound(t) ==
    /\ lstep[t] = "lookup"
    /\ sid[t] \in DOMAIN sessions
    /\ lstep' = [lstep EXCEPT ![t] = "reissue"]
    /\ typed' = [typed EXCEPT ![t] = sessions[sid[t]]]
    /\ UNCHANGED <<tokenVars, page, want, taken, sid, stale, sessionVars, grant, lapsed>>

(* No such session, revoked, expired, or the lookup failed: login form.    *)
LookupMissing(t) ==
    /\ lstep[t] = "lookup"
    /\ sid[t] \notin DOMAIN sessions \/ LoginFails
    /\ SendToLogin(t, taken[t][2])
    /\ Finish(t)
    /\ UNCHANGED <<want, sessionVars, grant>>

IssueForSession(t) ==
    /\ lstep[t] = "reissue"
    /\ grant' = [grant EXCEPT ![t] = <<taken[t][2]>>]
    /\ Finish(t)
    /\ UNCHANGED <<tokenVars, page, want, sessionVars, lapsed>>

IssueForSessionFails(t) ==
    /\ lstep[t] = "reissue" /\ LoginFails
    /\ SendToLogin(t, taken[t][2])
    /\ Finish(t)
    /\ UNCHANGED <<want, sessionVars, grant>>

-----------------------------------------------------------------------------
(* GET /oidc/login with only the restart token: a fresh continuation.  The *)
(* handler does not look at a continuation that is there, live or not.     *)
Reopen(t) ==
    /\ lstep[t] = "idle" /\ page[t][2] \in DOMAIN restarts
    /\ ShowForm(t, restarts[page[t][2]], page[t][2], restarts)
    /\ UNCHANGED <<want, handlerVars, sessionVars, grant, lapsed>>

(* The page that says the sign-in cannot be resumed.                       *)
ReopenFails(t) ==
    /\ lstep[t] = "idle" /\ page[t] # Blank /\ page[t][2] \notin DOMAIN restarts
    /\ Goto(t, Blank, pending, restarts)
    /\ UNCHANGED <<want, handlerVars, sessionVars, grant, lapsed>>

(* POST /oidc/login: take the continuation, then check the password.       *)
SubmitTakes(t) ==
    /\ lstep[t] = "idle" /\ page[t][1] \in DOMAIN pending
    /\ lstep' = [lstep EXCEPT ![t] = "verify"]
    /\ taken' = [taken EXCEPT ![t] = <<page[t][1], pending[page[t][1]]>>]
    /\ pending' = Without(pending, page[t][1])
    /\ UNCHANGED <<restarts, page, want, typed, sid, stale, sessionVars, grant, lapsed>>

(* Wrong: the POST of a lapsed form is answered with that same form.       *)
SubmitLoops(t) ==
    /\ lstep[t] = "idle" /\ page[t] # Blank
    /\ page[t][1] \notin DOMAIN pending /\ page[t][2] \in DOMAIN restarts
    /\ UNCHANGED loginVars

(* The continuation lapsed or was spent; the restart token still stands.   *)
SubmitRestarts(t) ==
    /\ lstep[t] = "idle" /\ page[t] # Blank
    /\ page[t][1] \notin DOMAIN pending /\ page[t][2] \in DOMAIN restarts
    /\ ShowForm(t, restarts[page[t][2]], page[t][2], restarts)
    /\ UNCHANGED <<want, handlerVars, sessionVars, grant, lapsed>>

SubmitDeadEnds(t) ==
    /\ lstep[t] = "idle" /\ page[t] # Blank
    /\ page[t][1] \notin DOMAIN pending /\ page[t][2] \notin DOMAIN restarts
    /\ Goto(t, Blank, pending, restarts)
    /\ UNCHANGED <<want, handlerVars, sessionVars, grant, lapsed>>

(* Wrong password, or the credential lookup failed: form with a new token. *)
VerifyRejects(t) ==
    /\ lstep[t] = "verify"
    /\ ShowForm(t, taken[t][2], page[t][2], restarts)
    /\ Finish(t)
    /\ UNCHANGED <<want, sessionVars, grant, lapsed>>

VerifyAccepts(t, u) ==
    /\ lstep[t] = "verify"
    /\ lstep' = [lstep EXCEPT ![t] = "issue"]
    /\ typed' = [typed EXCEPT ![t] = u]
    /\ UNCHANGED <<tokenVars, page, want, taken, sid, stale, sessionVars, grant, lapsed>>

(* buildAuthorizeRedirect: the code row is created, the tab leaves.        *)
IssueCodeOk(t) ==
    /\ lstep[t] = "issue"
    /\ lstep' = [lstep EXCEPT ![t] = "session"]
    /\ grant' = [grant EXCEPT ![t] = <<taken[t][2]>>]
    /\ UNCHANGED <<tokenVars, page, want, taken, typed, sid, stale, sessionVars, lapsed>>

(* 500: the form stays behind this answer, its continuation spent.         *)
IssueCodeFails(t) ==
    /\ lstep[t] = "issue" /\ LoginFails
    /\ Finish(t)
    /\ UNCHANGED <<tokenVars, page, want, sessionVars, grant, lapsed>>

OpenSession(t, s) ==
    /\ lstep[t] = "session"
    /\ s \notin DOMAIN sessions /\ \A o \in Tabs : s # sid[o]
    /\ sessions' = Bind(sessions, s, typed[t])
    /\ cookie' = s
    /\ Goto(t, Blank, pending, restarts)
    /\ Finish(t)
    /\ UNCHANGED <<want, grant, lapsed>>

OpenSessionFails(t) ==
    /\ lstep[t] = "session" /\ LoginFails
    /\ Goto(t, Blank, pending, restarts)
    /\ Finish(t)
    /\ UNCHANGED <<want, sessionVars, grant, lapsed>>

-----------------------------------------------------------------------------
(* /oidc/logout: revoke the row the cookie names, then clear the cookie,   *)
(* whether or not the revocation succeeded.                                *)
Logout(t) ==
    /\ lstep[t] = "idle" /\ page[t] = Blank /\ cookie # NoSession
    /\ lstep' = [lstep EXCEPT ![t] = "revoke"]
    /\ sid' = [sid EXCEPT ![t] = cookie]
    /\ UNCHANGED <<tokenVars, page, want, taken, typed, stale, sessionVars, grant, lapsed>>

RevokeSession(t) ==
    /\ lstep[t] = "revoke"
    /\ \/ sessions' = Without(sessions, sid[t])
       \/ LoginFails /\ UNCHANGED sessions
    /\ lstep' = [lstep EXCEPT ![t] = "clear"]
    /\ UNCHANGED <<tokenVars, page, want, taken, typed, sid, stale, cookie, grant, lapsed>>

ClearCookie(t) ==
    /\ lstep[t] = "clear"
    /\ cookie' = NoSession
    /\ Finish(t)
    /\ UNCHANGED <<tokenVars, page, want, sessions, grant, lapsed>>

-----------------------------------------------------------------------------
(* The user opens the same form in another tab.                            *)
DuplicateTab(t, o) ==
    /\ lstep[t] = "idle" /\ page[t] = Blank /\ page[o] # Blank
    /\ page' = [page EXCEPT ![t] = page[o]]
    /\ want' = [want EXCEPT ![t] = want[o]]
    /\ taken' = [taken EXCEPT ![t] = <<NoToken, want[o]>>]
    /\ grant' = [grant EXCEPT ![t] = <<>>]
    /\ lapsed' = IF o \in lapsed THEN lapsed \cup {t} ELSE lapsed \ {t}
    /\ UNCHANGED <<tokenVars, lstep, typed, sid, stale, sessionVars>>

LapseContinuation(k) ==
    /\ LoginExpires /\ k \in DOMAIN pending
    /\ pending' = Without(pending, k)
    /\ UNCHANGED <<restarts, page, want, handlerVars, sessionVars, grant, lapsed>>

LapseRestart(k) ==
    /\ LoginExpires /\ k \in DOMAIN restarts
    /\ restarts' = Without(restarts, k)
    /\ lapsed' = lapsed \cup {t \in Tabs : page[t][2] = k}
    /\ UNCHANGED <<pending, page, want, handlerVars, sessionVars, grant>>

ExpireSession(s) ==
    /\ LoginExpires /\ s \in DOMAIN sessions
    /\ sessions' = Without(sessions, s)
    /\ UNCHANGED <<tokenVars, page, want, handlerVars, cookie, grant, lapsed>>

(* Both stores live in the process; rows and the browser's pages do not.   *)
RestartDaemon ==
    /\ LoginRestarts
    /\ pending' = <<>> /\ restarts' = <<>>
    /\ lstep' = [t \in Tabs |-> "idle"]
    /\ taken' = [t \in Tabs |-> <<NoToken, want[t]>>]
    /\ typed' = [t \in Tabs |-> NoOne]
    /\ sid' = [t \in Tabs |-> NoSession]
    /\ stale' = [t \in Tabs |-> FALSE]
    /\ lapsed' = lapsed \cup {t \in Tabs : page[t] # Blank}
    /\ UNCHANGED <<page, want, sessionVars, grant>>

Submit(t) == SubmitTakes(t) \/ SubmitRestarts(t) \/ SubmitDeadEnds(t)
Handle(t) ==
    \/ LookupFound(t) \/ LookupMissing(t) \/ IssueForSession(t) \/ IssueForSessionFails(t)
    \/ VerifyRejects(t) \/ (\E u \in Accounts : VerifyAccepts(t, u))
    \/ IssueCodeOk(t) \/ IssueCodeFails(t)
    \/ (\E s \in SessionIds : OpenSession(t, s)) \/ OpenSessionFails(t)
    \/ RevokeSession(t) \/ ClearCookie(t)

NextLogin ==
    \/ \E t \in Tabs : Submit(t) \/ Handle(t) \/ Logout(t) \/ Reopen(t) \/ ReopenFails(t)
    \/ \E t \in Tabs, q \in AuthRequests : AuthorizeWithCookie(t, q) \/ AuthorizeWithoutCookie(t, q)
    \/ \E t, o \in Tabs : DuplicateTab(t, o)
    \/ \E k \in LoginTokens : LapseContinuation(k) \/ LapseRestart(k)
    \/ \E s \in SessionIds : ExpireSession(s)
    \/ RestartDaemon

SpecLogin == InitLogin /\ [][NextLogin]_loginVars

-----------------------------------------------------------------------------
(* The comment on take ("single-use, same principle as auth codes"): one   *)
(* submission of a form gets past the continuation, and a continuation     *)
(* that led to a code never leads to another, whoever resubmits the form.  *)
ContinuationSpentOnce ==
    /\ \A t \in Tabs : lstep[t] \in {"verify", "issue", "session"} => taken[t][1] \notin DOMAIN pending
    /\ \A t, o \in Tabs : /\ t # o
                           /\ {lstep[t], lstep[o]} \subseteq {"verify", "issue", "session"}
                           => taken[t][1] # taken[o][1]

(* Whatever the mix of retries, restarts, double submissions and sessions, *)
(* a tab's code is for the authorize request that tab set out with.        *)
CodeForWantedRequest == \A t \in Tabs : grant[t] # <<>> => grant[t][1] = want[t]

(* A form can be resumed as long as its restart token has not lapsed: the  *)
(* token every form carries is the one /authorize stored, through every    *)
(* retry and restart of the form.                                          *)
FormsAreResumable == \A t \in Tabs :
    page[t] # Blank => \/ t \in lapsed
                       \/ page[t][2] \in DOMAIN restarts /\ restarts[page[t][2]] = want[t]

(* Logout: a session that had been revoked or had expired when /authorize  *)
(* was called does not let that call skip the login form.                  *)
NoCodeFromDeadSession == \A t \in Tabs : lstep[t] = "reissue" => ~stale[t]

(* Fairness, asked of one tab only (tabs are interchangeable): handlers    *)
(* run to their end; a user on a form goes on submitting, now and then     *)
(* within the five minutes and with the right password, and the identity   *)
(* store does not refuse codes for ever.                                   *)
ATab == CHOOSE t \in Tabs : TRUE
FairLogin ==
    /\ WF_loginVars(Submit(ATab) \/ Handle(ATab))
    /\ SF_loginVars(SubmitTakes(ATab))
    /\ SF_loginVars(\E u \in Accounts : VerifyAccepts(ATab, u))
    /\ SF_loginVars(IssueCodeOk(ATab))

(* A sign-in ends: whatever the other tabs do, the form is left with a     *)
(* code, or with the page that says its restart token is gone; no loop of  *)
(* retries holds a user for ever (the redirect after a lapsed POST is      *)
(* there to break one).                                                    *)
SignInEnds ==
    page[ATab] # Blank ~> (page[ATab] = Blank /\ (grant[ATab] # <<>> \/ ATab \in lapsed))

(* PendingAuthorizeStore is a store of single-use handles.                 *)
Continuations == INSTANCE OneTimeStore WITH
    Handles <- LoginTokens, Callers <- Tabs, Atomic <- TRUE,
    live <- DOMAIN pending,
    inside <- {e \in Tabs \X LoginTokens :
                  lstep[e[1]] \in {"verify", "issue"} /\ taken[e[1]][1] = e[2]}

(* take and store implement the atomic single-use store.                   *)
ContinuationsAreOneTime == Continuations!StoreSpec

(* The login form of the OIDC provider, through other tabs, double         *)
(* submissions, wrong passwords, expiries, logouts and restarts: one       *)
(* submission gets past a continuation, a tab's code is for the request it *)
(* set out with, every form can be resumed until its restart token lapses, *)
(* a session that was dead when /authorize was called skips no form, and   *)
(* continuations are single-use handles.                                   *)
SignInsAreSound ==
    /\ [](/\ TypeOKLogin
          /\ ContinuationSpentOnce
          /\ CodeForWantedRequest
          /\ FormsAreResumable
          /\ NoCodeFromDeadSession)
    /\ ContinuationsAreOneTime
=============================================================================
