-------------------------- MODULE OidcTokensProofs --------------------------
(***************************************************************************)
(* Single use and reuse detection of the token endpoint, for any number of *)
(* threads, codes and tokens and any limit of revokeFamily's list call.    *)
(***************************************************************************)
EXTENDS OidcTokens, TLAPS

USE TokensAssumption DEF Tokens, Issued

(* A request that returns leaves well-typed locals behind.                 *)
LEMMA ReturnTyped ==
    ASSUME TypeOK, NEW p \in Procs, Return(p)
    PROVE  /\ pc' \in [Procs -> Steps]
           /\ code' \in [Procs -> Codes]
           /\ tok' \in [Procs -> 0 .. MaxTokens]
           /\ good' \in [Procs -> SUBSET Checks]
           /\ todo' \in [Procs -> SUBSET Issued]
           /\ lossy' \in [Procs -> BOOLEAN]
           /\ outrun' \subseteq Procs
           /\ \A q \in Procs : pc'[q] \in OnToken =>
                 q # p /\ pc[q] \in OnToken /\ tok'[q] = tok[q]
<1>1. AnyCode \in Codes
  BY DEF AnyCode
<1>2. lossy' \in [Procs -> BOOLEAN]
  BY DEF Return, TypeOK
<1> QED BY <1>1, <1>2 DEF Return, TypeOK, Steps, OnToken

(* A created row extends the table by one.                                 *)
LEMMA NewTokenTyped ==
    ASSUME TypeOK, NEW f \in 0 .. MaxTokens, NEW from \in 0 .. MaxTokens,
           NEW c \in Codes, NewToken(f, from, c)
    PROVE  /\ issued' \in 0 .. MaxTokens /\ issued' = issued + 1
           /\ family' \in [Tokens -> 0 .. MaxTokens]
           /\ parent' \in [Tokens -> 0 .. MaxTokens]
           /\ origin' \in [Tokens -> Codes]
           /\ Issued' = Issued \cup {issued'}
           /\ issued' \in Tokens /\ issued' \notin Issued
           /\ \A t \in Issued : /\ family'[t] = family[t]
                                /\ parent'[t] = parent[t]
                                /\ origin'[t] = origin[t]
           /\ family'[issued'] = IF f = 0 THEN issued' ELSE f
           /\ parent'[issued'] = from
           /\ origin'[issued'] = c
           /\ UNCHANGED <<revoked, tokenExpired>>
<1>1. issued' \in Tokens /\ issued' = issued + 1
  BY DEF NewToken, TypeOK
<1> QED BY <1>1 DEF NewToken, TypeOK

(* A request that creates a token and returns keeps everything typed.      *)
LEMMA CreateTyped ==
    ASSUME TypeOK, NEW p \in Procs, Return(p),
           NEW f \in 0 .. MaxTokens, NEW from \in 0 .. MaxTokens, NEW c \in Codes,
           NewToken(f, from, c),
           UNCHANGED <<codes, claims, killed>>,
           escaped' \subseteq Issued \cup {issued'}
    PROVE  TypeOK'
<1> DEFINE n == issued'
<1>2. /\ n \in 0 .. MaxTokens
      /\ family' \in [Tokens -> 0 .. MaxTokens]
      /\ parent' \in [Tokens -> 0 .. MaxTokens]
      /\ origin' \in [Tokens -> Codes]
      /\ Issued' = Issued \cup {n}
      /\ UNCHANGED <<revoked, tokenExpired>>
  BY NewTokenTyped
<1>3. /\ pc' \in [Procs -> Steps]
      /\ code' \in [Procs -> Codes]
      /\ tok' \in [Procs -> 0 .. MaxTokens]
      /\ good' \in [Procs -> SUBSET Checks]
      /\ todo' \in [Procs -> SUBSET Issued]
      /\ lossy' \in [Procs -> BOOLEAN]
      /\ outrun' \subseteq Procs
      /\ \A q \in Procs : pc'[q] \in OnToken => pc[q] \in OnToken /\ tok'[q] = tok[q]
  BY ReturnTyped
<1> HIDE DEF Issued, n
<1>5. \A q \in Procs : pc'[q] \in OnToken => tok'[q] \in Issued'
  BY <1>2, <1>3 DEF TypeOK
<1>6. todo' \in [Procs -> SUBSET Issued']
  BY <1>2, <1>3
<1>7. /\ revoked' \subseteq Issued' /\ tokenExpired' \subseteq Issued'
      /\ killed' \subseteq 0 .. MaxTokens
      /\ escaped' \subseteq Issued'
  BY <1>2 DEF TypeOK, n
<1>8. /\ codeState' \in [Codes -> {"unissued", "live", "consumed"}]
      /\ codeExpired' \subseteq Codes
      /\ wonCode' \subseteq Codes \X Procs
  BY DEF TypeOK, codes, claims
<1>9. wonToken' \subseteq Issued' \X Procs
  BY <1>2 DEF TypeOK, claims
<1> QED BY <1>2, <1>3, <1>5, <1>6, <1>7, <1>8, <1>9 DEF TypeOK, n

(* Rows, requests and histories stay well-typed.                           *)
LEMMA TypeStep == TypeOK /\ [Next]_vars => TypeOK'
<1> SUFFICES ASSUME TypeOK, [Next]_vars PROVE TypeOK'
  OBVIOUS
<1> USE DEF TypeOK, codes, tokens, inputs, claims, purge
<1>1. ASSUME NEW p \in Procs, Begin(p) PROVE TypeOK'
  <2>1. ASSUME NEW c \in Codes, NEW right \in SUBSET Checks, StartExchange(p, c, right)
        PROVE TypeOK'
    BY <2>1 DEF StartExchange, Goto, Steps, OnToken
  <2>2. ASSUME NEW t \in Tokens, NEW right \in SUBSET {"client"}, StartRefresh(p, t, right)
        PROVE TypeOK'
    <3>1. right \in SUBSET Checks
      BY DEF Checks
    <3>2. /\ tok' \in [Procs -> 0 .. MaxTokens] /\ pc' \in [Procs -> Steps] /\ good' \in [Procs -> SUBSET Checks]
          /\ \A q \in Procs : pc'[q] \in OnToken => pc[q] \in OnToken /\ tok'[q] = tok[q]
      BY <2>2, <3>1 DEF StartRefresh, Goto, Steps, OnToken, Tokens
    <3> QED BY <2>2, <3>2 DEF StartRefresh
  <2>3. ASSUME NEW t \in Tokens, StartRevoke(p, t) PROVE TypeOK'
    <3>2. /\ tok' \in [Procs -> 0 .. MaxTokens] /\ pc' \in [Procs -> Steps] /\ good' \in [Procs -> SUBSET Checks]
          /\ \A q \in Procs : pc'[q] \in OnToken => pc[q] \in OnToken /\ tok'[q] = tok[q]
      BY <2>3 DEF StartRevoke, Goto, Steps, OnToken, Tokens
    <3> QED BY <2>3, <3>2 DEF StartRevoke
  <2> QED BY <1>1, <2>1, <2>2, <2>3 DEF Begin
<1>2. ASSUME NEW p \in Procs, Continue(p) PROVE TypeOK'
  <2>0. CASE ListFamilyFails(p)
    BY <2>0, ReturnTyped DEF ListFamilyFails
  <2>1. CASE CallFails(p)
    BY <2>1, ReturnTyped DEF CallFails
  <2>2. CASE RefuseCode(p)
    BY <2>2, ReturnTyped DEF RefuseCode
  <2>3. CASE AcceptCode(p)
    BY <2>3 DEF AcceptCode, Goto, Steps, OnToken
  <2>4. CASE ConsumeCode(p)
    <3>1. codeState' \in [Codes -> {"unissued", "live", "consumed"}]
      BY <2>4 DEF ConsumeCode
    <3>2. CASE Return(p)
      BY <2>4, <3>1, <3>2, ReturnTyped DEF ConsumeCode
    <3>3. CASE Goto(p, "session") /\ UNCHANGED <<inputs, todo, lossy, outrun>>
      BY <2>4, <3>1, <3>3 DEF ConsumeCode, Goto, Steps, OnToken
    <3> QED BY <2>4, <3>2, <3>3 DEF ConsumeCode
  <2>5. CASE GrantAccess(p)
    <3>1. wonCode' \subseteq Codes \X Procs
      BY <2>5 DEF GrantAccess
    <3>2. CASE Return(p)
      BY <2>5, <3>1, <3>2, ReturnTyped DEF GrantAccess
    <3>3. CASE Goto(p, "issueFirst") /\ UNCHANGED <<inputs, todo, lossy, outrun>>
      BY <2>5, <3>1, <3>3 DEF GrantAccess, Goto, Steps, OnToken
    <3> QED BY <2>5, <3>2, <3>3 DEF GrantAccess
  <2>6. CASE IssueFirst(p)
    <3>1. NewToken(0, 0, code[p]) /\ Return(p) /\ UNCHANGED <<codes, claims, killed, escaped>>
      BY <2>6 DEF IssueFirst
    <3>2. /\ code[p] \in Codes /\ 0 \in 0 .. MaxTokens
          /\ escaped' \subseteq Issued \cup {issued'}
      BY <3>1
    <3> HIDE DEF TypeOK, Issued
    <3>3. TypeOK /\ p \in Procs
      OBVIOUS
    <3> QED BY <3>1, <3>2, <3>3, CreateTyped
  <2>7. CASE RefuseToken(p)
    BY <2>7, ReturnTyped DEF RefuseToken
  <2>8. CASE DetectReuse(p)
    BY <2>8 DEF DetectReuse, Goto, Steps, OnToken
  <2>9. CASE AcceptToken(p)
    BY <2>9 DEF AcceptToken, Goto, Steps, OnToken, Live
  <2>10. CASE ConsumeToken(p)
    BY <2>10 DEF ConsumeToken, Goto, Steps, OnToken
  <2>11. CASE SignTokens(p)
    <3>1. tok[p] \in Issued
      BY <2>11 DEF SignTokens, OnToken
    <3>2. wonToken' \subseteq Issued \X Procs
      BY <2>11, <3>1 DEF SignTokens
    <3> QED BY <2>11, <3>1, <3>2 DEF SignTokens, Goto, Steps, OnToken
  <2>12. CASE IssueNext(p)
    <3>1. tok[p] \in Issued
      BY <2>12 DEF IssueNext, OnToken
    <3>2. escaped' \subseteq Issued \cup {issued'}
      BY <2>12 DEF IssueNext
    <3>3. NewToken(family[tok[p]], tok[p], origin[tok[p]]) /\ Return(p)
          /\ UNCHANGED <<codes, claims, killed>>
      BY <2>12 DEF IssueNext
    <3>4. /\ family[tok[p]] \in 0 .. MaxTokens /\ tok[p] \in 0 .. MaxTokens
          /\ origin[tok[p]] \in Codes
      BY <3>1
    <3> HIDE DEF TypeOK, Issued
    <3>5. TypeOK /\ p \in Procs
      OBVIOUS
    <3> QED BY <3>2, <3>3, <3>4, <3>5, CreateTyped
  <2>13. CASE ListFamily(p)
    <3>1. todo' \in [Procs -> SUBSET Issued] /\ lossy' \in [Procs -> BOOLEAN]
      BY <2>13 DEF ListFamily, Family
    <3> QED BY <2>13, <3>1 DEF ListFamily, Goto, Steps, OnToken
  <2>14. CASE RevokeFamilyDone(p)
    <3>1. tok[p] \in Issued
      BY <2>14 DEF RevokeFamilyDone, OnToken
    <3>2. /\ killed' \subseteq 0 .. MaxTokens
          /\ outrun' \subseteq Procs
      <4>1. family[tok[p]] \in 0 .. MaxTokens
        BY <3>1
      <4>3. \/ UNCHANGED <<killed, outrun>>
            \/ killed' = killed \cup {family[tok[p]]} /\ outrun' = outrun \cup Holders(family[tok[p]])
        BY <2>14 DEF RevokeFamilyDone
      <4>4. Holders(family[tok[p]]) \subseteq Procs
        BY DEF Holders
      <4> QED BY <4>1, <4>3, <4>4
    <3>3. lossy' \in [Procs -> BOOLEAN]
      BY <2>14 DEF RevokeFamilyDone
    <3>4. /\ pc' \in [Procs -> Steps]
          /\ tok' \in [Procs -> 0 .. MaxTokens]
          /\ good' \in [Procs -> SUBSET Checks]
          /\ \A q \in Procs : pc'[q] \in OnToken => tok'[q] \in Issued
      BY <2>14 DEF RevokeFamilyDone, Steps, OnToken
    <3> QED BY <2>14, <3>2, <3>3, <3>4 DEF RevokeFamilyDone
  <2>15. ASSUME NEW t \in Tokens, RevokeRow(p, t) PROVE TypeOK'
    BY <2>15 DEF RevokeRow
  <2>16. ASSUME NEW t \in Tokens, RevokeRowFails(p, t) PROVE TypeOK'
    BY <2>16 DEF RevokeRowFails
  <2>17. CASE NothingToRevoke(p)
    BY <2>17, ReturnTyped DEF NothingToRevoke
  <2>18. CASE FoundLive(p)
    BY <2>18 DEF FoundLive, Goto, Steps, OnToken, Live
  <2>19. CASE RevokeOne(p)
    <3>1. tok[p] \in Issued
      BY <2>19 DEF RevokeOne, OnToken
    <3> QED BY <2>19, <3>1, ReturnTyped DEF RevokeOne
  <2> QED BY <1>2, <2>0, <2>1, <2>2, <2>3, <2>4, <2>5, <2>6, <2>7, <2>8, <2>9, <2>10, <2>11,
             <2>12, <2>13, <2>14, <2>15, <2>16, <2>17, <2>18, <2>19 DEF Continue
<1>3. ASSUME NEW c \in Codes, IssueCode(c) \/ ExpireCode(c) PROVE TypeOK'
  <2>1. codeState' \in [Codes -> {"unissued", "live", "consumed"}] /\ codeExpired' \subseteq Codes
    BY <1>3 DEF IssueCode, ExpireCode
  <2>2. UNCHANGED <<tokens, pc, inputs, todo, lossy, claims, purge>>
    BY <1>3 DEF IssueCode, ExpireCode
  <2> QED BY <2>1, <2>2
<1>4. ASSUME NEW t \in Tokens, ExpireToken(t) PROVE TypeOK'
  BY <1>4 DEF ExpireToken
<1>5. CASE UNCHANGED vars
  BY <1>5 DEF vars
<1> QED BY <1>1, <1>2, <1>3, <1>4, <1>5 DEF Next
(* The token endpoint never leaves the types of its rows and requests.     *)
THEOREM Typing == Spec => []TypeOK
<1>1. Init => TypeOK
  <2> SUFFICES ASSUME Init PROVE TypeOK
    OBVIOUS
  <2>1. AnyCode \in Codes
    BY DEF AnyCode
  <2>2. lossy \in [Procs -> BOOLEAN]
    BY DEF Init
  <2> QED BY <2>1, <2>2 DEF Init, TypeOK, Steps, OnToken
<1> QED BY <1>1, TypeStep, PTL DEF Spec
-----------------------------------------------------------------------------
(* When p returns, no other request is disturbed.                          *)
LEMMA ReturnFrame ==
    ASSUME TypeOK, NEW p \in Procs, Return(p), NEW q \in Procs, pc'[q] # "idle"
    PROVE  /\ q # p
           /\ pc'[q] = pc[q] /\ tok'[q] = tok[q] /\ code'[q] = code[q]
           /\ todo'[q] = todo[q] /\ lossy'[q] = lossy[q]
           /\ q \in outrun => q \in outrun'
BY DEF Return, TypeOK

(***************************************************************************)
(* LiveTokensAreLeaves needs to know that a rotation which is about to     *)
(* issue a successor has revoked its token, and that families and parents  *)
(* are rows.                                                               *)
(***************************************************************************)
Lineage ==
    /\ \A t \in Issued : family[t] \in Issued
    /\ \A t \in Issued : parent[t] # 0 => parent[t] \in Issued
    /\ LiveTokensAreLeaves
    /\ \A p \in Procs : pc[p] \in {"sign", "issueNext"} => tok[p] \in revoked

(* Every step keeps live tokens leaves of their families.                  *)
LEMMA LineageStep == TypeOK /\ Lineage /\ [Next]_vars => Lineage'
<1> SUFFICES ASSUME TypeOK, Lineage, [Next]_vars PROVE Lineage'
  OBVIOUS
<1>1. ASSUME UNCHANGED <<issued, family, parent, origin>>, revoked \subseteq revoked',
             \A q \in Procs : pc'[q] \in {"sign", "issueNext"} => tok'[q] \in revoked'
      PROVE  Lineage'
  BY <1>1 DEF Lineage, LiveTokensAreLeaves
<1>2. ASSUME NEW p \in Procs, Return(p), UNCHANGED <<issued, family, parent, origin>>,
             revoked \subseteq revoked'
      PROVE  Lineage'
  <2>1. \A q \in Procs : pc'[q] \in {"sign", "issueNext"} => tok'[q] \in revoked'
    BY <1>2, ReturnFrame DEF Lineage
  <2> QED BY <1>1, <1>2, <2>1
<1>3. ASSUME NEW p \in Procs, NEW step \in Steps \ {"sign", "issueNext"}, Goto(p, step),
             \A q \in Procs : q # p => tok'[q] = tok[q],
             UNCHANGED <<issued, family, parent, origin, revoked>>
      PROVE  Lineage'
  <2>1. \A q \in Procs : pc'[q] \in {"sign", "issueNext"} => tok'[q] \in revoked'
    BY <1>3 DEF Lineage, Goto, TypeOK
  <2> QED BY <1>1, <1>3, <2>1
<1>4. ASSUME NEW p \in Procs, Return(p), NEW f \in Issued \cup {0}, NEW from \in 0 .. MaxTokens,
             NEW c \in Codes, NewToken(f, from, c),
             from # 0 => from \in revoked /\ f = family[from] /\ c = origin[from]
      PROVE  Lineage'
  <2>1. f \in 0 .. MaxTokens
    BY DEF TypeOK
  <2> DEFINE n == issued'
  <2>2. /\ Issued' = Issued \cup {n} /\ n \notin Issued /\ n \in Tokens
        /\ \A t \in Issued : /\ family'[t] = family[t] /\ parent'[t] = parent[t]
                             /\ origin'[t] = origin[t]
        /\ family'[n] = IF f = 0 THEN n ELSE f
        /\ parent'[n] = from /\ origin'[n] = c
        /\ revoked' = revoked
    BY <1>4, <2>1, NewTokenTyped
  <2>3. \A q \in Procs : pc'[q] \in {"sign", "issueNext"} => tok'[q] \in revoked'
    BY <1>4, <2>2, ReturnFrame DEF Lineage
  <2>4. revoked \subseteq Issued /\ 0 \notin Issued
    BY DEF TypeOK
  <2> HIDE DEF Issued, n
  <2>5. \A t \in Issued' : family'[t] \in Issued'
    BY <1>4, <2>2 DEF Lineage
  <2>6. \A t \in Issued' : parent'[t] # 0 => parent'[t] \in Issued'
    BY <1>4, <2>2, <2>4 DEF Lineage
  <2>7. ASSUME NEW t \in Issued', parent'[t] # 0
        PROVE  /\ parent'[t] \in revoked'
               /\ family'[t] = family'[parent'[t]]
               /\ origin'[t] = origin'[parent'[t]]
    <3>1. CASE t = n
      <4>1. from \in revoked /\ f = family[from]
        BY <1>4, <2>2, <2>7, <3>1
      <4>2. from \in Issued /\ f # 0
        BY <2>4, <4>1 DEF Lineage
      <4> QED BY <1>4, <2>2, <2>7, <3>1, <4>2
    <3>2. CASE t \in Issued
      BY <2>2, <2>7, <3>2 DEF Lineage, LiveTokensAreLeaves
    <3> QED BY <2>2, <2>7, <3>1, <3>2
  <2> QED BY <2>3, <2>5, <2>6, <2>7 DEF Lineage, LiveTokensAreLeaves
<1>5. ASSUME NEW p \in Procs, Begin(p) PROVE Lineage'
  BY <1>3, <1>5 DEF Begin, StartExchange, StartRefresh, StartRevoke, Steps, tokens, TypeOK
<1>6. ASSUME NEW p \in Procs, Continue(p) PROVE Lineage'
  <2>1. CASE CallFails(p) \/ ListFamilyFails(p) \/ RefuseCode(p)
             \/ RefuseToken(p) \/ NothingToRevoke(p) \/ RevokeOne(p)
    BY <1>2, <2>1 DEF CallFails, ListFamilyFails, RefuseCode, RefuseToken,
       NothingToRevoke, RevokeOne, tokens
  <2>2. CASE AcceptCode(p) \/ DetectReuse(p) \/ AcceptToken(p) \/ FoundLive(p) \/ ListFamily(p)
    BY <1>3, <2>2 DEF AcceptCode, DetectReuse, AcceptToken, FoundLive, ListFamily, Steps, tokens, inputs
  <2>3. CASE ConsumeCode(p) \/ GrantAccess(p)
    BY <1>2, <1>3, <2>3 DEF ConsumeCode, GrantAccess, Steps, tokens, inputs
  <2>4. CASE IssueFirst(p)
    <3>1. code[p] \in Codes /\ 0 \in 0 .. MaxTokens /\ 0 \in Issued \cup {0}
      BY DEF TypeOK
    <3> QED BY <1>4, <2>4, <3>1 DEF IssueFirst
  <2>5. CASE ConsumeToken(p) \/ SignTokens(p)
    <3>1. \A q \in Procs : pc'[q] \in {"sign", "issueNext"} => tok'[q] \in revoked'
      BY <2>5 DEF ConsumeToken, SignTokens, Goto, inputs, tokens, Lineage, TypeOK
    <3> QED BY <1>1, <2>5, <3>1 DEF ConsumeToken, SignTokens, tokens
  <2>6. CASE IssueNext(p)
    <3>1. tok[p] \in Issued /\ tok[p] \in revoked
      BY <2>6 DEF IssueNext, OnToken, TypeOK, Lineage
    <3>2. tok[p] \in 0 .. MaxTokens /\ family[tok[p]] \in Issued /\ origin[tok[p]] \in Codes
      BY <3>1 DEF TypeOK, Lineage
    <3> QED BY <1>4, <2>6, <3>1, <3>2 DEF IssueNext
  <2>7. CASE RevokeFamilyDone(p)
    <3>1. \A q \in Procs : pc'[q] \in {"sign", "issueNext"} => tok'[q] \in revoked'
      BY <2>7 DEF RevokeFamilyDone, tokens, Lineage, TypeOK
    <3> QED BY <1>1, <2>7, <3>1 DEF RevokeFamilyDone, tokens
  <2>8. ASSUME NEW t \in Tokens, RevokeRow(p, t) \/ RevokeRowFails(p, t) PROVE Lineage'
    BY <1>1, <2>8 DEF RevokeRow, RevokeRowFails, tokens, inputs, Lineage
  <2> QED BY <1>6, <2>1, <2>2, <2>3, <2>4, <2>5, <2>6, <2>7, <2>8 DEF Continue
<1>7. ASSUME NEW c \in Codes, IssueCode(c) \/ ExpireCode(c) PROVE Lineage'
  BY <1>1, <1>7 DEF IssueCode, ExpireCode, tokens, inputs, Lineage
<1>8. ASSUME NEW t \in Tokens, ExpireToken(t) PROVE Lineage'
  BY <1>1, <1>8 DEF ExpireToken, inputs, Lineage
<1>9. CASE UNCHANGED vars
  BY <1>1, <1>9 DEF vars, tokens, inputs, Lineage
<1> QED BY <1>5, <1>6, <1>7, <1>8, <1>9 DEF Next

(* Whatever requests run concurrently, a refresh token that has a          *)
(* successor is revoked, and the successor carries its family, user and    *)
(* scope.                                                                  *)
THEOREM OnlyLeavesLive == Spec => []LiveTokensAreLeaves
<1>1. Init => Lineage
  BY DEF Init, Lineage, LiveTokensAreLeaves
<1>2. Lineage => LiveTokensAreLeaves
  BY DEF Lineage
<1> QED BY <1>1, <1>2, Typing, LineageStep, PTL DEF Spec
-----------------------------------------------------------------------------
(***************************************************************************)
(* SingleUsePerThread: what a thread has won is consumed, so its next      *)
(* attempt is refused when the row is read.  A thread that is past the     *)
(* update of its row has consumed it: Spent for codes, Lineage for tokens. *)
(***************************************************************************)
Spent == \A p \in Procs : pc[p] = "session" => codeState[code[p]] = "consumed"

SingleUse ==
    /\ \A c \in Codes, p \in Procs : <<c, p>> \in wonCode => codeState[c] = "consumed"
    /\ \A t \in Issued, p \in Procs : <<t, p>> \in wonToken => t \in revoked
    /\ \A p \in Procs :
          /\ pc[p] \in {"consumeCode", "session"} => <<code[p], p>> \notin wonCode
          /\ pc[p] \in {"consumeToken", "sign"} => <<tok[p], p>> \notin wonToken

(* A consumed code stays consumed.                                         *)
LEMMA CodeStateStep ==
    ASSUME TypeOK, [Next]_vars, NEW c \in Codes, codeState[c] = "consumed"
    PROVE  codeState'[c] = "consumed"
<1>1. CASE UNCHANGED codeState
  BY <1>1
<1>2. ASSUME NEW d \in Codes, IssueCode(d) PROVE codeState'[c] = "consumed"
  BY <1>2 DEF IssueCode, TypeOK
<1>3. ASSUME NEW p \in Procs, ConsumeCode(p) PROVE codeState'[c] = "consumed"
  BY <1>3 DEF ConsumeCode, TypeOK
<1>4. ASSUME NEW p \in Procs, Begin(p) PROVE UNCHANGED codeState
  BY <1>4 DEF Begin, StartExchange, StartRefresh, StartRevoke, codes
<1>5. ASSUME NEW p \in Procs, Continue(p), ~ConsumeCode(p) PROVE UNCHANGED codeState
  BY <1>5 DEF Continue, CallFails, ListFamilyFails, RefuseCode, AcceptCode, GrantAccess, IssueFirst, RefuseToken,
     DetectReuse, AcceptToken, ConsumeToken, SignTokens, IssueNext, ListFamily, RevokeFamilyDone,
     RevokeRow, RevokeRowFails, NothingToRevoke, FoundLive, RevokeOne, codes
<1>6. ASSUME NEW d \in Codes, ExpireCode(d) PROVE UNCHANGED codeState
  BY <1>6 DEF ExpireCode
<1>7. ASSUME NEW t \in Tokens, ExpireToken(t) PROVE UNCHANGED codeState
  BY <1>7 DEF ExpireToken, codes
<1>8. CASE UNCHANGED vars
  BY <1>1, <1>8 DEF vars, codes
<1> QED BY <1>1, <1>2, <1>3, <1>4, <1>5, <1>6, <1>7, <1>8 DEF Next

(* Every step keeps spent codes and tokens spent.                          *)
LEMMA SpentStep == TypeOK /\ Spent /\ [Next]_vars => Spent'
<1> SUFFICES ASSUME TypeOK, Spent, [Next]_vars PROVE Spent'
  OBVIOUS
<1> DEFINE Same(q) == pc'[q] = "session" => pc[q] = "session" /\ code'[q] = code[q]
<1>1. ASSUME \A q \in Procs : Same(q) PROVE Spent'
  BY <1>1, CodeStateStep DEF Spent, TypeOK
<1>2. ASSUME NEW p \in Procs, Return(p) PROVE \A q \in Procs : Same(q)
  BY <1>2, ReturnFrame
<1>3. ASSUME NEW p \in Procs, NEW step \in Steps \ {"session"}, Goto(p, step),
             \A q \in Procs : q # p => code'[q] = code[q]
      PROVE  \A q \in Procs : Same(q)
  BY <1>3 DEF Goto, TypeOK
<1>4. ASSUME NEW p \in Procs, Begin(p) PROVE Spent'
  BY <1>1, <1>3, <1>4 DEF Begin, StartExchange, StartRefresh, StartRevoke, Steps, TypeOK
<1>5. ASSUME NEW p \in Procs, Continue(p) PROVE Spent'
  <2>1. CASE CallFails(p) \/ ListFamilyFails(p) \/ RefuseCode(p) \/ RefuseToken(p) \/ NothingToRevoke(p)
             \/ RevokeOne(p) \/ IssueFirst(p) \/ IssueNext(p)
    BY <1>1, <1>2, <2>1 DEF CallFails, ListFamilyFails, RefuseCode, RefuseToken, NothingToRevoke, RevokeOne,
       IssueFirst, IssueNext
  <2>2. CASE AcceptCode(p) \/ DetectReuse(p) \/ AcceptToken(p) \/ FoundLive(p) \/ ListFamily(p)
             \/ ConsumeToken(p) \/ SignTokens(p)
    BY <1>1, <1>3, <2>2 DEF AcceptCode, DetectReuse, AcceptToken, FoundLive, ListFamily,
       ConsumeToken, SignTokens, Steps, inputs
  <2>3. CASE ConsumeCode(p)
    <3>1. CASE Return(p)
      BY <1>1, <1>2, <3>1
    <3>2. CASE Goto(p, "session") /\ UNCHANGED <<inputs, todo, lossy, outrun>>
      <4>1. codeState'[code'[p]] = "consumed"
        BY <2>3, <3>2 DEF ConsumeCode, inputs, TypeOK
      <4>2. \A q \in Procs : q # p => Same(q)
        BY <3>2 DEF Goto, inputs, TypeOK
      <4> QED BY <4>1, <4>2, CodeStateStep DEF Spent, TypeOK
    <3> QED BY <2>3, <3>1, <3>2 DEF ConsumeCode
  <2>4. CASE GrantAccess(p)
    BY <1>1, <1>2, <1>3, <2>4 DEF GrantAccess, Steps, inputs
  <2>5. CASE RevokeFamilyDone(p)
    <3>1. \A q \in Procs : Same(q)
      BY <2>5 DEF RevokeFamilyDone, TypeOK
    <3> QED BY <1>1, <3>1
  <2>6. ASSUME NEW t \in Tokens, RevokeRow(p, t) \/ RevokeRowFails(p, t) PROVE Spent'
    BY <1>1, <2>6 DEF RevokeRow, RevokeRowFails, inputs
  <2> QED BY <1>5, <2>1, <2>2, <2>3, <2>4, <2>5, <2>6 DEF Continue
<1>6. ASSUME NEW c \in Codes, IssueCode(c) \/ ExpireCode(c) PROVE Spent'
  BY <1>1, <1>6 DEF IssueCode, ExpireCode, inputs
<1>7. ASSUME NEW t \in Tokens, ExpireToken(t) PROVE Spent'
  BY <1>1, <1>7 DEF ExpireToken, inputs
<1>8. CASE UNCHANGED vars
  BY <1>1, <1>8 DEF vars, inputs
<1> QED BY <1>4, <1>5, <1>6, <1>7, <1>8 DEF Next

(* Every step keeps codes and tokens single-use.                           *)
LEMMA SingleUseStep ==
    TypeOK /\ Lineage /\ Spent /\ SingleUse /\ [Next]_vars => SingleUse'
<1> SUFFICES ASSUME TypeOK, Lineage, Spent, SingleUse, [Next]_vars PROVE SingleUse'
  OBVIOUS
<1> DEFINE CodeStep == {"consumeCode", "session"}
           TokenStep == {"consumeToken", "sign"}
           Same(q) == /\ pc'[q] \in CodeStep => pc[q] \in CodeStep /\ code'[q] = code[q]
                      /\ pc'[q] \in TokenStep => pc[q] \in TokenStep /\ tok'[q] = tok[q]
           Consumed == \A c \in Codes : codeState[c] = "consumed" => codeState'[c] = "consumed"
<1>0. wonToken \subseteq Issued \X Procs
  BY DEF TypeOK
<1>1. ASSUME UNCHANGED <<wonCode, wonToken>>, Consumed, revoked \subseteq revoked',
             \A q \in Procs : Same(q)
      PROVE  SingleUse'
  <2>1. \A c \in Codes, p \in Procs : <<c, p>> \in wonCode' => codeState'[c] = "consumed"
    BY <1>1 DEF SingleUse
  <2>2. \A t \in Issued', p \in Procs : <<t, p>> \in wonToken' => t \in revoked'
    BY <1>0, <1>1 DEF SingleUse
  <2>3. \A p \in Procs : /\ pc'[p] \in CodeStep => <<code'[p], p>> \notin wonCode'
                         /\ pc'[p] \in TokenStep => <<tok'[p], p>> \notin wonToken'
    BY <1>1 DEF SingleUse
  <2> QED BY <2>1, <2>2, <2>3 DEF SingleUse
<1>2. ASSUME NEW p \in Procs, Return(p) PROVE \A q \in Procs : Same(q)
  BY <1>2, ReturnFrame
<1>3. ASSUME NEW p \in Procs, Begin(p) PROVE SingleUse'
  <2>1. \A q \in Procs : Same(q)
    BY <1>3 DEF Begin, StartExchange, StartRefresh, StartRevoke, Goto, TypeOK
  <2> QED BY <1>1, <1>3, <2>1 DEF Begin, StartExchange, StartRefresh, StartRevoke, codes, tokens, claims
<1>4. ASSUME NEW p \in Procs, Continue(p) PROVE SingleUse'
  <2>1. CASE CallFails(p) \/ ListFamilyFails(p) \/ RefuseCode(p)
             \/ RefuseToken(p) \/ NothingToRevoke(p) \/ RevokeOne(p)
    BY <1>1, <1>2, <2>1
    DEF CallFails, ListFamilyFails, RefuseCode, RefuseToken,
       NothingToRevoke, RevokeOne, codes, tokens, claims
  <2>2. CASE AcceptCode(p)
    <3>1. codeState[code[p]] = "live" /\ code[p] \in Codes
      BY <2>2 DEF AcceptCode, CodeUsable, TypeOK
    <3>2. <<code[p], p>> \notin wonCode
      BY <3>1 DEF SingleUse
    <3>3. UNCHANGED <<codeState, issued, revoked, wonCode, wonToken, code, tok>>
      BY <2>2 DEF AcceptCode, codes, tokens, inputs, claims
    <3>4. \A q \in Procs : pc'[q] = IF q = p THEN "consumeCode" ELSE pc[q]
      BY <2>2 DEF AcceptCode, Goto, TypeOK
    <3> QED BY <3>2, <3>3, <3>4 DEF SingleUse
  <2>3. CASE ConsumeCode(p)
    <3>1. \A q \in Procs : Same(q)
      BY <1>2, <2>3 DEF ConsumeCode, Goto, inputs, TypeOK
    <3>2. Consumed /\ UNCHANGED <<wonCode, wonToken, revoked>>
      BY <2>3 DEF ConsumeCode, tokens, claims, TypeOK
    <3> QED BY <1>1, <3>1, <3>2
  <2>4. CASE GrantAccess(p)
    <3>1. pc[p] = "session"
      BY <2>4 DEF GrantAccess
    <3>2. codeState[code[p]] = "consumed" /\ code[p] \in Codes
      BY <3>1 DEF Spent, TypeOK
    <3>3. UNCHANGED <<codeState, issued, revoked, wonToken>> /\ wonCode' = wonCode \cup {<<code[p], p>>}
      BY <2>4 DEF GrantAccess, codes, tokens
    <3>4. \A q \in Procs : Same(q) /\ pc'[p] \notin CodeStep
      BY <1>2, <2>4, ReturnFrame DEF GrantAccess, Goto, inputs, TypeOK, Return
    <3>5. \A c \in Codes, q \in Procs : <<c, q>> \in wonCode' => codeState'[c] = "consumed"
      BY <3>2, <3>3 DEF SingleUse
    <3>6. \A q \in Procs : pc'[q] \in CodeStep => <<code'[q], q>> \notin wonCode'
      BY <3>3, <3>4 DEF SingleUse
    <3>7. \A q \in Procs : pc'[q] \in TokenStep => <<tok'[q], q>> \notin wonToken'
      BY <3>3, <3>4 DEF SingleUse
    <3> QED BY <3>3, <3>5, <3>6, <3>7 DEF SingleUse
  <2>5. CASE IssueFirst(p) \/ IssueNext(p)
    BY <1>1, <1>2, <2>5 DEF IssueFirst, IssueNext, NewToken, codes, claims
  <2>6. CASE DetectReuse(p) \/ FoundLive(p) \/ ListFamily(p)
    <3>1. \A q \in Procs : Same(q)
      BY <2>6 DEF DetectReuse, FoundLive, ListFamily, Goto, inputs, TypeOK
    <3> QED BY <1>1, <2>6, <3>1 DEF DetectReuse, FoundLive, ListFamily, codes, tokens, claims
  <2>7. CASE AcceptToken(p)
    <3>1. tok[p] \in Issued /\ tok[p] \notin revoked
      BY <2>7 DEF AcceptToken, Live
    <3>2. <<tok[p], p>> \notin wonToken
      BY <3>1 DEF SingleUse
    <3>3. UNCHANGED <<codeState, issued, revoked, wonCode, wonToken, code, tok>>
      BY <2>7 DEF AcceptToken, codes, tokens, inputs, claims
    <3>4. \A q \in Procs : pc'[q] = IF q = p THEN "consumeToken" ELSE pc[q]
      BY <2>7 DEF AcceptToken, Goto, TypeOK
    <3> QED BY <3>2, <3>3, <3>4 DEF SingleUse
  <2>8. CASE ConsumeToken(p)
    <3>1. \A q \in Procs : Same(q)
      BY <2>8 DEF ConsumeToken, Goto, inputs, TypeOK
    <3> QED BY <1>1, <2>8, <3>1 DEF ConsumeToken, codes, claims
  <2>9. CASE SignTokens(p)
    <3>1. tok[p] \in Issued /\ tok[p] \in revoked
      BY <2>9 DEF SignTokens, Lineage, TypeOK, OnToken
    <3>2. UNCHANGED <<codeState, issued, revoked, wonCode, code, tok>> /\ wonToken' = wonToken \cup {<<tok[p], p>>}
      BY <2>9 DEF SignTokens, codes, tokens, inputs
    <3>3. \A q \in Procs : pc'[q] = IF q = p THEN "issueNext" ELSE pc[q]
      BY <2>9 DEF SignTokens, Goto, TypeOK
    <3> QED BY <3>1, <3>2, <3>3 DEF SingleUse
  <2>10. CASE RevokeFamilyDone(p)
    <3>1. \A q \in Procs : Same(q)
      BY <2>10 DEF RevokeFamilyDone, TypeOK
    <3> QED BY <1>1, <2>10, <3>1 DEF RevokeFamilyDone, codes, tokens, claims
  <2>11. ASSUME NEW t \in Tokens, RevokeRow(p, t) \/ RevokeRowFails(p, t) PROVE SingleUse'
    BY <1>1, <2>11 DEF RevokeRow, RevokeRowFails, codes, tokens, inputs, claims
  <2> QED BY <1>4, <2>1, <2>2, <2>3, <2>4, <2>5, <2>6, <2>7, <2>8, <2>9, <2>10, <2>11 DEF Continue
<1>5. ASSUME NEW c \in Codes, IssueCode(c) \/ ExpireCode(c) PROVE SingleUse'
  <2>1. Consumed
    BY <1>5 DEF IssueCode, ExpireCode, TypeOK
  <2> QED BY <1>1, <1>5, <2>1 DEF IssueCode, ExpireCode, tokens, inputs, claims
<1>6. ASSUME NEW t \in Tokens, ExpireToken(t) PROVE SingleUse'
  BY <1>1, <1>6 DEF ExpireToken, codes, inputs, claims
<1>7. CASE UNCHANGED vars
  BY <1>1, <1>7 DEF vars, codes, tokens, inputs, claims
<1> QED BY <1>3, <1>4, <1>5, <1>6, <1>7 DEF Next

(* No interleaving lets one thread exchange a code, or rotate a refresh    *)
(* token, twice (redeem and rotate refuse what they have consumed).        *)
THEOREM SingleUseHolds == Spec => []SingleUsePerThread
<1>1. Init => Lineage /\ Spent /\ SingleUse
  BY DEF Init, Lineage, LiveTokensAreLeaves, Spent, SingleUse
<1>2. SingleUse => SingleUsePerThread
  BY DEF SingleUse, SingleUsePerThread
<1> QED BY <1>1, <1>2, Typing, LineageStep, SpentStep, SingleUseStep, PTL DEF Spec
-----------------------------------------------------------------------------
(***************************************************************************)
(* KilledFamilyExplained: a request that still holds a token of a killed   *)
(* family was overtaken by the killing or holds an escaped token; and a    *)
(* purge that has lost no row has every live token of its family still to  *)
(* revoke, but for the escaped ones.                                       *)
(***************************************************************************)
Holding == {"consumeToken", "sign", "issueNext"}

Killing ==
    /\ killed \subseteq Issued
    /\ KilledFamilyExplained
    /\ \A q \in Procs : pc[q] \in Holding /\ family[tok[q]] \in killed =>
          q \in outrun \/ tok[q] \in escaped
    /\ \A p \in Procs : pc[p] = "revokeFamily" /\ ~lossy[p] =>
          \A t \in Issued : t \notin revoked /\ family[t] = family[tok[p]] =>
             t \in todo[p] \/ t \in escaped

(* Every step keeps what survives a revoked family explained.              *)
LEMMA KillingStep == TypeOK /\ Lineage /\ Killing /\ [Next]_vars => Killing'
<1> SUFFICES ASSUME TypeOK, Lineage, Killing, [Next]_vars PROVE Killing'
  OBVIOUS
<1> DEFINE Holds(q) == pc'[q] \in Holding =>
              pc[q] \in Holding /\ tok'[q] = tok[q] /\ (q \in outrun => q \in outrun')
           Purges(q) == pc'[q] = "revokeFamily" =>
              /\ pc[q] = "revokeFamily" /\ tok'[q] = tok[q]
              /\ lossy'[q] = lossy[q] /\ todo'[q] = todo[q]
<1>1. ASSUME UNCHANGED <<issued, family, killed, escaped>>, revoked \subseteq revoked',
             \A q \in Procs : Holds(q) /\ Purges(q)
      PROVE  Killing'
  <2> HIDE DEF Issued
  <2>0. Issued' = Issued
    BY <1>1 DEF Issued
  <2>1. KilledFamilyExplained'
    BY <1>1, <2>0 DEF Killing, KilledFamilyExplained, Live
  <2>2. \A q \in Procs : pc'[q] \in Holding /\ family'[tok'[q]] \in killed' =>
           q \in outrun' \/ tok'[q] \in escaped'
    BY <1>1 DEF Killing
  <2>3. \A p \in Procs : pc'[p] = "revokeFamily" /\ ~lossy'[p] =>
           \A t \in Issued' : t \notin revoked' /\ family'[t] = family'[tok'[p]] =>
              t \in todo'[p] \/ t \in escaped'
    BY <1>1, <2>0 DEF Killing
  <2> QED BY <1>1, <2>0, <2>1, <2>2, <2>3 DEF Killing
<1>2. ASSUME NEW p \in Procs, Return(p) PROVE \A q \in Procs : Holds(q) /\ Purges(q)
  BY <1>2, ReturnFrame DEF Holding
<1>3. ASSUME NEW p \in Procs, NEW step \in Steps, Goto(p, step),
             step \in Holding => pc[p] \in Holding /\ tok'[p] = tok[p],
             step # "revokeFamily", UNCHANGED <<todo, lossy, outrun>>,
             \A q \in Procs : q # p => tok'[q] = tok[q]
      PROVE  \A q \in Procs : Holds(q) /\ Purges(q)
  BY <1>3 DEF Goto, TypeOK
<1>4. ASSUME NEW p \in Procs, Begin(p) PROVE Killing'
  BY <1>1, <1>3, <1>4 DEF Begin, StartExchange, StartRefresh, StartRevoke, Steps, Holding, TypeOK,
     tokens, purge
(* A new row: it joins a killed family, or one that is being purged, only as an escaped token. *)
<1>5. ASSUME NEW p \in Procs, Return(p), NEW f \in Issued \cup {0}, NEW from \in 0 .. MaxTokens,
             NEW c \in Codes, NewToken(f, from, c), UNCHANGED killed,
             escaped \subseteq escaped', escaped' \subseteq escaped \cup {issued'},
             f \in killed \/ Purging(f) => issued' \in escaped'
      PROVE  Killing'
  <2>1. f \in 0 .. MaxTokens
    BY DEF TypeOK
  <2> DEFINE n == issued'
  <2>2. /\ Issued' = Issued \cup {n} /\ n \notin Issued
        /\ \A t \in Issued : family'[t] = family[t]
        /\ family'[n] = IF f = 0 THEN n ELSE f
        /\ revoked' = revoked
    BY <1>5, <2>1, NewTokenTyped
  <2>3. \A q \in Procs : Holds(q) /\ Purges(q)
    BY <1>2, <1>5
  <2>4. /\ killed \subseteq Issued
        /\ \A q \in Procs : pc[q] \in Holding \/ pc[q] = "revokeFamily" => tok[q] \in Issued
        /\ \A t \in Issued : family[t] \in Issued
        /\ 0 \notin Issued
    BY DEF Killing, Lineage, TypeOK, OnToken, Holding
  <2>5. n \in escaped' \/ family'[n] \notin killed
    BY <1>5, <2>2, <2>4
  <2> HIDE DEF Issued, n
  <2>6. KilledFamilyExplained'
    <3> SUFFICES ASSUME NEW t \in Issued', t \notin revoked', family'[t] \in killed'
                 PROVE  t \in escaped'
      BY DEF KilledFamilyExplained, Live
    <3>1. CASE t = n
      BY <1>5, <2>5, <3>1
    <3>2. CASE t \in Issued
      BY <1>5, <2>2, <3>2 DEF Killing, KilledFamilyExplained, Live
    <3> QED BY <2>2, <3>1, <3>2
  <2>7. \A q \in Procs : pc'[q] \in Holding /\ family'[tok'[q]] \in killed' =>
           q \in outrun' \/ tok'[q] \in escaped'
    BY <1>5, <2>2, <2>3, <2>4 DEF Killing
  <2>8. ASSUME NEW q \in Procs, pc'[q] = "revokeFamily", ~lossy'[q],
               NEW t \in Issued', t \notin revoked', family'[t] = family'[tok'[q]]
        PROVE  t \in todo'[q] \/ t \in escaped'
    <3>1. /\ pc[q] = "revokeFamily" /\ tok'[q] = tok[q] /\ ~lossy[q] /\ todo'[q] = todo[q]
          /\ tok[q] \in Issued /\ family[tok[q]] \in Issued
          /\ family'[tok'[q]] = family[tok[q]]
      BY <2>2, <2>3, <2>4, <2>8
    <3>2. CASE t = n
      <4>1. f # 0 /\ f = family[tok[q]]
        BY <2>2, <2>8, <3>1, <3>2
      <4> QED BY <1>5, <3>1, <3>2, <4>1 DEF Purging, n
    <3>3. CASE t \in Issued
      BY <1>5, <2>2, <2>8, <3>1, <3>3 DEF Killing
    <3> QED BY <2>2, <2>8, <3>2, <3>3
  <2> QED BY <1>5, <2>2, <2>4, <2>6, <2>7, <2>8 DEF Killing
<1>6. ASSUME NEW p \in Procs, Continue(p) PROVE Killing'
  <2>1. CASE CallFails(p) \/ ListFamilyFails(p) \/ RefuseCode(p)
             \/ RefuseToken(p) \/ NothingToRevoke(p) \/ RevokeOne(p)
    BY <1>1, <1>2, <2>1 DEF CallFails, ListFamilyFails, RefuseCode, RefuseToken,
       NothingToRevoke, RevokeOne, tokens
  <2>2. CASE AcceptCode(p) \/ DetectReuse(p) \/ FoundLive(p) \/ SignTokens(p)
    <3>1. \A q \in Procs : Holds(q) /\ Purges(q)
      BY <1>3, <2>2 DEF AcceptCode, DetectReuse, FoundLive, SignTokens, Steps, Holding, inputs, purge
    <3> QED BY <1>1, <2>2, <3>1 DEF AcceptCode, DetectReuse, FoundLive, SignTokens, tokens, purge
  <2>3. CASE ConsumeToken(p)
    <3>1. \A q \in Procs : Holds(q) /\ Purges(q)
      BY <1>3, <2>3 DEF ConsumeToken, Steps, Holding, inputs, purge
    <3> QED BY <1>1, <2>3, <3>1 DEF ConsumeToken, purge
  <2>4. CASE ConsumeCode(p) \/ GrantAccess(p)
    <3>1. \A q \in Procs : Holds(q) /\ Purges(q)
      BY <1>2, <1>3, <2>4 DEF ConsumeCode, GrantAccess, Steps, Holding, inputs
    <3> QED BY <1>1, <2>4, <3>1 DEF ConsumeCode, GrantAccess, tokens
  <2>5. CASE IssueFirst(p)
    <3>1. code[p] \in Codes /\ 0 \in 0 .. MaxTokens /\ 0 \in Issued \cup {0} /\ 0 \notin killed
      BY DEF TypeOK, Killing
    <3>2. ~Purging(0)
      BY DEF Purging, TypeOK, OnToken, Lineage
    <3> QED BY <1>5, <2>5, <3>1, <3>2 DEF IssueFirst
  <2>6. CASE IssueNext(p)
    <3>1. tok[p] \in Issued
      BY <2>6 DEF IssueNext, OnToken, TypeOK
    <3>2. tok[p] \in 0 .. MaxTokens /\ family[tok[p]] \in Issued /\ origin[tok[p]] \in Codes
      BY <3>1 DEF TypeOK, Lineage
    <3>3. family[tok[p]] \in killed => p \in outrun \/ tok[p] \in escaped
      BY <2>6 DEF IssueNext, Killing, Holding
    <3>4. /\ escaped \subseteq escaped' /\ escaped' \subseteq escaped \cup {issued'}
          /\ family[tok[p]] \in killed \/ Purging(family[tok[p]]) => issued' \in escaped'
      BY <2>6, <3>3 DEF IssueNext
    <3> QED BY <1>5, <2>6, <3>2, <3>4 DEF IssueNext
  <2>7. CASE AcceptToken(p)
    <3>1. family[tok[p]] \in killed => tok[p] \in escaped
      BY <2>7 DEF AcceptToken, Killing, KilledFamilyExplained, Live
    <3>2. UNCHANGED <<tokens, inputs, todo, lossy, purge>>
      BY <2>7 DEF AcceptToken
    <3>3. \A q \in Procs : pc'[q] = IF q = p THEN "consumeToken" ELSE pc[q]
      BY <2>7 DEF AcceptToken, Goto, TypeOK
    <3>4. KilledFamilyExplained'
      BY <3>2 DEF Killing, KilledFamilyExplained, Live, tokens, purge
    <3>5. \A q \in Procs : pc'[q] \in Holding /\ family'[tok'[q]] \in killed' =>
             q \in outrun' \/ tok'[q] \in escaped'
      BY <3>1, <3>2, <3>3 DEF Killing, tokens, inputs, purge
    <3>6. \A q \in Procs : Purges(q)
      BY <3>2, <3>3 DEF inputs
    <3> QED BY <3>2, <3>4, <3>5, <3>6 DEF Killing, tokens, purge
  <2>8. CASE ListFamily(p)
    <3> DEFINE f == family[tok[p]]
    <3>1. UNCHANGED <<tokens, inputs, purge>>
      BY <2>8 DEF ListFamily
    <3>2. \A q \in Procs : pc'[q] = IF q = p THEN "revokeFamily" ELSE pc[q]
      BY <2>8 DEF ListFamily, Goto, TypeOK
    <3>3. \A q \in Procs : q # p => todo'[q] = todo[q] /\ lossy'[q] = lossy[q]
      BY <2>8 DEF ListFamily, TypeOK
    <3>4. PICK listed \in SUBSET Family(f) :
             /\ todo' = [todo EXCEPT ![p] = listed \ revoked]
             /\ lossy' = [lossy EXCEPT ![p] = listed # Family(f)]
      BY <2>8 DEF ListFamily
    <3>5. ~lossy'[p] => todo'[p] = Family(f) \ revoked
      BY <3>4 DEF TypeOK
    <3>6. KilledFamilyExplained'
      BY <3>1 DEF Killing, KilledFamilyExplained, Live, tokens, purge
    <3>7. \A q \in Procs : pc'[q] \in Holding /\ family'[tok'[q]] \in killed' =>
             q \in outrun' \/ tok'[q] \in escaped'
      BY <3>1, <3>2 DEF Killing, tokens, inputs, purge, Holding
    <3>8. ASSUME NEW q \in Procs, pc'[q] = "revokeFamily", ~lossy'[q],
                 NEW t \in Issued', t \notin revoked', family'[t] = family'[tok'[q]]
          PROVE  t \in todo'[q] \/ t \in escaped'
      <4>1. CASE q = p
        BY <3>1, <3>5, <3>8, <4>1 DEF Family, tokens, inputs
      <4>2. CASE q # p
        BY <3>1, <3>2, <3>3, <3>8, <4>2 DEF Killing, tokens, inputs, purge
      <4> QED BY <4>1, <4>2
    <3> QED BY <3>1, <3>6, <3>7, <3>8 DEF Killing, tokens, purge
  <2>9. CASE RevokeFamilyDone(p)
    <3> DEFINE f == family[tok[p]]
    <3>1. /\ pc[p] = "revokeFamily" /\ todo[p] = {}
          /\ UNCHANGED <<tokens, todo, escaped>>
      BY <2>9 DEF RevokeFamilyDone
    <3>2. \A q \in Procs : /\ pc'[q] = IF q = p THEN "idle" ELSE pc[q]
                           /\ q # p => tok'[q] = tok[q] /\ lossy'[q] = lossy[q]
      BY <2>9 DEF RevokeFamilyDone, TypeOK
    <3>3. outrun \subseteq outrun'
      BY <2>9 DEF RevokeFamilyDone
    <3>4. CASE lossy[p]
      <4>1. UNCHANGED killed
        BY <2>9, <3>4 DEF RevokeFamilyDone
      <4> QED BY <1>1, <3>1, <3>2, <3>3, <4>1 DEF tokens, Holding
    <3>5. CASE ~lossy[p]
      <4>1. killed' = killed \cup {f} /\ outrun' = outrun \cup Holders(f)
        BY <2>9, <3>5 DEF RevokeFamilyDone
      <4>2. f \in Issued
        BY <3>1 DEF Lineage, TypeOK, OnToken
      <4>3. \A t \in Issued : t \notin revoked /\ family[t] = f => t \in escaped
        BY <3>1, <3>5 DEF Killing
      <4>4. KilledFamilyExplained'
        BY <3>1, <4>1, <4>3 DEF Killing, KilledFamilyExplained, Live, tokens
      <4>5. \A q \in Procs : pc'[q] \in Holding /\ family'[tok'[q]] \in killed' =>
               q \in outrun' \/ tok'[q] \in escaped'
        BY <3>1, <3>2, <4>1 DEF Killing, tokens, Holding, Holders
      <4>6. \A q \in Procs : Purges(q)
        BY <3>1, <3>2
      <4> QED BY <3>1, <4>1, <4>2, <4>4, <4>5, <4>6 DEF Killing, tokens
    <3> QED BY <3>4, <3>5
  <2>10. ASSUME NEW t \in Tokens, RevokeRow(p, t) \/ RevokeRowFails(p, t) PROVE Killing'
    <3>1. /\ UNCHANGED <<issued, family, pc, tok, killed, outrun, escaped>>
          /\ revoked \subseteq revoked'
      BY <2>10 DEF RevokeRow, RevokeRowFails, tokens, inputs, purge
    <3>2. \A q \in Procs : q # p => todo'[q] = todo[q] /\ lossy'[q] = lossy[q]
      BY <2>10 DEF RevokeRow, RevokeRowFails, TypeOK
    <3>3. lossy'[p] \/ (lossy'[p] = lossy[p] /\ todo'[p] = todo[p] \ {t} /\ t \in revoked')
      BY <2>10 DEF RevokeRow, RevokeRowFails, TypeOK
    <3>4. KilledFamilyExplained'
      BY <3>1 DEF Killing, KilledFamilyExplained, Live
    <3>5. ASSUME NEW q \in Procs, pc'[q] = "revokeFamily", ~lossy'[q],
                 NEW u \in Issued', u \notin revoked', family'[u] = family'[tok'[q]]
          PROVE  u \in todo'[q] \/ u \in escaped'
      BY <3>1, <3>2, <3>3, <3>5 DEF Killing
    <3> QED BY <3>1, <3>4, <3>5 DEF Killing
  <2> QED BY <1>6, <2>1, <2>2, <2>3, <2>4, <2>5, <2>6, <2>7, <2>8, <2>9, <2>10 DEF Continue
<1>7. ASSUME NEW c \in Codes, IssueCode(c) \/ ExpireCode(c) PROVE Killing'
  BY <1>1, <1>7 DEF IssueCode, ExpireCode, tokens, inputs, purge
<1>8. ASSUME NEW t \in Tokens, ExpireToken(t) PROVE Killing'
  BY <1>1, <1>8 DEF ExpireToken, inputs, purge
<1>9. CASE UNCHANGED vars
  BY <1>1, <1>9 DEF vars, tokens, inputs, purge
<1> QED BY <1>4, <1>6, <1>7, <1>8, <1>9 DEF Next

(* Once revokeFamily has revoked every row of a family, the only live      *)
(* tokens of that family are those a concurrent rotation carried across    *)
(* the revocation, and their descendants.                                  *)
THEOREM ReuseKillsFamily == Spec => []KilledFamilyExplained
<1>1. Init => Lineage /\ Killing
  BY DEF Init, Lineage, LiveTokensAreLeaves, Killing, KilledFamilyExplained, Holding
<1>2. Killing => KilledFamilyExplained
  BY DEF Killing
<1> QED BY <1>1, <1>2, Typing, LineageStep, KillingStep, PTL DEF Spec
=============================================================================
