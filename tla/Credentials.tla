---------------------------- MODULE Credentials ----------------------------
(***************************************************************************)
(* Passwords and sealed secrets behind the client: setCredential (an       *)
(* upsert of two adapter calls), deleteCredential, the sign-in that looks  *)
(* an identifier up as a username and then as an email, with the tenant it *)
(* reads afterwards, and EncryptedSecret rows sealed with a key that is    *)
(* taken from the environment once per process.  Every adapter call is a   *)
(* step; every read may fail, and every write too, before or after it was  *)
(* made.                                                                   *)
(*                                                                         *)
(* A hash is the password it was made from, in a record of its own.        *)
(***************************************************************************)
EXTENDS Naturals, Sequences, FiniteSets

CONSTANTS CredNames,     \* usernames
          Mails,         \* what may stand in the email column, usernames included
          CPasswords,
          CTenants,      \* tenants given with a credential
          MaxCredWrites, \* bound on calls that write
          Texts,         \* plaintexts
          EnvKeys,       \* values of DBAL_SECRET_ENCRYPTION_KEY
          MaxSecrets     \* bound on secrets and on restarts

NoValue == "null"

(* No password is the marker of an absent value.                           *)
ASSUME CredentialAssumption == MaxCredWrites \in Nat /\ NoValue \notin CPasswords

SystemTenant == "system"
Weak == "weak"           \* a password or a name the validators refuse
NotOpened == "failed"
NotFound == "Secret not found"
NoHash == [of |-> NoValue]
NoCred == [hash |-> NoHash, tenant |-> NoValue, email |-> NoValue]
OldHash == [of |-> "not argon2id"]
Resting == [step |-> "rest"]
AdminToken == "token"

VARIABLES creds,      \* Credential: username -> row
          setter,     \* the setCredential call in flight
          signer,     \* the sign-in in flight
          heldBy,     \* what was true of each name at some moment of that sign-in
          stored,     \* whether the password of the setter was in its row at some moment of its call
          credWrites,
          secrets,    \* EncryptedSecret rows
          envKey,     \* the environment of this process
          master,     \* masterKey's static
          secretLast, \* the last answer about a secret
          restarts

credentialVars == <<creds, setter, signer, heldBy, stored, credWrites>>
secretVars == <<secrets, envKey, master, secretLast, restarts>>

(***************************************************************************)
(* Hashing.  hash_password salts and encodes; verify_password takes only   *)
(* what it encoded.                                                        *)
(***************************************************************************)
HashPassword(pw) == [of |-> pw]
VerifyPassword(pw, hash) == hash # NoHash /\ hash = HashPassword(pw)

(* read and findByField leave the columns out that are never exposed.      *)
Exposed(row) == [row EXCEPT !.hash = NoHash]

(***************************************************************************)
(* History: what a sign-in could have seen, and whether a setter's         *)
(* password was stored.                                                    *)
(***************************************************************************)
Noted(old, rows, call) ==
    [u \in CredNames |->
        IF rows[u] = NoCred THEN old[u]
        ELSE [password |-> old[u].password \/ VerifyPassword(call.pw, rows[u].hash),
              known |-> old[u].known \/ call.ident \in {u, rows[u].email},
              tenants |-> old[u].tenants \cup {rows[u].tenant}]]

Unheld == [u \in CredNames |-> [password |-> FALSE, known |-> FALSE, tenants |-> {}]]

(* Every write of the table goes through here.                             *)
Becomes(rows) ==
    /\ creds' = rows
    /\ heldBy' = IF signer.step \in {"rest", "done"} THEN heldBy ELSE Noted(heldBy, rows, signer)

(***************************************************************************)
(* setCredential, from the admin route.                                    *)
(***************************************************************************)
(* The admin routes are closed while no token is configured.               *)
AdminAuthorised(expected, given) == expected # NoValue /\ given = expected

(* The validators come before the hash, which may fail.                    *)
SetCredential(u, pw, t, e, hashes) ==
    /\ setter.step \in {"rest", "answered"} /\ credWrites < MaxCredWrites
    /\ credWrites' = credWrites + 1
    /\ setter' = IF u = Weak \/ pw = Weak \/ ~hashes
                 THEN [step |-> "answered", ok |-> FALSE]
                 ELSE [step |-> "find", name |-> u, pw |-> pw, tenant |-> t, email |-> e]
    /\ stored' = FALSE
    /\ UNCHANGED <<creds, signer, heldBy>>

handleSetCredential(given, u, pw, t, e, hashes) ==
    AdminAuthorised(AdminToken, given) /\ SetCredential(u, pw, t, e, hashes)

(* upsert looks the row up first; a lookup that fails is a row not there.  *)
UpsertFind(fails) ==
    /\ setter.step = "find"
    /\ setter' = [setter EXCEPT !.step = IF creds[setter.name] = NoCred \/ fails THEN "create" ELSE "update"]
    /\ UNCHANGED <<creds, signer, heldBy, stored, credWrites>>

(* The primary key and the unique index on email refuse a second row.      *)
Conflicts(u, e) ==
    creds[u] # NoCred \/ (e # NoValue /\ \E v \in CredNames : creds[v].email = e)

SetAnswers(ok) == setter' = [step |-> "answered", ok |-> ok]

(* A row that was written may be answered as an error (told = FALSE).      *)
UpsertCreate(told) ==
    /\ setter.step = "create"
    /\ LET u == setter.name
           row == [hash |-> HashPassword(setter.pw), tenant |-> setter.tenant, email |-> setter.email]
       IN IF Conflicts(u, setter.email)
          THEN SetAnswers(FALSE) /\ UNCHANGED <<creds, heldBy, stored>>
          ELSE Becomes([creds EXCEPT ![u] = row]) /\ stored' = TRUE /\ SetAnswers(told)
    /\ UNCHANGED <<signer, credWrites>>

(* Wrong: one data object for the create and for the update.               *)
UpdateDataMoves(row) ==
    [row EXCEPT !.hash = HashPassword(setter.pw), !.tenant = setter.tenant]

(* A reset of the password touches nothing else.                           *)
UpdateData(row) == [row EXCEPT !.hash = HashPassword(setter.pw)]

UpsertUpdate(told) ==
    /\ setter.step = "update"
    /\ LET u == setter.name IN
       IF creds[u] = NoCred
       THEN SetAnswers(FALSE) /\ UNCHANGED <<creds, heldBy, stored>>
       ELSE Becomes([creds EXCEPT ![u] = UpdateData(creds[u])]) /\ stored' = TRUE /\ SetAnswers(told)
    /\ UNCHANGED <<signer, credWrites>>

(* The store refuses the second call of an upsert.                         *)
UpsertFails ==
    /\ setter.step \in {"create", "update"}
    /\ SetAnswers(FALSE)
    /\ UNCHANGED <<creds, signer, heldBy, stored, credWrites>>

deleteCredential(u) ==
    /\ credWrites < MaxCredWrites /\ creds[u] # NoCred
    /\ credWrites' = credWrites + 1
    /\ Becomes([creds EXCEPT ![u] = NoCred])
    /\ UNCHANGED <<setter, signer, stored>>

(***************************************************************************)
(* A sign-in: verifyCredentialIdentifier, then getCredentialTenantId.  The *)
(* CAS and SAML forms use verifyCredential, which stops after the first    *)
(* read.  One sign-in that succeeds is enough: it writes nothing.          *)
(***************************************************************************)
TurnedAway == Resting
Say(next) ==
    /\ signer' = next
    /\ heldBy' = IF next = TurnedAway THEN Unheld ELSE heldBy
    /\ UNCHANGED <<creds, setter, stored, credWrites>>

BeginSignIn(ident, pw, mailToo) ==
    /\ signer = Resting
    /\ LET call == [step |-> "read", ident |-> ident, pw |-> pw, mail |-> mailToo, user |-> ident] IN
       /\ signer' = call
       /\ heldBy' = Noted(Unheld, creds, call)
    /\ UNCHANGED <<creds, setter, stored, credWrites>>

Done(user, tenant) ==
    [step |-> "done", user |-> user, tenant |-> tenant, pw |-> signer.pw, ident |-> signer.ident]

(* The row the read with the sensitive columns returns decides.            *)
VerifiedAs(u) ==
    IF VerifyPassword(signer.pw, creds[u].hash)
    THEN [signer EXCEPT !.step = "tenant", !.user = u]
    ELSE TurnedAway

verifyCredential(fails) ==
    /\ signer.step = "read" /\ ~signer.mail
    /\ Say(IF fails \/ signer.ident \notin CredNames \/ creds[signer.ident] = NoCred
           THEN TurnedAway ELSE VerifiedAs(signer.ident))

verifyCredentialIdentifier(fails) ==
    /\ signer.step = "read" /\ signer.mail
    /\ Say(IF fails \/ signer.ident \notin CredNames \/ creds[signer.ident] = NoCred
           THEN [signer EXCEPT !.step = "byEmail"] ELSE VerifiedAs(signer.ident))

(* findByField gives the canonical username, never the hash.               *)
FindByEmail(fails) ==
    /\ signer.step = "byEmail"
    /\ LET matches == {u \in CredNames : creds[u] # NoCred /\ creds[u].email = signer.ident} IN
       IF fails \/ matches = {} THEN Say(TurnedAway)
       ELSE \E u \in matches : Say([signer EXCEPT !.step = "again", !.user = u])

ReadAgain(fails) ==
    /\ signer.step = "again"
    /\ Say(IF fails \/ creds[signer.user] = NoCred THEN TurnedAway ELSE VerifiedAs(signer.user))

(* A row that is gone, a failed read, null and the empty string all mean   *)
(* "system".                                                               *)
getCredentialTenantId(fails) ==
    /\ signer.step = "tenant"
    /\ LET row == Exposed(creds[signer.user]) IN
       Say(Done(signer.user, IF fails \/ row.tenant = NoValue THEN SystemTenant ELSE row.tenant))

(***************************************************************************)
(* Sealed secrets.                                                         *)
(***************************************************************************)
(* masterKey: derived at the first use, then kept; it throws while the     *)
(* variable is missing, and is then tried again at the next use.           *)
MasterKey == IF master # NoValue THEN master ELSE envKey

SealSecret(text, key) == [key |-> key, text |-> text]

(* GCM authentication fails under another key.                             *)
OpenSecret(sealed, key) == IF sealed.key = key THEN sealed.text ELSE NotOpened

SecretAnswers(op, id, text) == secretLast' = [op |-> op, id |-> id, text |-> text]

createEncryptedSecret(text, fails) ==
    /\ Len(secrets) < MaxSecrets
    /\ IF text = NoValue
       THEN SecretAnswers("create", 0, NotOpened) /\ UNCHANGED <<secrets, master>>
       ELSE /\ master' = MasterKey
            /\ IF MasterKey = NoValue \/ fails
               THEN SecretAnswers("create", 0, NotOpened) /\ UNCHANGED secrets
               ELSE /\ secrets' = Append(secrets, SealSecret(text, MasterKey))
                    /\ SecretAnswers("create", Len(secrets) + 1, text)
    /\ UNCHANGED <<envKey, restarts>>

handleCreate(given, text, fails) == AdminAuthorised(AdminToken, given) /\ createEncryptedSecret(text, fails)

(* A row that cannot be read is answered as one that is not there, before  *)
(* the key is asked for.                                                   *)
revealEncryptedSecret(id, fails) ==
    /\ IF fails
       THEN SecretAnswers("reveal", id, NotFound) /\ UNCHANGED master
       ELSE LET row == secrets[id] IN
            /\ master' = MasterKey
            /\ SecretAnswers("reveal", id, IF MasterKey = NoValue THEN NotOpened ELSE OpenSecret(row, MasterKey))
    /\ UNCHANGED <<secrets, envKey, restarts>>

handleReveal(given, id, fails) == AdminAuthorised(AdminToken, given) /\ revealEncryptedSecret(id, fails)

Restart(key) ==
    /\ restarts < MaxSecrets
    /\ restarts' = restarts + 1
    /\ envKey' = key /\ master' = NoValue
    /\ SecretAnswers("restart", 0, NotOpened)
    /\ UNCHANGED secrets

(***************************************************************************)
(* Rows written before hashing was argon2id verify against nothing.        *)
(***************************************************************************)
InitCredentials ==
    /\ creds \in [CredNames -> {NoCred, [hash |-> OldHash, tenant |-> NoValue, email |-> NoValue]}]
    /\ setter = Resting /\ signer = Resting
    /\ heldBy = Unheld /\ stored = FALSE /\ credWrites = 0

InitSecrets ==
    /\ secrets = <<>>
    /\ envKey \in EnvKeys \cup {NoValue} /\ master = NoValue
    /\ secretLast = [op |-> "restart", id |-> 0, text |-> NotOpened]
    /\ restarts = 0

Setting ==
    \/ \E u \in CredNames \cup {Weak}, pw \in CPasswords \cup {Weak}, t \in CTenants \cup {NoValue},
          e \in Mails \cup {NoValue}, hashes \in BOOLEAN, given \in {AdminToken, "other"} :
          handleSetCredential(given, u, pw, t, e, hashes)
    \/ \E fails \in BOOLEAN : UpsertFind(fails)
    \/ \E told \in BOOLEAN : UpsertCreate(told) \/ UpsertUpdate(told)
    \/ UpsertFails

SignIn ==
    \/ \E ident \in CredNames \cup Mails, pw \in CPasswords, mailToo \in BOOLEAN :
          BeginSignIn(ident, pw, mailToo)
    \/ \E fails \in BOOLEAN :
          \/ verifyCredential(fails)
          \/ verifyCredentialIdentifier(fails)
          \/ FindByEmail(fails)
          \/ ReadAgain(fails)
          \/ getCredentialTenantId(fails)

NextCredentials ==
    \/ Setting
    \/ \E u \in CredNames : deleteCredential(u)
    \/ SignIn

NextSecrets ==
    \/ \E text \in Texts \cup {NoValue}, fails \in BOOLEAN : handleCreate(AdminToken, text, fails)
    \/ \E id \in DOMAIN secrets, fails \in BOOLEAN : handleReveal(AdminToken, id, fails)
    \/ \E key \in EnvKeys \cup {NoValue} : Restart(key)

(***************************************************************************)
(* Properties                                                              *)
(***************************************************************************)
(* Rows hold a hash whatever the calls do, and a name stands in the email  *)
(* column of one row at most.                                              *)
TypeOKCredentials ==
    /\ \A u \in CredNames : creds[u] # NoCred => creds[u].hash # NoHash
    /\ \A u, v \in CredNames : creds[u].email = creds[v].email /\ creds[u].email # NoValue => u = v
    /\ credWrites \in 0..MaxCredWrites /\ master \in EnvKeys \cup {NoValue}

(* A sign-in that succeeded names an account that had the given password,  *)
(* and answered to the given identifier, at some moment of the call; the   *)
(* tenant it was given, unless "system", was that account's                *)
(* (verifyCredentialIdentifier: two reads and a lookup, with resets,       *)
(* deletions and new accounts between them).                               *)
SignedInIsTheOwner ==
    signer.step = "done" =>
        /\ signer.user \in CredNames
        /\ heldBy[signer.user].password /\ heldBy[signer.user].known
        /\ signer.tenant \in heldBy[signer.user].tenants \cup {SystemTenant}

(* setCredential says true only when the password stood in the row at some *)
(* moment of the call, whoever created or deleted the row meanwhile.       *)
SetMeansStored == (setter.step = "answered" /\ setter.ok) => stored

(* Setting a password again moves no account to another tenant and changes *)
(* no email: only a deletion ends a row (the updateData of setCredential). *)
ResetKeepsTenant ==
    [][\A u \in CredNames : (creds[u] # NoCred /\ creds'[u] # NoCred) =>
          creds'[u].tenant = creds[u].tenant /\ creds'[u].email = creds[u].email]_creds

(* A secret that is revealed is the text that was sealed, and a process    *)
(* that runs with the key it was sealed with never says that it cannot be  *)
(* opened, however many restarts with other keys or none lie between.  A   *)
(* sealed secret may be answered as not found: revealEncryptedSecret makes *)
(* no difference between no row and a read that failed                     *)
(* (client_secret_ops.cpp:42-45).                                          *)
RevealedIsSealed ==
    secretLast.op = "reveal" =>
        LET sealed == secrets[secretLast.id] IN
        /\ secretLast.text \in {sealed.text, NotOpened, NotFound}
        /\ envKey = sealed.key => secretLast.text \in {sealed.text, NotFound}
=============================================================================
