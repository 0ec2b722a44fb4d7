------------------------------ MODULE UserRpc ------------------------------
(***************************************************************************)
(* Users through the legacy RPC endpoint and the typed calls of Client:    *)
(* handleRpc picks the action, handle_user_update and handle_user_delete   *)
(* read the row, compare its tenant and then write, each in an adapter     *)
(* call of its own, and the batches make one call per item.  Requests run  *)
(* in slots and interleave; the REST routes change the same rows.          *)
(*                                                                         *)
(* A username stands for the username and the email, both unique.  Roles   *)
(* keep what normalize_role tells apart.                                   *)
(***************************************************************************)
EXTENDS Naturals, Sequences, FiniteSets

CONSTANTS UserNames,    \* usernames, with NoText the empty one
          UserTenants,
          MaxSlots,     \* requests in flight, in slots that are taken in order
          MaxAccounts,  \* bound on rows created
          MaxRpcs       \* bound on calls begun and rows moved

ASSUME UserAssumption == MaxAccounts \in Nat /\ MaxSlots \in Nat

NoText == ""
NoUserTenant == "none"
Omitted == "omitted"
GivenRoles == {"Admin", "wizard", Omitted}
SchemaRoles == {"admin", "user"}
NoAccount == [name |-> NoText, tenant |-> NoUserTenant, role |-> NoText]
FreeSlot == [step |-> "free"]
AccountIds == 1..MaxAccounts
RpcSlots == 1..MaxSlots

VARIABLES accounts,   \* User: id -> row
          madeIds,    \* ids generated so far
          rpcs,       \* slot -> call
          within,     \* slot -> ids that were in the call's tenant at some moment of it
          wrote,      \* slot -> ids the call changed
          rpcCount

userVars == <<accounts, madeIds, rpcs, within, wrote, rpcCount>>

Accounts == {i \in AccountIds : accounts[i] # NoAccount}
Named(n) == {i \in Accounts : accounts[i].name = n}

(***************************************************************************)
(* Conversions                                                             *)
(***************************************************************************)
(* Lower case, and "user" for every role not on the list.                  *)
NormalizeRole(role) == IF role = "Admin" THEN "admin" ELSE "user"

(* createUserToJson: a role that was not given is "user".                  *)
CreateUserToJson(input) ==
    [name |-> input.name, tenant |-> input.tenant,
     role |-> IF input.role = Omitted THEN "user" ELSE NormalizeRole(input.role)]

(* updateUserToJson: the fields that were given, and the tenant is not one *)
(* of them in a call from handle_user_update.                              *)
UpdateUserToJson(row, input) ==
    [row EXCEPT !.name = IF input.name = Omitted THEN @ ELSE input.name,
                !.role = IF input.role = Omitted THEN @ ELSE NormalizeRole(input.role)]

(***************************************************************************)
(* History                                                                 *)
(***************************************************************************)
Active(s) == rpcs[s].step # "free"
InTenant(rows, t) == {i \in AccountIds : rows[i] # NoAccount /\ rows[i].tenant = t}

(* Every write of the table goes through here; ids is what slot s changed. *)
WriteRows(rows) == accounts' = rows
Remember(rows, calls) ==
    within' = [s \in RpcSlots |-> IF calls[s].step = "free" THEN {}
                                  ELSE IF ~Active(s) THEN InTenant(rows, calls[s].tenant)
                                  ELSE within[s] \cup InTenant(rows, calls[s].tenant)]
Wrote(s, ids) == wrote' = [wrote EXCEPT ![s] = @ \cup ids]
Goes(s, call) == rpcs' = [rpcs EXCEPT ![s] = call]
Counted == rpcCount < MaxRpcs /\ rpcCount' = rpcCount + 1

(***************************************************************************)
(* handleRpc: the entity must be "user"; what it refuses reaches no action.*)
(***************************************************************************)
ActionOf(word) ==
    CASE word = "update" -> "update"
      [] word \in {"delete", "remove"} -> "delete"
      [] OTHER -> "unsupported"

(* A call that is finished keeps its slot: another takes another slot.     *)
RpcDone(call) == [step |-> "answered", tenant |-> call.tenant]

BeginRpc(s, call) ==
    /\ ~Active(s) /\ (\A earlier \in 1..(s - 1) : Active(earlier)) /\ Counted
    /\ Goes(s, call) /\ Remember(accounts, rpcs')
    /\ wrote' = [wrote EXCEPT ![s] = {}]
    /\ UNCHANGED <<accounts, madeIds>>

(* An update gives the name or the role, a delete neither.                 *)
HandleRpc(s) ==
    \E word \in {"update", "delete", "remove", "drop"}, t \in UserTenants, i \in AccountIds,
       n \in UserNames \cup {Omitted}, r \in GivenRoles :
        /\ ActionOf(word) # "unsupported"
        /\ IF ActionOf(word) = "update" THEN (n = Omitted) # (r = Omitted) ELSE n = Omitted /\ r = Omitted
        /\ BeginRpc(s, [step |-> ActionOf(word), tenant |-> t, id |-> i, name |-> n, role |-> r])

(***************************************************************************)
(* The actions                                                             *)
(***************************************************************************)
(* The tenant replaces whatever the caller's filter said of it; filter is  *)
(* the tenant in the options, or Omitted.                                  *)
HandleUserList(tenant, filter) == {i \in Accounts : accounts[i].tenant = tenant}

HandleUserRead(tenant, id) == {i \in {id} \cap Accounts : accounts[i].tenant = tenant}

(* Username and email are required, and a name that is taken conflicts.    *)
CanCreate(n) == n # NoText /\ Named(n) = {} /\ madeIds < MaxAccounts

HandleUserCreate(t, n, r) ==
    /\ CanCreate(n) /\ Counted
    /\ LET row == CreateUserToJson([name |-> n, tenant |-> t, role |-> r])
           rows == [accounts EXCEPT ![madeIds + 1] = row]
       IN WriteRows(rows) /\ Remember(rows, rpcs)
    /\ madeIds' = madeIds + 1
    /\ UNCHANGED <<rpcs, wrote>>

(* getUser, and "User not found" for the row of another tenant.            *)
CheckTenant(s, next) ==
    /\ LET row == accounts[rpcs[s].id] IN
       Goes(s, IF row # NoAccount /\ row.tenant = rpcs[s].tenant
               THEN [rpcs[s] EXCEPT !.step = next] ELSE RpcDone(rpcs[s]))
    /\ Remember(accounts, rpcs')
    /\ UNCHANGED <<accounts, madeIds, wrote, rpcCount>>

HandleUserUpdate(s) == rpcs[s].step = "update" /\ CheckTenant(s, "updateUser")
HandleUserDelete(s) == rpcs[s].step = "delete" /\ CheckTenant(s, "deleteUser")

(* Client::updateUser: not found when the row is gone, a conflict when the *)
(* new name is taken.                                                      *)
UpdateUser(s) ==
    /\ rpcs[s].step = "updateUser"
    /\ LET id == rpcs[s].id
           ok == accounts[id] # NoAccount /\ (rpcs[s].name = Omitted \/ Named(rpcs[s].name) \subseteq {id})
           rows == IF ok THEN [accounts EXCEPT ![id] = UpdateUserToJson(@, rpcs[s])] ELSE accounts
       IN
       /\ WriteRows(rows) /\ Wrote(s, IF ok THEN {id} ELSE {})
       /\ Goes(s, RpcDone(rpcs[s])) /\ Remember(rows, rpcs')
    /\ UNCHANGED <<madeIds, rpcCount>>

DeleteUser(s) ==
    /\ rpcs[s].step = "deleteUser"
    /\ LET id == rpcs[s].id
           rows == [accounts EXCEPT ![id] = NoAccount]
       IN
       /\ WriteRows(rows) /\ Wrote(s, {id} \cap Accounts)
       /\ Goes(s, RpcDone(rpcs[s])) /\ Remember(rows, rpcs')
    /\ UNCHANGED <<madeIds, rpcCount>>

(***************************************************************************)
(* The typed calls of Client that no route uses: batches stop at the first *)
(* item that fails and keep what was done before it.                       *)
(***************************************************************************)
BatchCall(op, items) ==
    [step |-> "batch", tenant |-> NoUserTenant, op |-> op, items |-> items, left |-> items, ok |-> TRUE]

BeginBatch(s, op, items) == BeginRpc(s, BatchCall(op, items))

BatchAfter(s, ok) == [rpcs[s] EXCEPT !.left = IF ok THEN Tail(@) ELSE <<>>, !.ok = ok]

BatchItem(s, ok, rows, id) ==
    /\ WriteRows(rows) /\ Wrote(s, IF ok THEN {id} ELSE {})
    /\ Goes(s, BatchAfter(s, ok)) /\ Remember(rows, rpcs')
    /\ UNCHANGED rpcCount

InBatch(s, op) == rpcs[s].step = "batch" /\ rpcs[s].op = op /\ rpcs[s].left # <<>>

BatchCreateUsers(s) ==
    /\ InBatch(s, "create") /\ madeIds < MaxAccounts
    /\ LET n == Head(rpcs[s].left)
           ok == CanCreate(n)
           row == CreateUserToJson([name |-> n, tenant |-> NoUserTenant, role |-> Omitted])
       IN
       /\ BatchItem(s, ok, IF ok THEN [accounts EXCEPT ![madeIds + 1] = row] ELSE accounts, madeIds + 1)
       /\ madeIds' = IF ok THEN madeIds + 1 ELSE madeIds

BatchUpdateUsers(s) ==
    /\ InBatch(s, "update")
    /\ LET id == Head(rpcs[s].left)
           ok == accounts[id] # NoAccount
           to == [name |-> Omitted, role |-> "Admin"]
       IN BatchItem(s, ok, IF ok THEN [accounts EXCEPT ![id] = UpdateUserToJson(@, to)] ELSE accounts, id)
    /\ UNCHANGED madeIds

BatchDeleteUsers(s) ==
    /\ InBatch(s, "delete")
    /\ LET id == Head(rpcs[s].left)
           ok == accounts[id] # NoAccount
       IN BatchItem(s, ok, IF ok THEN [accounts EXCEPT ![id] = NoAccount] ELSE accounts, id)
    /\ UNCHANGED madeIds

(* updateManyUsers and deleteManyUsers change every row of a role.         *)
ManyUsers(rows) ==
    /\ rows # accounts /\ Counted
    /\ WriteRows(rows) /\ Remember(rows, rpcs)
    /\ UNCHANGED <<madeIds, rpcs, wrote>>

UpdateManyUsers(role) ==
    ManyUsers([i \in AccountIds |-> IF i \in Accounts /\ accounts[i].role = role
                                    THEN UpdateUserToJson(accounts[i], [name |-> Omitted, role |-> "user"])
                                    ELSE accounts[i]])

DeleteManyUsers(role) ==
    ManyUsers([i \in AccountIds |-> IF accounts[i].role = role THEN NoAccount ELSE accounts[i]])

(* The REST routes: Client::updateEntity may give a row to another tenant. *)
UpdateEntity(i, t) ==
    /\ i \in Accounts /\ accounts[i].tenant # t
    /\ ManyUsers([accounts EXCEPT ![i].tenant = t])

(***************************************************************************)
(* The whole                                                               *)
(***************************************************************************)
InitUsers ==
    /\ accounts = [i \in AccountIds |-> NoAccount]
    /\ madeIds = 0 /\ rpcCount = 0
    /\ rpcs = [s \in RpcSlots |-> FreeSlot]
    /\ within = [s \in RpcSlots |-> {}] /\ wrote = [s \in RpcSlots |-> {}]

NextUsers ==
    \/ \E s \in RpcSlots :
        \/ HandleRpc(s)
        \/ HandleUserUpdate(s) \/ UpdateUser(s)
        \/ HandleUserDelete(s) \/ DeleteUser(s)
        \/ \E a, b \in UserNames : BeginBatch(s, "create", <<a, b>>)
        \/ \E op \in {"update", "delete"}, i, j \in AccountIds : i # j /\ BeginBatch(s, op, <<i, j>>)
        \/ BatchCreateUsers(s) \/ BatchUpdateUsers(s) \/ BatchDeleteUsers(s)
    \/ \E t \in UserTenants, n \in UserNames, r \in GivenRoles : HandleUserCreate(t, n, r)
    \/ \E role \in SchemaRoles : UpdateManyUsers(role) \/ DeleteManyUsers(role)
    \/ \E i \in AccountIds, t \in UserTenants : UpdateEntity(i, t)

(***************************************************************************)
(* Properties                                                              *)
(***************************************************************************)
(* Rows carry a role of the schema, and no two the same name, whichever    *)
(* calls interleave.                                                       *)
TypeOKUsers ==
    /\ \A i \in Accounts : accounts[i].role \in SchemaRoles /\ accounts[i].name \in UserNames
    /\ \A i, j \in Accounts : accounts[i].name = accounts[j].name => i = j
    /\ madeIds \in 0..MaxAccounts

(* An RPC call changes or removes only rows that were in its tenant at     *)
(* some moment of the call: between the check of the tenant and the write  *)
(* a row may be moved, deleted or renamed by others.                       *)
RpcStaysInTenant ==
    \A s \in RpcSlots : rpcs[s].step = "answered" => wrote[s] \subseteq within[s]

(* What an RPC call answers with is of the tenant it was made for.         *)
ShowsOwnTenant ==
    \A t \in UserTenants :
        /\ \A f \in UserTenants \cup {Omitted} : HandleUserList(t, f) = InTenant(accounts, t)
        /\ \A i \in AccountIds : HandleUserRead(t, i) = {i} \cap InTenant(accounts, t)

(* A batch that answers with a number changed one row per item; a batch    *)
(* that fails has stopped at the item that failed.                         *)
BatchMeansAll ==
    \A s \in RpcSlots : (rpcs[s].step = "batch" /\ rpcs[s].left = <<>>) =>
        (rpcs[s].ok <=> Cardinality(wrote[s]) = Len(rpcs[s].items))
=============================================================================
