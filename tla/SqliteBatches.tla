--------------------------- MODULE SqliteBatches ----------------------------
(***************************************************************************)
(* Batch and bulk requests (daemon/handlers/batch_route_handler.cpp,       *)
(* daemon/bulk_handler.cpp) over the SQLite adapter.  All requests of the  *)
(* daemon share one connection, hence one transaction; what guards it is   *)
(* SQLiteTransactionManager::in_transaction_, an atomic flag that is read  *)
(* before and stored after the statement it is about, outside the lock     *)
(* that serialises statements.  Drogon serves requests on one thread       *)
(* unless it is told otherwise (Procs has one element); lock and flag are  *)
(* there for more.                                                         *)
(*                                                                         *)
(* A row is the number of the write that made it; a delete is a write.     *)
(***************************************************************************)
EXTENDS Integers, FiniteSets

CONSTANTS
    Procs,        \* threads that serve requests
    Ids,          \* rows
    MaxVersion,   \* bound on the number of writes
    CommitFails,  \* may COMMIT return an error?
    Throws,       \* may handling an operation throw?
    Crashes       \* may the daemon die and start again?

ASSUME BatchAssumption ==
    /\ MaxVersion \in Nat
    /\ CommitFails \in BOOLEAN /\ Throws \in BOOLEAN /\ Crashes \in BOOLEAN

VARIABLES
    row,      \* what the connection reads
    durable,  \* what a rollback, or a restart, brings back
    version,  \* number of the latest write
    open,     \* SQLite: a transaction is open on the connection
    flag,     \* in_transaction_
    pc,       \* per request: the step its handler is about to make
    wrote,    \* per request: the writes of its batch, <<id, version>>
    acked,    \* history: writes reported as successful
    guests,   \* history: plain writes inside the open transaction
    lost,     \* history: plain writes that went down with a transaction
    undone,   \* history: writes of batches in which an operation failed
    cause     \* history: what may have left the transaction open for good

db      == <<row, durable, version>>
tx      == <<open, flag>>
history == <<acked, guests, lost, undone, cause>>
vars    == <<db, tx, pc, wrote, history>>

Owning == {"begun", "ops", "commit", "commitExec", "rollback", "rollbackExec"}
Steps  == {"idle", "begin", "committed", "rolledBack"} \cup Owning
Causes == {"commitFailed", "exception", "flagRace"}

(* The rows, the connection's transaction and where each request stands.   *)
TypeOK ==
    /\ row \in [Ids -> 0 .. MaxVersion]
    /\ durable \in [Ids -> 0 .. MaxVersion]
    /\ version \in 0 .. MaxVersion
    /\ open \in BOOLEAN
    /\ flag \in BOOLEAN
    /\ pc \in [Procs -> Steps]
    /\ wrote \in [Procs -> SUBSET (Ids \X (1 .. MaxVersion))]
    /\ acked \subseteq Ids \X (1 .. MaxVersion)
    /\ guests \subseteq Ids \X (1 .. MaxVersion)
    /\ lost \subseteq Ids \X (1 .. MaxVersion)
    /\ undone \subseteq Ids \X (1 .. MaxVersion)
    /\ cause \subseteq Causes
    /\ ~open => row = durable

Init ==
    /\ row = [i \in Ids |-> 0]
    /\ durable = [i \in Ids |-> 0]
    /\ version = 0
    /\ open = FALSE /\ flag = FALSE
    /\ pc = [p \in Procs |-> "idle"]
    /\ wrote = [p \in Procs |-> {}]
    /\ acked = {} /\ guests = {} /\ lost = {} /\ undone = {} /\ cause = {}
-----------------------------------------------------------------------------
Goto(p, step) == pc' = [pc EXCEPT ![p] = step] /\ UNCHANGED wrote

(* The handler answers.                                                    *)
Return(p) == pc' = [pc EXCEPT ![p] = "idle"] /\ wrote' = [wrote EXCEPT ![p] = {}]

(* Mutant of Execute: without a transaction nothing is written through.    *)
ExecuteUncommitted(i) ==
    /\ version < MaxVersion
    /\ version' = version + 1
    /\ row' = [row EXCEPT ![i] = version']
    /\ UNCHANGED <<durable, open, flag>>

(* executeInsert, executeUpdate, executeDelete: one statement, under the   *)
(* connection's lock, in the transaction that is open or in one of its own *)
Execute(i) ==
    /\ version < MaxVersion
    /\ version' = version + 1
    /\ row' = [row EXCEPT ![i] = version']
    /\ durable' = IF open THEN durable ELSE row'
    /\ UNCHANGED <<open, flag>>

(* A request that is not a batch: create, update or remove by id.          *)
PlainWrite(p, i) ==
    /\ pc[p] = "idle"
    /\ Execute(i)
    /\ acked' = acked \cup {<<i, version'>>}
    /\ guests' = IF open THEN guests \cup {<<i, version'>>} ELSE guests
    /\ UNCHANGED <<pc, wrote, lost, undone, cause>>
-----------------------------------------------------------------------------
(* SQLiteTransactionManager::begin: the flag is looked at, ...             *)
BeginRefused(p) ==
    /\ pc[p] = "idle"
    /\ flag
    /\ UNCHANGED vars

BeginChecked(p) ==
    /\ pc[p] = "idle"
    /\ ~flag
    /\ Goto(p, "begin")
    /\ UNCHANGED <<db, tx, history>>

(* ... BEGIN is executed, which SQLite refuses inside a transaction, ...   *)
BeginFails(p) ==
    /\ pc[p] = "begin"
    /\ open
    /\ Return(p)
    /\ UNCHANGED <<db, tx, history>>

(* Mutant of BeginExec: a BEGIN inside a transaction joins it.             *)
BeginJoins(p) ==
    /\ pc[p] = "begin"
    /\ open' = TRUE
    /\ Goto(p, "begun")
    /\ UNCHANGED <<db, flag, history>>

BeginExec(p) ==
    /\ pc[p] = "begin"
    /\ ~open
    /\ open' = TRUE
    /\ Goto(p, "begun")
    /\ UNCHANGED <<db, flag, history>>

(* ... and the flag is set.                                                *)
BeginDone(p) ==
    /\ pc[p] = "begun"
    /\ flag' = TRUE
    /\ Goto(p, "ops")
    /\ UNCHANGED <<db, open, history>>

(* One operation of the batch succeeds.                                    *)
BatchOp(p, i) ==
    /\ pc[p] = "ops"
    /\ Execute(i)
    /\ wrote' = [wrote EXCEPT ![p] = @ \cup {<<i, version'>>}]
    /\ UNCHANGED <<pc, history>>

(* One is malformed or fails (conflict, not found): roll back.             *)
BatchOpFails(p) ==
    /\ pc[p] = "ops"
    /\ undone' = undone \cup wrote[p]
    /\ Goto(p, "rollback")
    /\ UNCHANGED <<db, tx, acked, guests, lost, cause>>

(* Or it throws (Json::Value::asString of an object in a bulk update,      *)
(* nlohmann's dump of ill-formed UTF-8 in SQLiteTypeConverter).  The       *)
(* handlers catch, answer, and leave the transaction and the flag alone.   *)
BatchThrows(p) ==
    /\ pc[p] = "ops"
    /\ Throws
    /\ undone' = undone \cup wrote[p]
    /\ cause' = cause \cup {"exception"}
    /\ Return(p)
    /\ UNCHANGED <<db, tx, acked, guests, lost>>

BatchEnd(p) ==
    /\ pc[p] = "ops"
    /\ wrote[p] # {}
    /\ Goto(p, "commit")
    /\ UNCHANGED <<db, tx, history>>
-----------------------------------------------------------------------------
(* commit and rollback start alike: the flag is looked at.  Without it the *)
(* call is an error; a batch answers "Failed to commit transaction", and   *)
(* does not look at the result of a rollback.                              *)
NoTransaction(p) ==
    /\ pc[p] \in {"commit", "rollback"}
    /\ ~flag
    /\ Return(p)
    /\ UNCHANGED <<db, tx, history>>

Checked(p) ==
    /\ pc[p] \in {"commit", "rollback"}
    /\ flag
    /\ Goto(p, IF pc[p] = "commit" THEN "commitExec" ELSE "rollbackExec")
    /\ UNCHANGED <<db, tx, history>>

CommitExec(p) ==
    /\ pc[p] = "commitExec"
    /\ open
    /\ open' = FALSE
    /\ durable' = row
    /\ guests' = {}
    /\ Goto(p, "committed")
    /\ UNCHANGED <<row, version, flag, acked, lost, undone, cause>>

(* COMMIT failed; nothing is rolled back and the flag stays.               *)
CommitExecFails(p) ==
    /\ pc[p] = "commitExec"
    /\ CommitFails
    /\ cause' = cause \cup {"commitFailed"}
    /\ Return(p)
    /\ UNCHANGED <<db, tx, acked, guests, lost, undone>>

(* ROLLBACK takes the plain writes of other requests with it.              *)
RollbackExec(p) ==
    /\ pc[p] = "rollbackExec"
    /\ open
    /\ open' = FALSE
    /\ row' = durable
    /\ guests' = {}
    /\ lost' = lost \cup guests
    /\ Goto(p, "rolledBack")
    /\ UNCHANGED <<durable, version, flag, acked, undone, cause>>

(* Mutant of FlagOff: commit and rollback leave in_transaction_ set.       *)
FlagKept(p) ==
    /\ pc[p] \in {"committed", "rolledBack"}
    /\ acked' = IF pc[p] = "committed" THEN acked \cup wrote[p] ELSE acked
    /\ Return(p)
    /\ UNCHANGED <<db, tx, guests, lost, undone, cause>>

(* The flag is cleared and the batch answered, with success after COMMIT.  *)
(* By now somebody else's BEGIN may have been executed.                    *)
FlagOff(p) ==
    /\ pc[p] \in {"committed", "rolledBack"}
    /\ flag' = FALSE
    /\ acked' = IF pc[p] = "committed" THEN acked \cup wrote[p] ELSE acked
    /\ cause' = IF open THEN cause \cup {"flagRace"} ELSE cause
    /\ Return(p)
    /\ UNCHANGED <<db, open, guests, lost, undone>>

(* The process dies; SQLite's recovery drops what was not committed.       *)
Crash ==
    /\ Crashes
    /\ row' = durable
    /\ open' = FALSE /\ flag' = FALSE
    /\ pc' = [p \in Procs |-> "idle"]
    /\ wrote' = [p \in Procs |-> {}]
    /\ guests' = {}
    /\ lost' = lost \cup guests
    /\ cause' = {}
    /\ UNCHANGED <<durable, version, acked, undone>>

Next ==
    \/ \E p \in Procs :
          \/ \E i \in Ids : PlainWrite(p, i) \/ BatchOp(p, i)
          \/ BeginRefused(p) \/ BeginChecked(p) \/ BeginFails(p) \/ BeginExec(p) \/ BeginDone(p)
          \/ BatchOpFails(p) \/ BatchThrows(p) \/ BatchEnd(p) \/ NoTransaction(p) \/ Checked(p)
          \/ CommitExec(p) \/ CommitExecFails(p) \/ RollbackExec(p) \/ FlagOff(p)
    \/ Crash

Spec == Init /\ [][Next]_vars
-----------------------------------------------------------------------------
Owners == {p \in Procs : pc[p] \in Owning}

(* Two batches never work in one transaction, and none works outside of    *)
(* one: although in_transaction_ is checked and set around the statement   *)
(* and not with it, SQLite's refusal of a nested BEGIN keeps batches apart *)
(* (SQLiteTransactionManager::begin).                                      *)
OneBatchAtATime ==
    /\ \A p, q \in Owners : p = q
    /\ Owners # {} => open

(* A write that was reported as successful, on its own or by a batch,      *)
(* survives any crash and any rollback, unless it was a plain write that   *)
(* fell into somebody else's transaction (SQLiteAdapter has one            *)
(* connection): then it shares that transaction's fate.                    *)
AcknowledgedIsDurable ==
    \A w \in acked : durable[w[1]] >= w[2] \/ w \in guests \cup lost

(* With no request under way there is no open transaction, and none is     *)
(* thought to be open, but for the three ways in which batches are locked  *)
(* out until a restart: a COMMIT that failed and an exception (the         *)
(* handlers roll back after neither), and a late "in_transaction_ = false" *)
(* that erases a successor's flag.                                         *)
WedgeExplained ==
    (\A p \in Procs : pc[p] = "idle") /\ (open \/ flag) => cause # {}

(* "if any operation fails, the entire batch is rolled back"               *)
(* (batch_route_handler.hpp): the writes of such a batch are never         *)
(* committed, by whoever's COMMIT.  After an exception, or a flag that was *)
(* erased, nobody rolls them back either: every request reads them until   *)
(* the process is restarted.                                               *)
FailedBatchIsNeverCommitted ==
    \A w \in undone : durable[w[1]] # w[2]
=============================================================================
