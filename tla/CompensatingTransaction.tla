----------------------- MODULE CompensatingTransaction ----------------------
(***************************************************************************)
(* Transactions of the adapters whose store has none (core/                *)
(* compensating_transaction.cpp), with the Redis adapter as the store      *)
(* (adapters/redis/redis_adapter_crud.cpp): every write is made at once    *)
(* and an undo is logged for it; rollback runs the undos backwards through *)
(* the same adapter.                                                       *)
(*                                                                         *)
(* One thread serves requests; other daemons write to the same Redis.  A   *)
(* command that fails may have been executed, only its answer was lost.    *)
(* The set that indexes the records of an entity is in AdapterStore.  The  *)
(* undos are themselves adapter calls made while the transaction is still  *)
(* active, so they log too, into the vector that rollback is iterating.    *)
(***************************************************************************)
EXTENDS Integers, Sequences

CONSTANTS
    Ids,         \* record ids
    Fields,      \* fields of a record, "id" apart
    MaxValue,    \* a field holds 1 .. MaxValue, 0: the record lacks it
    MaxLog,      \* bound on the entries logged before a rollback
    RedisFails,  \* may a Redis command fail?
    Throws,      \* may handling an operation throw (an "id" that is no string)?
    OthersWrite  \* do other daemons write?

ASSUME CompensatingAssumption ==
    /\ MaxValue \in Nat /\ MaxLog \in Nat
    /\ RedisFails \in BOOLEAN /\ Throws \in BOOLEAN /\ OthersWrite \in BOOLEAN

VARIABLES
    row,       \* the records in Redis
    active,    \* compensating_tx_ && compensating_tx_->isActive()
    log,       \* undo_log_
    capacity,  \* undo_log_.capacity()
    pc,        \* what the serving thread is doing
    next,      \* rollback: index of the entry to undo next
    dangling,  \* rollback: its iterator points into a freed array
    base,      \* history: the records when the transaction began
    excused    \* history: records the log does not know all about

tx   == <<active, log, capacity>>
ctl  == <<pc, next, dangling>>
vars == <<row, tx, ctl, base, excused>>

Data  == [Fields -> 0 .. MaxValue]
NoRow == [exists |-> FALSE, data |-> [f \in Fields |-> 0]]
Rows  == {NoRow} \cup [exists : {TRUE}, data : Data]
Entry == [type : {"create", "update", "delete"}, id : Ids, old : Rows]

(* The rows, the undo log and where the batch and its rollback stand.      *)
TypeOK ==
    /\ row \in [Ids -> Rows]
    /\ active \in BOOLEAN
    /\ log \in Seq(Entry)
    /\ capacity \in Nat
    /\ pc \in {"idle", "batch", "undo", "rolledBack"}
    /\ next \in Nat
    /\ dangling \in BOOLEAN
    /\ base \in [Ids -> Rows]
    /\ excused \subseteq Ids
    /\ Len(log) <= capacity
    /\ ~active => log = << >>
    /\ pc = "undo" => active /\ next <= Len(log)

Init ==
    /\ row \in [Ids -> Rows]
    /\ active = FALSE /\ log = << >> /\ capacity = 0
    /\ pc = "idle" /\ next = 0 /\ dangling = FALSE
    /\ base = row
    /\ excused = {}
-----------------------------------------------------------------------------
Exists(i) == row[i].exists

(* for (it : data) record[it.key()] = it.value(): fields are added and     *)
(* replaced, never dropped.                                                *)
Merged(old, data) ==
    [exists |-> TRUE,
     data   |-> [f \in Fields |-> IF data[f] = 0 THEN old.data[f] ELSE data[f]]]

Undo(type, i, old) == [type |-> type, id |-> i, old |-> old]

(* std::vector doubles its array when it is full.                          *)
Grown == IF Len(log) < capacity THEN capacity
         ELSE IF capacity = 0 THEN 1 ELSE 2 * capacity

(* recordCreate, recordUpdate, recordDelete                                *)
Record(entry) ==
    IF active
    THEN /\ log' = Append(log, entry)
         /\ capacity' = Grown
         /\ UNCHANGED active
    ELSE UNCHANGED tx

Serving == pc \in {"idle", "batch"} /\ Len(log) < MaxLog

(* A failed operation ends a batch with rollbackTransaction(); the first   *)
(* entry to undo is the last one.                                          *)
Fail == IF pc = "batch"
        THEN pc' = "undo" /\ next' = Len(log') /\ UNCHANGED dangling
        ELSE UNCHANGED ctl
-----------------------------------------------------------------------------
(* RedisAdapter::create: SET, whether or not the id is taken; then the log *)
Create(i, data) ==
    /\ Serving
    /\ row' = [row EXCEPT ![i] = [exists |-> TRUE, data |-> data]]
    /\ Record(Undo("create", i, NoRow))
    /\ excused' = IF active /\ Exists(i) THEN excused \cup {i} ELSE excused
    /\ UNCHANGED <<ctl, base>>

(* SET failed: nothing is logged, of a SET that was executed neither.      *)
CreateFails(i, data) ==
    /\ Serving
    /\ RedisFails
    /\ row' \in {row, [row EXCEPT ![i] = [exists |-> TRUE, data |-> data]]}
    /\ excused' = IF active /\ row' # row THEN excused \cup {i} ELSE excused
    /\ UNCHANGED <<tx, base>>
    /\ Fail

(* Mutant of Update: the snapshot is taken after the write.                *)
UpdateThenRecord(i, data) ==
    /\ Serving
    /\ Exists(i)
    /\ row' = [row EXCEPT ![i] = Merged(@, data)]
    /\ Record(Undo("update", i, row'[i]))
    /\ UNCHANGED <<ctl, base, excused>>

(* RedisAdapter::update: GET, log what was read, SET                       *)
Update(i, data) ==
    /\ Serving
    /\ Exists(i)
    /\ Record(Undo("update", i, row[i]))
    /\ row' = [row EXCEPT ![i] = Merged(@, data)]
    /\ UNCHANGED <<ctl, base, excused>>

(* RedisAdapter::remove: GET and log (of a transaction only), DEL          *)
Remove(i) ==
    /\ Serving
    /\ Exists(i)
    /\ Record(Undo("delete", i, row[i]))
    /\ row' = [row EXCEPT ![i] = NoRow]
    /\ UNCHANGED <<ctl, base, excused>>

(* RedisAdapter::remove does not look at a snapshot that failed: the DEL   *)
(* is made all the same and no undo is logged.  Its answer may be lost, in *)
(* or out of a transaction.                                                *)
RemoveUnlogged(i) ==
    /\ Serving
    /\ RedisFails
    /\ Exists(i)
    /\ row' = [row EXCEPT ![i] = NoRow]
    /\ excused' = IF active THEN excused \cup {i} ELSE excused
    /\ UNCHANGED <<tx, base>>
    /\ UNCHANGED ctl \/ Fail

(* The write failed after its undo was logged, executed or not.            *)
WriteFails(i) ==
    /\ Serving
    /\ RedisFails
    /\ Exists(i)
    /\ \/ /\ Record(Undo("update", i, row[i]))
          /\ row' \in {row} \cup {[row EXCEPT ![i] = Merged(@, data)] : data \in Data}
       \/ /\ Record(Undo("delete", i, row[i]))
          /\ row' \in {row, [row EXCEPT ![i] = NoRow]}
    /\ Fail
    /\ UNCHANGED <<base, excused>>

(* There is no such record (a DEL that drops nothing is NotFound), update's *)
(* GET failed, remove's GET and DEL did, or the operation is malformed.     *)
Rejected ==
    /\ Serving
    /\ UNCHANGED <<row, tx, base, excused>>
    /\ Fail

(* The operation throws: the handler answers, the transaction stays.       *)
Throw ==
    /\ pc = "batch"
    /\ Throws
    /\ pc' = "idle"
    /\ UNCHANGED <<row, tx, next, dangling, base, excused>>
-----------------------------------------------------------------------------
(* beginTransaction: refused while a transaction is active, else a new     *)
(* CompensatingTransaction with an empty log                               *)
Begin ==
    /\ pc = "idle"
    /\ ~active
    /\ active' = TRUE /\ log' = << >> /\ capacity' = 0
    /\ pc' = "batch"
    /\ base' = row
    /\ excused' = {}
    /\ UNCHANGED <<row, next, dangling>>

(* Mutant of Commit: the log is kept.                                      *)
CommitKeepsLog ==
    /\ pc = "batch"
    /\ active' = FALSE
    /\ pc' = "idle"
    /\ UNCHANGED <<row, log, capacity, next, dangling, base, excused>>

(* commitTransaction: the log is discarded.                                *)
Commit ==
    /\ pc = "batch"
    /\ active' = FALSE /\ log' = << >> /\ capacity' = 0
    /\ pc' = "idle"
    /\ UNCHANGED <<row, next, dangling, base, excused>>
-----------------------------------------------------------------------------
(* What an undo logs while it runs: remove and update the record they      *)
(* find, create itself.                                                    *)
UndoRecord(e) ==
    CASE e.type = "create" /\ Exists(e.id) -> Record(Undo("delete", e.id, row[e.id]))
      [] e.type = "update" /\ Exists(e.id) -> Record(Undo("update", e.id, row[e.id]))
      [] e.type = "delete"                 -> Record(Undo("create", e.id, NoRow))
      [] OTHER                             -> UNCHANGED tx

(* What the record of an entry is after its undo.                          *)
Undone(e) ==
    CASE e.type = "create" -> NoRow
      [] e.type = "update" -> IF Exists(e.id) THEN Merged(row[e.id], e.old.data) ELSE row[e.id]
      [] e.type = "delete" -> e.old

(* One turn of rollback's loop.  The array stays where it is, or the call  *)
(* has written before it logs (create): the undo does what it should.      *)
UndoEntry ==
    /\ pc = "undo" /\ next > 0 /\ ~dangling
    /\ LET e == log[next] IN
         /\ UndoRecord(e)
         /\ capacity' = capacity \/ e.type = "delete"
         /\ row' = [row EXCEPT ![e.id] = Undone(e)]
    /\ dangling' = (capacity' # capacity)
    /\ next' = next - 1
    /\ UNCHANGED <<pc, base, excused>>

(* remove and update log first: when that moves the array, the entity, id  *)
(* and data they were called with are references into freed memory, and    *)
(* the record that was meant is not the one that is written.               *)
UndoMisses ==
    /\ pc = "undo" /\ next > 0 /\ ~dangling
    /\ LET e == log[next] IN
         /\ e.type # "delete"
         /\ UndoRecord(e)
         /\ capacity' # capacity
    /\ dangling' = TRUE
    /\ next' = next - 1
    /\ UNCHANGED <<row, pc, base, excused>>

(* A Redis command of an undo fails: counted, and the loop goes on.  With  *)
(* nothing logged the record may be gone (remove's DEL after a GET that    *)
(* failed) or be back (a SET that was executed); with the undo logged the  *)
(* write that follows may have been executed where the array stayed.       *)
UndoFails ==
    /\ pc = "undo" /\ next > 0 /\ ~dangling
    /\ RedisFails
    /\ LET e    == log[next]
           Tried == {row, [row EXCEPT ![e.id] = Undone(e)]} IN
         \/ /\ UNCHANGED tx
            /\ row' \in (IF e.type = "update" THEN {row} ELSE Tried)
         \/ /\ e.type # "delete"
            /\ UndoRecord(e)
            /\ row' \in (IF capacity' = capacity THEN Tried ELSE {row})
    /\ dangling' = (capacity' # capacity)
    /\ next' = next - 1
    /\ UNCHANGED <<pc, base, excused>>

(* Reading the loop's entry from the freed array: undefined.  The build's  *)
(* outcomes are a crash (Restart) and an entry whose moved-from names      *)
(* match no record.                                                        *)
UndoDangling ==
    /\ pc = "undo" /\ next > 0 /\ dangling
    /\ next' = next - 1
    /\ UNCHANGED <<row, tx, pc, dangling, base, excused>>

(* active_ = false; undo_log_.clear()                                      *)
RollbackEnds ==
    /\ pc = "undo" /\ next = 0
    /\ active' = FALSE /\ log' = << >> /\ capacity' = 0
    /\ pc' = "rolledBack"
    /\ dangling' = FALSE
    /\ UNCHANGED <<row, next, base, excused>>

Answer ==
    /\ pc = "rolledBack"
    /\ pc' = "idle"
    /\ UNCHANGED <<row, tx, next, dangling, base, excused>>

(* The daemon stops or crashes: the log was only ever in memory.           *)
Restart ==
    /\ active' = FALSE /\ log' = << >> /\ capacity' = 0
    /\ pc' = "idle" /\ next' = 0 /\ dangling' = FALSE
    /\ UNCHANGED <<row, base, excused>>

(* Another daemon writes the record.                                       *)
ForeignWrite(i) ==
    /\ OthersWrite
    /\ row' \in {[row EXCEPT ![i] = r] : r \in Rows}
    /\ excused' = excused \cup {i}
    /\ UNCHANGED <<tx, ctl, base>>

Next ==
    \/ \E i \in Ids : \/ \E data \in Data : Create(i, data) \/ CreateFails(i, data) \/ Update(i, data)
                      \/ Remove(i) \/ RemoveUnlogged(i) \/ WriteFails(i) \/ ForeignWrite(i)
    \/ Rejected \/ Throw \/ Begin \/ Commit
    \/ UndoEntry \/ UndoMisses \/ UndoFails \/ UndoDangling \/ RollbackEnds \/ Answer \/ Restart

Spec == Init /\ [][Next]_vars
-----------------------------------------------------------------------------
Oldest(n, i) == log[n].id = i /\ \A m \in 1 .. n - 1 : log[m].id # i

(* The undo log is an inverse of the transaction: for a record it mentions *)
(* the oldest entry, which a backwards pass runs last, leads back to what  *)
(* the record was at beginTransaction, and a record it does not mention is *)
(* as it was.  Exceptions are the writes of other daemons, a create over   *)
(* an existing id (redis_adapter_crud.cpp:26), and the two writes that are *)
(* made without an undo when Redis fails: a remove whose snapshot could    *)
(* not be read (redis_adapter_crud.cpp:92-99), and a create whose SET was  *)
(* executed and answered as failed (redis_adapter_crud.cpp:26-29).  An     *)
(* update always has its undo, whatever fails.                             *)
LogInverts ==
    active /\ pc # "undo" =>
      \A i \in Ids \ excused :
        \/ \E n \in 1 .. Len(log) : Oldest(n, i) /\ log[n].old = base[i]
        \/ row[i] = base[i] /\ \A n \in 1 .. Len(log) : log[n].id # i

(* "if any operation fails, the entire batch is rolled back"               *)
(* (batch_route_handler.hpp): rollbackTransaction leaves every record as   *)
(* it was before the batch.                                                *)
RollbackRestores ==
    pc = "rolledBack" => \A i \in Ids \ excused : row[i] = base[i]
=============================================================================
