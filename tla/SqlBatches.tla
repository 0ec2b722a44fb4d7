----------------------------- MODULE SqlBatches -----------------------------
(***************************************************************************)
(* Bulk and batch requests over the SQL adapters (Postgres, MySQL): the    *)
(* connection pool, the one transaction object of the adapter, which       *)
(* executes no statement, and the handlers that begin, work through their  *)
(* items and commit or roll back.  Every statement takes a connection of   *)
(* its own from the pool, not the transaction's.  Requests interleave      *)
(* between adapter calls.                                                  *)
(*                                                                         *)
(* An item is the id of a row and its shape: good, bad (a field is         *)
(* missing, empty or of the wrong type) or odd (a type the JSON library    *)
(* throws on where the handler converts without asking).                   *)
(***************************************************************************)
EXTENDS Naturals, Sequences, FiniteSets, SequencesExt

CONSTANTS MaxConns,     \* max_connections_
          MaxBulks,     \* requests, numbered as they arrive
          BulkIds,      \* rows
          MaxPlain      \* bound on other statements in flight

ASSUME SqlBatchAssumption ==
    /\ MaxConns \in Nat /\ MaxBulks \in Nat /\ MaxPlain \in Nat
    /\ BulkIds # {}

VARIABLES idleConns,    \* available_connections_
          countedConns, \* created_connections_
          madeConns,    \* connections there are
          txConn,       \* tx_connection_ is set
          txActive,     \* is_active_ of its manager
          tableRows,    \* ids present
          bulks,        \* slot -> request
          plain,        \* statements of other requests in flight
          applied,      \* slot -> ids of the items that were executed and answered as done
          halfDone,     \* slots whose refused item was executed all the same
          threw         \* a handler was left by an exception with its transaction open

sqlBatchVars == <<idleConns, countedConns, madeConns, txConn, txActive, tableRows, bulks, plain, applied,
                  halfDone, threw>>
poolVars == <<idleConns, countedConns, madeConns>>
txVars == <<txConn, txActive>>

BulkKinds == {"create", "update", "delete", "batch"}
Unsent == [step |-> "unsent"]
BulkSlots == 1..MaxBulks

(***************************************************************************)
(* The pool.                                                               *)
(***************************************************************************)
InitialConns == IF MaxConns \div 2 < 1 THEN 1 ELSE MaxConns \div 2

(* initializePool fills the queue and does not count.                      *)
initializePool == idleConns = InitialConns /\ countedConns = 0 /\ madeConns = InitialConns

CanAcquire == idleConns > 0 \/ countedConns < MaxConns

acquire ==
    /\ CanAcquire
    /\ IF idleConns > 0
       THEN idleConns' = idleConns - 1 /\ UNCHANGED <<countedConns, madeConns>>
       ELSE countedConns' = countedConns + 1 /\ madeConns' = madeConns + 1 /\ UNCHANGED idleConns

release == idleConns' = idleConns + 1 /\ UNCHANGED <<countedConns, madeConns>>

(***************************************************************************)
(* The transaction of the adapter.                                         *)
(***************************************************************************)
Moves(p, step) == bulks' = [bulks EXCEPT ![p].step = step]
Ends(p, status) == bulks' = [bulks EXCEPT ![p].step = "answered", ![p].status = status]

(* begin throws while a transaction is active, and the handler answers     *)
(* with 500; without a connection it is refused.                           *)
beginTransaction(p) ==
    /\ bulks[p].step = "begin"
    /\ \/ ~txConn /\ ~CanAcquire /\ Ends(p, 500) /\ UNCHANGED <<poolVars, txVars>>
       \/ txConn /\ txActive /\ Ends(p, 500) /\ UNCHANGED <<poolVars, txVars>>
       \/ ~txConn /\ acquire /\ txConn' = TRUE /\ txActive' = TRUE /\ Moves(p, "item")
    /\ UNCHANGED <<tableRows, plain, applied, halfDone, threw>>

(* No request ends the transaction of another, so it is active here.       *)
(* commitTransaction and rollbackTransaction give the connection back; the *)
(* rows are as the statements left them.                                   *)
EndTransaction == txActive' = FALSE /\ txConn' = FALSE /\ release

commitTransaction(p) ==
    /\ bulks[p].step = "item" /\ bulks[p].left = <<>>
    /\ txActive /\ EndTransaction /\ Ends(p, 200)
    /\ UNCHANGED <<tableRows, plain, applied, halfDone, threw>>

rollbackTransaction(p) ==
    /\ bulks[p].step = "refused"
    /\ txActive /\ EndTransaction
    /\ Ends(p, 400)
    /\ UNCHANGED <<tableRows, plain, applied, halfDone, threw>>

(***************************************************************************)
(* What the handlers make of an item before they call the adapter.         *)
(***************************************************************************)
(* The tenant is written into the item, whatever it is.                    *)
handleBulkCreate(shape) == IF shape = "good" THEN "execute" ELSE "throw"

(* id and data must be there; asString throws on an object or an array.    *)
handleBulkUpdate(shape) == CASE shape = "good" -> "execute" [] shape = "bad" -> "refuse" [] shape = "odd" -> "throw"

(* Only strings that are not empty are ids.                                *)
handleBulkDelete(shape) == IF shape = "good" THEN "execute" ELSE "refuse"

(* Every field is asked for its type first.                                *)
handleBatch(shape) == IF shape = "good" THEN "execute" ELSE "refuse"

Verdict(kind, shape) ==
    CASE kind = "create" -> handleBulkCreate(shape)
      [] kind = "update" -> handleBulkUpdate(shape)
      [] kind = "delete" -> handleBulkDelete(shape)
      [] kind = "batch" -> handleBatch(shape)

(* A body that is not an array, or an empty one, is answered at once.      *)
ReceiveBulk(p, kind, items) ==
    /\ bulks[p] = Unsent /\ \A q \in 1..(p - 1) : bulks[q] # Unsent
    /\ bulks' = [bulks EXCEPT ![p] =
          [step |-> IF items = <<>> THEN "answered" ELSE "begin", kind |-> kind, items |-> items, left |-> items,
           status |-> IF items = <<>> THEN 400 ELSE 0]]
    /\ UNCHANGED <<poolVars, txVars, tableRows, plain, applied, halfDone, threw>>

(* withExceptionHandling answers with 500 and leaves the transaction.      *)
withExceptionHandling(p) == Ends(p, 500) /\ threw' = TRUE /\ UNCHANGED poolVars

CheckItem(p) ==
    /\ bulks[p].step = "item" /\ bulks[p].left # <<>>
    /\ LET verdict == Verdict(bulks[p].kind, Head(bulks[p].left).shape) IN
       \/ verdict = "execute" /\ CanAcquire /\ acquire /\ Moves(p, "statement") /\ UNCHANGED threw
       \/ verdict = "execute" /\ ~CanAcquire /\ Moves(p, "refused") /\ UNCHANGED <<poolVars, threw>>
       \/ verdict = "refuse" /\ Moves(p, "refused") /\ UNCHANGED <<poolVars, threw>>
       \/ verdict = "throw" /\ withExceptionHandling(p)
    /\ UNCHANGED <<txVars, tableRows, plain, applied, halfDone>>

(***************************************************************************)
(* Statements.  A create conflicts with a row of its id, the others need   *)
(* one; operations of a batch are creates here.  Any statement may fail,   *)
(* and one that was executed may be answered as an error: MySQL reads the  *)
(* row back and answers what that read says (mysql_adapter.cpp:183-203,    *)
(* 249-262), and an answer may be lost.                                    *)
(***************************************************************************)
Fits(kind, id) == (kind \in {"create", "batch"}) <=> (id \notin tableRows)
RowsAfter(kind, id) ==
    CASE kind \in {"create", "batch"} -> tableRows \cup {id}
      [] kind = "update" -> tableRows
      [] kind = "delete" -> tableRows \ {id}

(* Wrong: an item that fails is left out and the others go on.             *)
ExecuteItemSkips(p) ==
    /\ bulks[p].step = "statement"
    /\ release
    /\ LET id == Head(bulks[p].left).id
           kind == bulks[p].kind
       IN
       /\ bulks' = [bulks EXCEPT ![p].step = "item", ![p].left = Tail(@)]
       /\ IF Fits(kind, id)
          THEN tableRows' = RowsAfter(kind, id) /\ applied' = [applied EXCEPT ![p] = Append(@, id)]
          ELSE UNCHANGED <<tableRows, applied>>
    /\ UNCHANGED <<txVars, plain, halfDone, threw>>

ExecuteItem(p) ==
    /\ bulks[p].step = "statement"
    /\ release
    /\ LET id == Head(bulks[p].left).id
           kind == bulks[p].kind
       IN
       \/ /\ Fits(kind, id)
          /\ bulks' = [bulks EXCEPT ![p].step = "item", ![p].left = Tail(@)]
          /\ tableRows' = RowsAfter(kind, id)
          /\ applied' = [applied EXCEPT ![p] = Append(@, id)]
          /\ UNCHANGED halfDone
       \/ Moves(p, "refused") /\ UNCHANGED <<tableRows, applied, halfDone>>
       \/ /\ Fits(kind, id)
          /\ Moves(p, "refused")
          /\ tableRows' = RowsAfter(kind, id)
          /\ halfDone' = halfDone \cup {p}
          /\ UNCHANGED applied
    /\ UNCHANGED <<txVars, plain, threw>>

(* A request of one statement holds a connection while it runs.            *)
ConnectionGuard ==
    \/ plain < MaxPlain /\ acquire /\ plain' = plain + 1
    \/ plain > 0 /\ release /\ plain' = plain - 1

PlainStatement == ConnectionGuard /\ UNCHANGED <<txVars, tableRows, bulks, applied, halfDone, threw>>

(***************************************************************************)
(* The whole                                                               *)
(***************************************************************************)
InitSqlBatches ==
    /\ initializePool
    /\ txConn = FALSE /\ txActive = FALSE
    /\ tableRows \in SUBSET BulkIds
    /\ bulks = [p \in BulkSlots |-> Unsent]
    /\ applied = [p \in BulkSlots |-> <<>>] /\ halfDone = {}
    /\ plain = 0 /\ threw = FALSE

BulkItems == [id : BulkIds, shape : {"good"}] \cup [id : {CHOOSE i \in BulkIds : TRUE}, shape : {"bad", "odd"}]

(* Nothing is read after an item that is not good.                         *)
BulkBodies == {items \in SeqOf(BulkItems, 2) : Len(items) = 2 => items[1].shape = "good"}

NextSqlBatches ==
    \/ PlainStatement
    \/ \E p \in BulkSlots :
        \/ \E kind \in BulkKinds, items \in BulkBodies : ReceiveBulk(p, kind, items)
        \/ beginTransaction(p)
        \/ CheckItem(p)
        \/ ExecuteItem(p)
        \/ commitTransaction(p)
        \/ rollbackTransaction(p)

SpecSqlBatches == InitSqlBatches /\ [][NextSqlBatches]_sqlBatchVars

(***************************************************************************)
(* Properties                                                              *)
(***************************************************************************)
OwnsTransaction(p) == bulks[p].step \in {"item", "statement", "refused"}

(* One request at most has the transaction, it is open while one has it,   *)
(* and the flag and the connection of the adapter agree.                   *)
TypeOKSqlBatches ==
    /\ txConn = txActive /\ (\A p \in BulkSlots : OwnsTransaction(p) => txActive)
    /\ \A p, q \in BulkSlots : OwnsTransaction(p) /\ OwnsTransaction(q) => p = q
    /\ idleConns \in 0..madeConns /\ countedConns \in 0..MaxConns

(* Every connection is in the queue, in a statement or with the            *)
(* transaction, through refusals, exceptions and an exhausted pool; there  *)
(* are never more than the maximum and the initial ones, which the pool    *)
(* does not count.                                                         *)
ConnectionsAccounted ==
    /\ madeConns =
          idleConns + Cardinality({p \in BulkSlots : bulks[p].step = "statement"}) + plain + (IF txConn THEN 1 ELSE 0)
    /\ madeConns <= MaxConns + InitialConns

(* A request that is answered with 200 changed one row for each of its     *)
(* items in order; any other answer means it stopped at an item, and       *)
(* changed the rows of the ones before it, of none after it, and of that   *)
(* item only where its statement was executed and then answered as an      *)
(* error (the read-back of MySQLAdapter::create and update), which is told *)
(* by a 400.                                                               *)
AppliedAsTold ==
    \A p \in BulkSlots : bulks[p].step = "answered" =>
        LET ids == [k \in DOMAIN bulks[p].items |-> bulks[p].items[k].id] IN
        /\ IsPrefix(applied[p], ids)
        /\ (bulks[p].status = 200) <=> (bulks[p].items # <<>> /\ applied[p] = ids)
        /\ p \in halfDone => bulks[p].status = 400

(* The transaction is open only while a request works in it, or after an   *)
(* exception between begin and commit, from which it never recovers.       *)
OpenHasReason == txActive => threw \/ \E p \in BulkSlots : OwnsTransaction(p)

(* Bulk and batch requests over the SQL connection pool: connections are   *)
(* neither lost nor counted twice, the rows that were changed are those    *)
(* the answers say, and a transaction stays open only after an exception   *)
(* or for a request under way.                                             *)
BulkAsTold ==
    /\ TypeOKSqlBatches
    /\ ConnectionsAccounted
    /\ AppliedAsTold
    /\ OpenHasReason
=============================================================================
