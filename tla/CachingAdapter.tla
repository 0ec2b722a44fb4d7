--------------------------- MODULE CachingAdapter ---------------------------
(***************************************************************************)
(* The read-through Redis cache that Client puts in front of its adapter   *)
(* (cache/caching_adapter.cpp).  One entity is modelled; a record's        *)
(* contents are the number of the write that produced them ("version"),    *)
(* because all the cache can get wrong is WHICH version it hands out.      *)
(*                                                                         *)
(* Every Redis command and every call of the wrapped adapter is one step,  *)
(* so the callers that share a database and a Redis (the daemon's request  *)
(* loop, the detached threads that run workflows with clients of their     *)
(* own, other replicas of the daemon) interleave between them.             *)
(* Time passes in Tick; a cached entry carries its remaining life.         *)
(***************************************************************************)
EXTENDS Integers, FiniteSets

CONSTANTS
    Procs,        \* callers of the adapter: requests and workflow threads
    Ids,          \* record ids of the entity
    TTL,          \* ttl_seconds_: life given to an entry by SETEX
    Deadline,     \* ticks a request may stay in flight
    MaxVersion,   \* bound on the number of changes of rows
    RedisFails,   \* may a Redis command throw?
    OthersWrite,  \* do writers exist that bypass the adapter (psql, a migration)?
    Transactions  \* does a client run transactions through the adapter?

ASSUME CacheAssumption ==
    /\ Ids # {}
    /\ TTL \in Nat \ {0}           \* parseCacheUrl refuses ttl <= 0
    /\ Deadline \in Nat
    /\ MaxVersion \in Nat
    /\ RedisFails \in BOOLEAN /\ OthersWrite \in BOOLEAN /\ Transactions \in BOOLEAN

NoRow    == 0                      \* the row does not exist
Garbage  == -1                     \* a cached string Json::parse discards
AnyId    == CHOOSE i \in Ids : TRUE \* an idle request is about no record

VARIABLES
    row,        \* what the wrapped adapter answers for each id
    version,    \* number of the latest write
    inTx,       \* a transaction is open on the wrapped adapter
    saved,      \* the rows its rollback restores
    cval, cttl, \* Redis: cached value and its remaining life (0: no entry)
    pc,         \* per request: the call it is about to make
    target,     \* per request: the record it is about
    buf,        \* per request: the row read() is about to backfill
    todo,       \* per request: keys SCAN's cursor has not passed yet
    found,      \* per request: keys SCAN returned and UNLINK has not dropped
    age,        \* per request: ticks since it started
    staleFor,   \* history: ticks since the entry stopped being the row
    excuse,     \* history: why the entry may be stale
    bufStale,   \* history: ticks since buf stopped being the row
    overlapped  \* history: the row has changed since read() fetched buf

store   == <<row, version, inTx, saved>>
redis   == <<cval, cttl>>
local   == <<pc, target, buf, todo, found, age>>
history == <<staleFor, excuse, bufStale, overlapped>>
vars    == <<store, redis, local, history>>

Causes == {"overlap", "lostInvalidation", "failedWrite", "foreignWrite", "rollback"}
Steps  == {"idle", "innerRead", "backfill", "del", "scan", "unlink"}

(* The longest a superseded version can still be served.                   *)
MaxStaleness == TTL + Deadline

(* Types; and an error of the wrapped adapter is never buffered or cached. *)
TypeOK ==
    /\ row \in [Ids -> 0 .. MaxVersion]
    /\ version \in 0 .. MaxVersion
    /\ inTx \in BOOLEAN
    /\ saved \in [Ids -> 0 .. MaxVersion]
    /\ cval \in [Ids -> -1 .. MaxVersion]
    /\ cttl \in [Ids -> 0 .. TTL]
    /\ pc \in [Procs -> Steps]
    /\ target \in [Procs -> Ids]
    /\ buf \in [Procs -> 0 .. MaxVersion]
    /\ todo \in [Procs -> SUBSET Ids]
    /\ found \in [Procs -> SUBSET Ids]
    /\ age \in [Procs -> 0 .. Deadline]
    /\ staleFor \in [Ids -> Nat]
    /\ excuse \in [Ids -> SUBSET Causes]
    /\ bufStale \in [Procs -> Nat]
    /\ overlapped \in [Procs -> BOOLEAN]
    /\ \A p \in Procs : pc[p] = "backfill" => buf[p] # NoRow
    /\ \A i \in Ids : cttl[i] > 0 => cval[i] # NoRow

Init ==
    /\ row = [i \in Ids |-> NoRow]
    /\ version = 0
    /\ inTx = FALSE
    /\ saved = [i \in Ids |-> NoRow]
    /\ cval = [i \in Ids |-> NoRow]
    /\ cttl = [i \in Ids |-> 0]
    /\ pc = [p \in Procs |-> "idle"]
    /\ target = [p \in Procs |-> AnyId]
    /\ buf = [p \in Procs |-> NoRow]
    /\ todo = [p \in Procs |-> {}]
    /\ found = [p \in Procs |-> {}]
    /\ age = [p \in Procs |-> 0]
    /\ staleFor = [i \in Ids |-> 0]
    /\ excuse = [i \in Ids |-> {}]
    /\ bufStale = [p \in Procs |-> 0]
    /\ overlapped = [p \in Procs |-> FALSE]
-----------------------------------------------------------------------------
Cached(i) == cttl[i] > 0
Usable(i) == Cached(i) /\ cval[i] # Garbage
Stale(i)  == Usable(i) /\ cval[i] # row[i]

(* A request goes on to its next call ...                                  *)
Goto(p, step) == pc' = [pc EXCEPT ![p] = step]

(* ... or returns, and its locals are gone.                                *)
Return(p) ==
    /\ pc' = [pc EXCEPT ![p] = "idle"]
    /\ buf' = [buf EXCEPT ![p] = NoRow]
    /\ todo' = [todo EXCEPT ![p] = {}]
    /\ found' = [found EXCEPT ![p] = {}]
    /\ age' = [age EXCEPT ![p] = 0]
    /\ bufStale' = [bufStale EXCEPT ![p] = 0]
    /\ overlapped' = [overlapped EXCEPT ![p] = FALSE]
    /\ target' = [target EXCEPT ![p] = AnyId]

(* The wrapped adapter's rows become r.  An entry or a buffer that is the  *)
(* row again is not stale any more.                                        *)
ChangeRows(r) ==
    /\ row' = r
    /\ staleFor' = [i \in Ids |-> IF cval[i] = r[i] THEN 0 ELSE staleFor[i]]
    /\ bufStale' = [p \in Procs |-> IF buf[p] = r[target[p]] THEN 0 ELSE bufStale[p]]
    /\ overlapped' = [p \in Procs |->
                         \/ overlapped[p]
                         \/ pc[p] = "backfill" /\ r[target[p]] # row[target[p]]]

(* Redis forgets the keys of S (DEL, UNLINK).                              *)
Drop(S) ==
    /\ cttl' = [i \in Ids |-> IF i \in S THEN 0 ELSE cttl[i]]
    /\ cval' = [i \in Ids |-> IF i \in S THEN NoRow ELSE cval[i]]
    /\ staleFor' = [i \in Ids |-> IF i \in S THEN 0 ELSE staleFor[i]]
    /\ excuse' = [i \in Ids |-> IF i \in S THEN {} ELSE excuse[i]]

Excuse(S, why) == excuse' = [i \in Ids |->
                     IF i \in S /\ Cached(i) THEN excuse[i] \cup {why} ELSE excuse[i]]
-----------------------------------------------------------------------------
(* Mutant of ReadHit: sliding expiration, a hit renews the entry's life.   *)
SlidingReadHit(p, i) ==
    /\ pc[p] = "idle"
    /\ Usable(i)
    /\ cttl' = [cttl EXCEPT ![i] = TTL]
    /\ UNCHANGED <<store, cval, local, history>>

(* read(): GET.  A usable entry is the answer.                             *)
ReadHit(p, i) ==
    /\ pc[p] = "idle"
    /\ Usable(i)
    /\ UNCHANGED vars

(* read(): no entry, an unparseable one, or GET threw: ask the adapter.    *)
ReadMiss(p, i) ==
    /\ pc[p] = "idle"
    /\ ~Usable(i) \/ RedisFails
    /\ target' = [target EXCEPT ![p] = i]
    /\ Goto(p, "innerRead")
    /\ UNCHANGED <<store, redis, buf, todo, found, age, history>>

(* read(): inner_->read.  An error (no such row, or no database) is        *)
(* returned uncached.                                                      *)
InnerReadFails(p) ==
    /\ pc[p] = "innerRead"
    /\ Return(p)
    /\ UNCHANGED <<store, redis, staleFor, excuse>>

(* Mutant of InnerRead: the result is not asked whether it isOk().         *)
InnerReadUnchecked(p) ==
    /\ pc[p] = "innerRead"
    /\ buf' = [buf EXCEPT ![p] = row[target[p]]]
    /\ Goto(p, "backfill")
    /\ UNCHANGED <<store, redis, target, todo, found, age, history>>

InnerRead(p) ==
    /\ pc[p] = "innerRead"
    /\ row[target[p]] # NoRow
    /\ buf' = [buf EXCEPT ![p] = row[target[p]]]
    /\ Goto(p, "backfill")
    /\ UNCHANGED <<store, redis, target, todo, found, age, history>>

(* read(): SETEX, then the row is returned.                                *)
Backfill(p) ==
    /\ pc[p] = "backfill"
    /\ cval' = [cval EXCEPT ![target[p]] = buf[p]]
    /\ cttl' = [cttl EXCEPT ![target[p]] = TTL]
    /\ excuse' = [excuse EXCEPT ![target[p]] =
                     IF overlapped[p] THEN {"overlap"} ELSE {}]
    /\ staleFor' = [staleFor EXCEPT ![target[p]] = bufStale[p]]
    /\ Return(p)
    /\ UNCHANGED store

(* read(): SETEX threw; the caller has its answer all the same.            *)
BackfillFails(p) ==
    /\ pc[p] = "backfill"
    /\ RedisFails
    /\ Return(p)
    /\ UNCHANGED <<store, redis, staleFor, excuse>>
-----------------------------------------------------------------------------
NewVersion == version < MaxVersion /\ version' = version + 1

(* create, update and the two halves of upsert: inner_ succeeded, the      *)
(* record's key is to be dropped next.                                     *)
WriteRecord(p, i) ==
    /\ pc[p] = "idle"
    /\ NewVersion
    /\ ChangeRows([row EXCEPT ![i] = version'])
    /\ target' = [target EXCEPT ![p] = i]
    /\ Goto(p, "del")
    /\ UNCHANGED <<inTx, saved, redis, buf, todo, found, age, excuse>>

(* Mutant of RemoveRecord: the key is left to its TTL.                     *)
RemoveWithoutInvalidate(p, i) ==
    /\ pc[p] = "idle"
    /\ row[i] # NoRow
    /\ ChangeRows([row EXCEPT ![i] = NoRow])
    /\ UNCHANGED <<version, inTx, saved, redis, local, excuse>>

(* remove                                                                  *)
RemoveRecord(p, i) ==
    /\ pc[p] = "idle"
    /\ row[i] # NoRow
    /\ ChangeRows([row EXCEPT ![i] = NoRow])
    /\ target' = [target EXCEPT ![p] = i]
    /\ Goto(p, "del")
    /\ UNCHANGED <<version, inTx, saved, redis, buf, todo, found, age, excuse>>

(* invalidateRecord: DEL                                                   *)
InvalidateRecord(p) ==
    /\ pc[p] = "del"
    /\ Drop({target[p]})
    /\ Return(p)
    /\ UNCHANGED store

(* invalidateRecord: DEL threw, a warning is logged                        *)
InvalidateRecordFails(p) ==
    /\ pc[p] = "del"
    /\ RedisFails
    /\ Excuse({target[p]}, "lostInvalidation")
    /\ Return(p)
    /\ UNCHANGED <<store, redis, staleFor>>

(* createMany and updateMany write the rows of S, deleteMany removes them. *)
WriteMany(p, S) ==
    /\ pc[p] = "idle"
    /\ NewVersion
    /\ \E value \in {NoRow, version'} :
          ChangeRows([i \in Ids |-> IF i \in S THEN value ELSE row[i]])
    /\ todo' = [todo EXCEPT ![p] = Ids]
    /\ Goto(p, "scan")
    /\ UNCHANGED <<inTx, saved, redis, target, buf, found, age, excuse>>

(* Any of these calls when inner_ answers an error: the request returns    *)
(* and drops no key.  The rows may have changed all the same: an UPDATE    *)
(* whose read-back failed (sqlite_adapter_crud.cpp:79,                     *)
(* mysql_adapter.cpp:255-262), the items a bulk call wrote before the one  *)
(* that failed, a statement whose answer was lost.  An error that changed  *)
(* nothing is a stutter.                                                   *)
WriteErrs(p, S) ==
    /\ pc[p] = "idle"
    /\ NewVersion
    /\ \E value \in {NoRow, version'} :
          ChangeRows([i \in Ids |-> IF i \in S THEN value ELSE row[i]])
    /\ Excuse(S, "failedWrite")
    /\ UNCHANGED <<inTx, saved, redis, local>>

(* invalidateEntity: one SCAN.  The cursor passes some keys and returns    *)
(* those of them that exist; a page that comes after all of them is empty. *)
Scan(p) ==
    /\ pc[p] = "scan"
    /\ \E passed \in SUBSET todo[p] :
          /\ passed = {} => todo[p] = {}
          /\ todo' = [todo EXCEPT ![p] = @ \ passed]
          /\ found' = [found EXCEPT ![p] = {i \in passed : Cached(i)}]
    /\ Goto(p, "unlink")
    /\ UNCHANGED <<store, redis, target, buf, age, history>>

(* invalidateEntity: UNLINK of a batch that is not empty, and around the   *)
(* loop until the cursor is 0 again, which it is only after every key has  *)
(* been passed and need not be at once.                                    *)
UnlinkBatch(p) ==
    /\ pc[p] = "unlink"
    /\ Drop(found[p])
    /\ found' = [found EXCEPT ![p] = {}]
    /\ Goto(p, "scan")
    /\ UNCHANGED <<store, target, buf, todo, age, bufStale, overlapped>>

UnlinkLastBatch(p) ==
    /\ pc[p] = "unlink"
    /\ todo[p] = {}
    /\ Drop(found[p])
    /\ Return(p)
    /\ UNCHANGED store

(* invalidateEntity: SCAN or UNLINK threw; what is left stays until TTL    *)
InvalidateEntityFails(p) ==
    /\ pc[p] \in {"scan", "unlink"}
    /\ RedisFails
    /\ Excuse(todo[p] \cup found[p], "lostInvalidation")
    /\ Return(p)
    /\ UNCHANGED <<store, redis, staleFor>>
-----------------------------------------------------------------------------
(* Transactions are forwarded: neither begin, commit nor rollback touches  *)
(* Redis.  Uncommitted rows are what everybody reads: the adapters with a  *)
(* compensating transaction write through at once and undo by inner calls, *)
(* and the SQLite adapter has one connection for all its requests.         *)
BeginTransaction ==
    /\ Transactions
    /\ ~inTx
    /\ inTx' = TRUE
    /\ saved' = row
    /\ UNCHANGED <<row, version, redis, local, history>>

CommitTransaction ==
    /\ inTx
    /\ inTx' = FALSE
    /\ saved' = [i \in Ids |-> NoRow]
    /\ UNCHANGED <<row, version, redis, local, history>>

RollbackTransaction ==
    /\ inTx
    /\ ChangeRows(saved)
    /\ inTx' = FALSE
    /\ saved' = [i \in Ids |-> NoRow]
    /\ Excuse({i \in Ids : saved[i] # row[i]}, "rollback")
    /\ UNCHANGED <<version, redis, local>>

(* A writer that does not go through this adapter.                         *)
ForeignWrite(i) ==
    /\ OthersWrite
    /\ NewVersion
    /\ ChangeRows([row EXCEPT ![i] = version'])
    /\ Excuse({i}, "foreignWrite")
    /\ UNCHANGED <<inTx, saved, redis, local>>

(* Something else overwrites the cached string.                            *)
CorruptEntry(i) ==
    /\ OthersWrite
    /\ Usable(i)
    /\ cval' = [cval EXCEPT ![i] = Garbage]
    /\ UNCHANGED <<store, cttl, local, history>>

(* A second passes: entries lose life, requests get older.  No request     *)
(* outlives Deadline; staleFor saturates at the bound it is compared with. *)
Tick ==
    /\ \A p \in Procs : pc[p] = "idle" \/ age[p] < Deadline
    /\ cttl' = [i \in Ids |-> IF cttl[i] > 0 THEN cttl[i] - 1 ELSE 0]
    /\ cval' = [i \in Ids |-> IF cttl[i] > 1 THEN cval[i] ELSE NoRow]
    /\ excuse' = [i \in Ids |-> IF cttl[i] > 1 THEN excuse[i] ELSE {}]
    /\ age' = [p \in Procs |-> IF pc[p] = "idle" THEN age[p] ELSE age[p] + 1]
    /\ staleFor' = [i \in Ids |-> IF cttl[i] > 1
                      THEN IF Stale(i) /\ staleFor[i] < MaxStaleness
                           THEN staleFor[i] + 1 ELSE staleFor[i]
                      ELSE 0]
    /\ bufStale' = [p \in Procs |-> IF pc[p] = "backfill" /\ buf[p] # row[target[p]]
                      THEN bufStale[p] + 1 ELSE bufStale[p]]
    /\ UNCHANGED <<store, pc, target, buf, todo, found, overlapped>>

Finish(p) ==
    \/ InnerRead(p) \/ InnerReadFails(p) \/ Backfill(p) \/ BackfillFails(p)
    \/ InvalidateRecord(p) \/ InvalidateRecordFails(p)
    \/ Scan(p) \/ UnlinkBatch(p) \/ UnlinkLastBatch(p) \/ InvalidateEntityFails(p)

Request(p) ==
    \/ \E i \in Ids : \/ ReadHit(p, i) \/ ReadMiss(p, i)
                      \/ WriteRecord(p, i) \/ RemoveRecord(p, i)
    \/ \E S \in (SUBSET Ids) \ {{}} : WriteMany(p, S) \/ WriteErrs(p, S)

Next ==
    \/ \E p \in Procs : Request(p) \/ Finish(p)
    \/ BeginTransaction \/ CommitTransaction \/ RollbackTransaction
    \/ \E i \in Ids : ForeignWrite(i) \/ CorruptEntry(i)
    \/ Tick

Spec == Init /\ [][Next]_vars

(* Threads run, time passes, and Redis brings every iteration of SCAN to   *)
(* its end.  Nothing is assumed about new requests.                        *)
FairSpec ==
    /\ Spec
    /\ WF_vars(Tick)
    /\ \A p \in Procs : WF_vars(Finish(p)) /\ SF_vars(UnlinkLastBatch(p))
-----------------------------------------------------------------------------
(* The TTL caps staleness (cache_config.hpp, ttl_seconds): a version that  *)
(* the row has left can be served for less than TTL plus the time one      *)
(* request may take, whatever raced, failed or bypassed the cache.  The    *)
(* second term is a read() that fetched the row before it changed and      *)
(* backfilled it afterwards.                                               *)
BoundedStaleness ==
    \A i \in Ids : Stale(i) => staleFor[i] < MaxStaleness

Pending(i) ==
    \E p \in Procs : \/ pc[p] = "del" /\ target[p] = i
                     \/ pc[p] \in {"scan", "unlink"} /\ i \in todo[p] \cup found[p]

(* Delegate-then-invalidate leaves no stale entry behind a write that was  *)
(* answered as done: an entry that is stale belongs to a write whose       *)
(* invalidation is still to come, or was backfilled by a read the write    *)
(* overtook, or its invalidation failed, or no invalidation was ever made  *)
(* for the change: a write that bypassed the process, a rollback, or a     *)
(* write that changed the row and was answered as an error, which          *)
(* caching_adapter.cpp:105-146 takes for one that changed nothing.         *)
StalenessExplained ==
    \A i \in Ids : Stale(i) => Pending(i) \/ excuse[i] # {}

(* No stale entry is kept alive: hits do not prolong an entry's life, and  *)
(* whatever the threads do the entry is sooner or later dropped, expired   *)
(* or overwritten with the row (read, invalidateRecord, invalidateEntity). *)
StaleEntriesDie == \A i \in Ids : Stale(i) ~> ~Stale(i)
=============================================================================
