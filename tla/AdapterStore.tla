---------------------------- MODULE AdapterStore ----------------------------
(***************************************************************************)
(* The storage adapters behind the Adapter interface: what each one makes  *)
(* of create, update, remove, list, the bulk operations, findFirst and     *)
(* upsert.  A behaviour is about one adapter, chosen in the initial state. *)
(* Every statement, command or HTTP call that writes is one step, and so   *)
(* is every read whose result a later call uses (a listing is one, though  *)
(* Redis answers it by a GET per member); callers interleave between them. *)
(* A call may be carried out and still be answered with an error: its      *)
(* answer is lost, or the read-back that follows it fails.  The servers    *)
(* (unique indexes, result windows, counts of affected rows) are modelled  *)
(* from how the adapters use them.                                         *)
(***************************************************************************)
EXTENDS Integers, FiniteSets

CONSTANTS
    Adapters,      \* the adapter kinds of this instance
    AProcs,        \* callers
    AKeys,         \* values of the entity's unique field
    MaxRecs,       \* bound on ids ever handed out
    MaxOps,        \* bound on operations started
    DefaultLimit,  \* ListOptions::limit (20), what bulk operations list at a time
    AFaults        \* may a call fail, before or after it was carried out?

Uniform == {"sql", "mysql", "sqlite", "mongo", "supabase"}  \* unique index, filters, page 1 first
Shifted == {"redis", "elastic", "surreal"}                  \* offset = page * limit
Merging == {"redis", "elastic"}                             \* update = read, merge, put
StopsHalfWay == {"sql", "mysql", "mongo"}                   \* createMany ends at the first error

ASSUME AdapterAssumption ==
    /\ Adapters \subseteq Uniform \cup Shifted \cup {"cassandra"}
    /\ MaxRecs \in Nat /\ MaxOps \in Nat /\ DefaultLimit \in Nat \ {0}
    /\ AFaults \in BOOLEAN

AIds   == 1 .. MaxRecs
Fields == {"x", "y"}
AVals  == {0, 1}
NoRec  == [key |-> "absent"]
Recs   == [key : AKeys, x : AVals, y : AVals]
AnyKey == "any"   \* the empty filter
DefaultPage == 1  \* ListOptions::page

VARIABLES
    kindA,   \* the adapter
    tbl,     \* the entity's records, in listing order
    born,    \* ids handed out
    idx,     \* Redis: members of the entity's set key
    sqlTx,   \* SqlTransactionManager's flag
    acall,   \* the call each caller is in
    opsDone, \* operations started
    ackd,    \* history: the table as the writes that took effect left it
    raced,   \* history: ids written by overlapping calls, or whose index entry failed
    report   \* history: what the caller's last operation said, the ids it created,
             \* the ids it wrote although its filter did not match them, and
             \* whether it heard the answer of every write that took effect

adapterVars == <<kindA, tbl, born, idx, sqlTx, acall, opsDone, ackd, raced, report>>
adapterRest == <<kindA, sqlTx>>

Idle == [at |-> "idle", id |-> 1, key |-> AnyKey, fld |-> "x", val |-> 0, snap |-> NoRec, todo |-> {},
         then |-> "end"]
Said(ok, n, made) == [ok |-> ok, n |-> n, made |-> made, strays |-> {}, heard |-> TRUE]
Unheard(said) == [said EXCEPT !.ok = FALSE, !.n = 0, !.heard = FALSE]

-----------------------------------------------------------------------------
(* Listing.                                                                *)
Present(t) == {i \in AIds : t[i] # NoRec}
Hits(t, k) == {i \in Present(t) : k \in {AnyKey, t[i].key}}
Slice(S, offset, limit) ==
    LET rank(i) == Cardinality({j \in S : j <= i})
    IN  {i \in S : offset < rank(i) /\ rank(i) <= offset + limit}

Before(page, limit) == (IF page > 1 THEN page - 1 ELSE 0) * limit

SqlList(t, k, page, limit)      == Slice(Hits(t, k), Before(page, limit), limit)
SqliteList(t, k, page, limit)   == Slice(Hits(t, k), Before(page, limit), limit)
MongoList(t, k, page, limit)    == Slice(Hits(t, k), Before(page, limit), limit)
SupabaseList(t, k, page, limit) == Slice(Hits(t, k), Before(page, limit), limit)
ElasticList(t, k, page, limit)  == Slice(Hits(t, k), page * limit, limit)
SurrealList(t, k, page, limit)  == Slice(Hits(t, k), page * limit, limit)
(* SMEMBERS, a GET per member, the filter, then the page.                  *)
RedisList(t, k, page, limit)    == Slice(Hits(t, k) \cap idx, page * limit, limit)

AList(t, k, page, limit) ==
    CASE kindA \in {"sql", "mysql"} -> SqlList(t, k, page, limit)
      [] kindA = "sqlite"   -> SqliteList(t, k, page, limit)
      [] kindA = "mongo"    -> MongoList(t, k, page, limit)
      [] kindA = "supabase" -> SupabaseList(t, k, page, limit)
      [] kindA = "elastic"  -> ElasticList(t, k, page, limit)
      [] kindA = "surreal"  -> SurrealList(t, k, page, limit)
      [] kindA = "redis"    -> RedisList(t, k, page, limit)
      [] OTHER -> {}

(* findFirst: LIMIT 1, or a list of one; two adapters drop the filter.     *)
SqlFindFirst(t, k)      == Slice(Hits(t, k), 0, 1)
SqliteFindFirst(t, k)   == Slice(Hits(t, k), 0, 1)
MongoFindFirst(t, k)    == Slice(Hits(t, k), 0, 1)
SupabaseFindFirst(t, k) == SupabaseList(t, k, 1, 1)
RedisFindFirst(t, k)    == RedisList(t, k, DefaultPage, 1)
ElasticFindFirst(t, k)  == ElasticList(t, AnyKey, DefaultPage, 1)
SurrealFindFirst(t, k)  == SurrealList(t, AnyKey, DefaultPage, 1)

AFindFirst(t, k) ==
    CASE kindA \in {"sql", "mysql"} -> SqlFindFirst(t, k)
      [] kindA = "sqlite"   -> SqliteFindFirst(t, k)
      [] kindA = "mongo"    -> MongoFindFirst(t, k)
      [] kindA = "supabase" -> SupabaseFindFirst(t, k)
      [] kindA = "redis"    -> RedisFindFirst(t, k)
      [] kindA = "elastic"  -> ElasticFindFirst(t, k)
      [] kindA = "surreal"  -> SurrealFindFirst(t, k)
      [] OTHER -> {}

-----------------------------------------------------------------------------
(* Steps shared by the adapters.                                           *)
InitAdapters ==
    /\ kindA \in Adapters
    /\ \E rs \in {<<>>} \cup (AKeys \X AKeys) :
          tbl = [i \in AIds |-> IF rs # <<>> /\ i \in {1, 2} /\ (i = 1 \/ rs[1] # rs[2])
                                 THEN [key |-> rs[i], x |-> 0, y |-> 0] ELSE NoRec]
    /\ born = Cardinality(Present(tbl))
    /\ idx = Present(tbl)
    /\ sqlTx = FALSE
    /\ acall = [p \in AProcs |-> Idle]
    /\ opsDone = 0
    /\ ackd = tbl /\ raced = {}
    /\ report = [p \in AProcs |-> Said(TRUE, 0, {})]

Starting(p) ==
    /\ acall[p].at = "idle" /\ opsDone < MaxOps
    /\ opsDone' = opsDone + 1
Going(p, at) == acall[p].at = at /\ UNCHANGED opsDone

Answer(p, said) ==
    /\ acall' = [acall EXCEPT ![p] = Idle]
    /\ report' = [report EXCEPT ![p] = said]
Continue(p, call) ==
    /\ acall' = [acall EXCEPT ![p] = call]
    /\ UNCHANGED report

(* What may be heard of a write that took effect.                          *)
Heard(said) == {said} \cup (IF AFaults THEN {Unheard(said)} ELSE {})
Replies(p, said) == \E s \in Heard(said) : Answer(p, s)
(* SQLite runs in the process: a statement that did its work says so.      *)
RemoteReplies(p, said) == IF kindA = "sqlite" THEN Answer(p, said) ELSE Replies(p, said)

Refuse(p) ==
    /\ Answer(p, Said(FALSE, 0, {}))
    /\ UNCHANGED <<tbl, born, idx, ackd, raced>>

(* Table t is the result of p's write of the ids in S.  It races with      *)
(* calls that have read one of those ids and not yet written.              *)
ReadBy(q, i) == acall[q].at = "put" /\ acall[q].id = i
Ack(p, t, S) ==
    /\ tbl' = t
    /\ ackd' = [i \in AIds |-> IF i \in S THEN t[i] ELSE ackd[i]]
    /\ raced' = raced \cup {i \in S : \E q \in AProcs \ {p} : ReadBy(q, i)}

NewRec(k) == [key |-> k, x |-> 0, y |-> 0]
Insert(p, k) ==
    /\ born < MaxRecs
    /\ born' = born + 1
    /\ Ack(p, [tbl EXCEPT ![born + 1] = NewRec(k)], {born + 1})
(* SET and PUT do not look whether the record is there: a create with the  *)
(* id of an existing one replaces it, also under calls that have found it. *)
Replace(p, i, k) ==
    /\ kindA \in Merging /\ i \in Present(tbl)
    /\ tbl' = [tbl EXCEPT ![i] = NewRec(k)]
    /\ ackd' = [ackd EXCEPT ![i] = NewRec(k)]
    /\ raced' = raced \cup (IF \E q \in AProcs \ {p} : \/ ReadBy(q, i)
                                                       \/ acall[q].at = "found" /\ i \in acall[q].todo
                            THEN {i} ELSE {})
    /\ UNCHANGED born
PutRecord(p, k, i) == (i = born + 1 /\ Insert(p, k)) \/ Replace(p, i, k)

(* The unique index, or the primary key, has the value already (MongoDB    *)
(* makes its own _id).                                                     *)
Taken(k)   == kindA \in Uniform /\ Hits(tbl, k) # {}
Refuses(k) == \/ Taken(k) \/ AFaults
              \/ kindA \notin Merging \cup {"mongo"} /\ Present(tbl) # {}

(* One statement or call that inserts: a new record, or a conflict.        *)
CreateRecord(p, k) ==
    \/ /\ ~Taken(k)
       /\ \E i \in AIds : /\ PutRecord(p, k, i)
                          /\ idx' = idx \cup {i}
                          /\ Replies(p, Said(TRUE, 1, {i}))
    \/ Refuses(k) /\ Refuse(p)

SetField(i, f, v) == [tbl EXCEPT ![i][f] = v]

(* UPDATE ... WHERE id, findOneAndUpdate, PATCH: the server merges.        *)
(* mysql_affected_rows counts the rows that changed: an update that        *)
(* changes nothing is answered with notFound.  The read-back of SQLite and *)
(* MySQL is in this step: that it fails is one of the answers.             *)
Matched(i, f, v) == tbl[i] # NoRec /\ (kindA = "mysql" => tbl[i][f] # v)
UpdateSaying(p, i, f, v, said) ==
    \/ /\ Matched(i, f, v)
       /\ Replies(p, said)
       /\ Ack(p, SetField(i, f, v), {i})
       /\ UNCHANGED <<born, idx>>
    \/ ~Matched(i, f, v) /\ Refuse(p)
UpdateRecord(p, i, f, v) == UpdateSaying(p, i, f, v, Said(TRUE, 1, {}))

RemoveRecord(p, i) ==
    \/ /\ tbl[i] # NoRec
       /\ RemoteReplies(p, Said(TRUE, 0, {}))
       /\ Ack(p, [tbl EXCEPT ![i] = NoRec], {i})
       /\ idx' = idx \ {i}
       /\ UNCHANGED born
    \/ tbl[i] = NoRec /\ Refuse(p)

(* A call ends, or goes on with the bulk operation it belongs to.          *)
Resumed(c) == [c EXCEPT !.at = c.then, !.id = 1, !.snap = NoRec, !.then = "end"]
EndsOrResumes(p, said) ==
    IF acall[p].then = "end" THEN Answer(p, said) ELSE Continue(p, Resumed(acall[p]))

(* Read the record; the merged one is put by a second call.                *)
HoldsTheRead(c, i) == [c EXCEPT !.at = "put", !.id = i, !.snap = tbl[i]]
ReadToMerge(p, k, i, f, v) ==
    \/ /\ tbl[i] # NoRec
       /\ Continue(p, HoldsTheRead([Idle EXCEPT !.key = k, !.fld = f, !.val = v], i))
       /\ UNCHANGED <<tbl, born, idx, ackd, raced>>
    \/ tbl[i] = NoRec /\ Refuse(p)

PutMerged(p) ==
    LET c == acall[p]
    IN  /\ Going(p, "put")
        /\ tbl' = [tbl EXCEPT ![c.id] = [c.snap EXCEPT ![c.fld] = c.val]]
        /\ ackd' = [ackd EXCEPT ![c.id] = IF @ = NoRec THEN NoRec ELSE [@ EXCEPT ![c.fld] = c.val]]
        /\ raced' = raced \cup (IF \E q \in AProcs \ {p} : ReadBy(q, c.id) THEN {c.id} ELSE {})
        /\ \E said \in Heard([Said(TRUE, 1, {}) EXCEPT
                                 !.strays = {c.id} \ Hits([tbl EXCEPT ![c.id] = c.snap], c.key)]) :
              EndsOrResumes(p, said)
        /\ UNCHANGED <<adapterRest, born, idx>>

(* A call that fails and changes nothing, the first one of an operation or *)
(* a later one.                                                            *)
CallFails(p) == AFaults /\ Refuse(p)
LaterCallFails(p) ==
    /\ AFaults /\ acall[p].at \in {"put", "delete", "found"} /\ UNCHANGED opsDone
    /\ EndsOrResumes(p, Said(FALSE, 0, {}))
    /\ UNCHANGED <<adapterRest, tbl, born, idx, ackd, raced>>

-----------------------------------------------------------------------------
(* create                                                                  *)
SqlCreate(p, k)      == kindA = "sql" /\ CreateRecord(p, k)
MongoCreate(p, k)    == kindA = "mongo" /\ CreateRecord(p, k)
SupabaseCreate(p, k) == kindA = "supabase" /\ CreateRecord(p, k)
ElasticCreate(p, k)  == kindA = "elastic" /\ CreateRecord(p, k)
SurrealCreate(p, k)  == kindA = "surreal" /\ CreateRecord(p, k)

(* INSERT, then the row is read back by a second statement, which may fail *)
(* or find it gone: SQLite by rowid, MySQL by the id of the data.          *)
InsertToReadBack(p, k) ==
    \/ /\ ~Taken(k) /\ Insert(p, k)
       /\ idx' = idx \cup {born'}
       /\ Continue(p, [Idle EXCEPT !.at = "readback", !.id = born + 1])
    \/ Refuses(k) /\ Refuse(p)
MysqlCreate(p, k)  == kindA = "mysql" /\ InsertToReadBack(p, k)
SqliteCreate(p, k) == kindA = "sqlite" /\ InsertToReadBack(p, k)
ReadBack(p) ==
    LET i == acall[p].id
    IN  /\ Going(p, "readback")
        /\ \/ tbl[i] # NoRec /\ Replies(p, Said(TRUE, 1, {i}))
           \/ tbl[i] = NoRec /\ Answer(p, Said(FALSE, 0, {i}))
        /\ UNCHANGED <<adapterRest, tbl, born, idx, ackd, raced>>

(* Redis: SET by the call c, then SADD, whose result is not looked at; a   *)
(* SET that was answered with an error has no SADD after it.               *)
RedisSet(p, k, c) ==
    /\ kindA = "redis"
    /\ \E i \in AIds \ c.todo : PutRecord(p, k, i) /\ Continue(p, [c EXCEPT !.at = "sadd", !.id = i])
    /\ UNCHANGED idx
(* What is said of the record i that call c made last.                     *)
Reported(c, i, heard) ==
    [Said(heard \/ c.then = "last", c.val + (IF heard THEN 1 ELSE 0), c.todo \cup {i})
        EXCEPT !.heard = heard /\ c.val = Cardinality(c.todo)]
RedisIndex(p) ==
    LET c == acall[p] IN
    /\ Going(p, "sadd")
    /\ \E heard \in BOOLEAN :
          /\ \/ heard /\ idx' = idx \cup {c.id} /\ UNCHANGED raced
             \/ AFaults /\ raced' = raced \cup {c.id} /\ UNCHANGED idx
          /\ IF c.then = "many"
             THEN Continue(p, [c EXCEPT !.at = "many", !.then = "last", !.id = 1, !.todo = {c.id},
                                        !.val = IF heard THEN 1 ELSE 0])
             ELSE Answer(p, Reported(c, c.id, heard))
    /\ UNCHANGED <<adapterRest, tbl, born, ackd>>
RedisCreate(p, k) == RedisSet(p, k, Idle)

(* update                                                                  *)
SqlUpdateMerging(p, i, f, v) == kindA = "sql" /\ ReadToMerge(p, AnyKey, i, f, v)  \* wrong: read, then write
SqlUpdate(p, i, f, v)      == kindA = "sql" /\ UpdateRecord(p, i, f, v)
MysqlUpdate(p, i, f, v)    == kindA = "mysql" /\ UpdateRecord(p, i, f, v)
SqliteUpdate(p, i, f, v)   == kindA = "sqlite" /\ UpdateRecord(p, i, f, v)
MongoUpdate(p, i, f, v)    == kindA = "mongo" /\ UpdateRecord(p, i, f, v)
SurrealUpdate(p, i, f, v)  == kindA = "surreal" /\ UpdateRecord(p, i, f, v)
SupabaseUpdate(p, i, f, v) == kindA = "supabase" /\ UpdateRecord(p, i, f, v)
RedisUpdate(p, i, f, v)    == kindA = "redis" /\ ReadToMerge(p, AnyKey, i, f, v)
ElasticUpdate(p, i, f, v)  == kindA = "elastic" /\ ReadToMerge(p, AnyKey, i, f, v)

(* remove                                                                  *)
SqlRemove(p, i)      == kindA \in {"sql", "mysql"} /\ RemoveRecord(p, i)
SqliteRemove(p, i)   == kindA = "sqlite" /\ RemoveRecord(p, i)
MongoRemove(p, i)    == kindA = "mongo" /\ RemoveRecord(p, i)
ElasticRemove(p, i)  == kindA = "elastic" /\ RemoveRecord(p, i)
SurrealRemove(p, i)  == kindA = "surreal" /\ RemoveRecord(p, i)
SupabaseRemove(p, i) == kindA = "supabase" /\ RemoveRecord(p, i)
(* Redis: DEL by the call c, then SREM, whose result is not looked at (a   *)
(* dangling member is skipped by list, a record made anew between the two  *)
(* calls is left out of the index).                                        *)
RedisDel(p, i, c) ==
    /\ Ack(p, [tbl EXCEPT ![i] = NoRec], {i})
    /\ Continue(p, [c EXCEPT !.at = "srem", !.id = i])
    /\ UNCHANGED <<born, idx>>
RedisRemove(p, i) ==
    /\ kindA = "redis"
    /\ \/ tbl[i] # NoRec /\ RedisDel(p, i, Idle)
       \/ tbl[i] = NoRec /\ Refuse(p)
RedisUnindex(p) ==
    LET i == acall[p].id IN
    /\ Going(p, "srem")
    /\ \/ /\ idx' = idx \ {i} /\ raced' = raced \cup ({i} \cap Present(tbl))
          /\ EndsOrResumes(p, Said(TRUE, 0, {}))
       \/ /\ AFaults /\ UNCHANGED <<idx, raced>>
          /\ \E said \in Heard(Said(TRUE, 0, {})) : EndsOrResumes(p, said)
    /\ UNCHANGED <<adapterRest, tbl, born, ackd>>

-----------------------------------------------------------------------------
(* createMany of two records with keys k and l.  SQL sets a flag, inserts  *)
(* row by row, and clears the flag: it executes no BEGIN or ROLLBACK.  SQL,*)
(* MySQL and MongoDB stop at an error, the others count and go on.         *)
TwoRecords(k, l) == [Idle EXCEPT !.at = "many", !.key = l, !.then = "last"]
InsertFirst(p, k, l) ==
    \/ /\ ~Taken(k)
       /\ \E i \in AIds :
             /\ PutRecord(p, k, i) /\ idx' = idx \cup {i}
             /\ \/ Continue(p, [TwoRecords(k, l) EXCEPT !.todo = {i}, !.val = 1])
                \/ /\ AFaults /\ kindA \in StopsHalfWay
                   /\ Answer(p, Unheard(Said(TRUE, 1, {i})))
                \/ /\ AFaults /\ kindA = "surreal"
                   /\ Continue(p, [TwoRecords(k, l) EXCEPT !.todo = {i}])
    \/ Refuses(k) /\ kindA \in StopsHalfWay /\ Refuse(p)
    \/ /\ Refuses(k) /\ kindA \notin StopsHalfWay
       /\ Continue(p, TwoRecords(k, l))
       /\ UNCHANGED <<tbl, born, idx, ackd, raced>>
SqlCreateMany(p, k, l) ==
    /\ kindA = "sql" /\ ~sqlTx
    /\ InsertFirst(p, k, l)
    /\ sqlTx' = (acall'[p].at = "many")
SqlCreateManyRefused(p) ==
    /\ kindA = "sql" /\ sqlTx
    /\ Refuse(p) /\ UNCHANGED sqlTx
MysqlCreateMany(p, k, l)   == kindA = "mysql" /\ InsertFirst(p, k, l) /\ UNCHANGED sqlTx
MongoCreateMany(p, k, l)   == kindA = "mongo" /\ InsertFirst(p, k, l) /\ UNCHANGED sqlTx
SqliteCreateMany(p, k, l)  == kindA = "sqlite" /\ InsertFirst(p, k, l) /\ UNCHANGED sqlTx
SurrealCreateMany(p, k, l) == kindA = "surreal" /\ InsertFirst(p, k, l) /\ UNCHANGED sqlTx
ElasticCreateMany(p, k, l) == kindA = "elastic" /\ InsertFirst(p, k, l) /\ UNCHANGED sqlTx
RedisCreateMany(p, k, l) ==
    /\ kindA = "redis" /\ UNCHANGED sqlTx
    /\ \/ RedisSet(p, k, [TwoRecords(k, l) EXCEPT !.then = "many"])
       \/ /\ AFaults /\ Continue(p, TwoRecords(k, l))
          /\ UNCHANGED <<tbl, born, idx, ackd, raced>>
(* One POST of the array: all or nothing.                                  *)
SupabaseCreateMany(p, k, l) ==
    /\ kindA = "supabase" /\ UNCHANGED sqlTx
    /\ \/ /\ ~Taken(k) /\ ~Taken(l) /\ k # l /\ born + 2 <= MaxRecs
          /\ born' = born + 2
          /\ Replies(p, Said(TRUE, 2, {born + 1, born + 2}))
          /\ Ack(p, [tbl EXCEPT ![born + 1] = NewRec(k), ![born + 2] = NewRec(l)], {born + 1, born + 2})
          /\ idx' = idx \cup {born + 1, born + 2}
       \/ (Refuses(k) \/ Refuses(l) \/ k = l) /\ Refuse(p)

(* The second record: how the operation ends when the record i was made,   *)
(* and when it was refused.                                                *)
Finished(c, i) ==
    {Reported(c, i, TRUE)} \cup
    (IF ~AFaults \/ kindA = "sqlite" THEN {}
     ELSE {IF kindA = "surreal" THEN Reported(c, i, FALSE) ELSE Unheard(Reported(c, i, TRUE))})
Ended(c) ==
    IF kindA \in StopsHalfWay THEN Said(FALSE, 0, c.todo)
    ELSE [Said(TRUE, c.val, c.todo) EXCEPT !.heard = c.val = Cardinality(c.todo)]
InsertSecond(p) ==
    LET c == acall[p] IN
    /\ Going(p, "many")
    /\ sqlTx' = FALSE /\ UNCHANGED kindA
    /\ \/ /\ ~Taken(c.key) /\ kindA # "redis"
          /\ \E i \in AIds \ c.todo : /\ PutRecord(p, c.key, i)
                                      /\ idx' = idx \cup {i}
                                      /\ \E said \in Finished(c, i) : Answer(p, said)
       \/ RedisSet(p, c.key, c)
       \/ /\ Refuses(c.key) /\ Answer(p, Ended(c))
          /\ UNCHANGED <<tbl, born, idx, ackd, raced>>

-----------------------------------------------------------------------------
(* updateMany and deleteMany in one statement with the filter.             *)
WriteHits(p, k, S, t) ==
    /\ RemoteReplies(p, [Said(TRUE, Cardinality(S), {}) EXCEPT !.strays = S \ Hits(tbl, k)])
    /\ Ack(p, t, S)
    /\ UNCHANGED <<born, idx>>
Updated(S, f, v) == [i \in AIds |-> IF i \in S THEN [tbl[i] EXCEPT ![f] = v] ELSE tbl[i]]
Deleted(S)       == [i \in AIds |-> IF i \in S THEN NoRec ELSE tbl[i]]

SqlUpdateMany(p, k, f, v)      == kindA \in {"sql", "mysql"} /\ WriteHits(p, k, Hits(tbl, k), Updated(Hits(tbl, k), f, v))
SqliteUpdateMany(p, k, f, v)   == kindA = "sqlite" /\ WriteHits(p, k, Hits(tbl, k), Updated(Hits(tbl, k), f, v))
MongoUpdateMany(p, k, f, v)    == kindA = "mongo" /\ WriteHits(p, k, Hits(tbl, k), Updated(Hits(tbl, k), f, v))
SupabaseUpdateMany(p, k, f, v) == kindA = "supabase" /\ WriteHits(p, k, Hits(tbl, k), Updated(Hits(tbl, k), f, v))
SqlDeleteMany(p, k)    == kindA \in {"sql", "mysql"} /\ WriteHits(p, k, Hits(tbl, k), Deleted(Hits(tbl, k)))
SqliteDeleteMany(p, k) == kindA = "sqlite" /\ WriteHits(p, k, Hits(tbl, k), Deleted(Hits(tbl, k)))
MongoDeleteMany(p, k)  == kindA = "mongo" /\ WriteHits(p, k, Hits(tbl, k), Deleted(Hits(tbl, k)))

(* Supabase counts by a list call and deletes by a second one; a count     *)
(* that fails is zero.                                                     *)
SupabaseCount(p, k) ==
    /\ kindA = "supabase"
    /\ \E counted \in {Hits(tbl, k)} \cup (IF AFaults THEN {{}} ELSE {}) :
          Continue(p, [Idle EXCEPT !.at = "delete", !.key = k, !.todo = counted])
    /\ UNCHANGED <<tbl, born, idx, ackd, raced>>
SupabaseDeleteMany(p) ==
    LET c == acall[p] IN
    /\ Going(p, "delete")
    /\ Replies(p, Said(TRUE, Cardinality(c.todo), {}))
    /\ Ack(p, Deleted(Hits(tbl, c.key)), Hits(tbl, c.key))
    /\ UNCHANGED <<adapterRest, born, idx>>

(* Redis: the filter's values are compared as their JSON text, which no    *)
(* record has; without a filter the default page is listed, whose offset   *)
(* is one page, and the listed records are updated (GET, SET) or removed   *)
(* (DEL, SREM) one by one; one that fails is not counted.                  *)
RedisBulkList(k) == IF k = AnyKey THEN RedisList(tbl, k, DefaultPage, DefaultLimit) ELSE {}
RedisUpdateMany(p, k, f, v) ==
    /\ kindA = "redis"
    /\ Continue(p, [Idle EXCEPT !.at = "updEach", !.key = k, !.fld = f, !.val = v, !.todo = RedisBulkList(k)])
    /\ UNCHANGED <<tbl, born, idx, ackd, raced>>
RedisDeleteMany(p, k) ==
    /\ kindA = "redis"
    /\ Continue(p, [Idle EXCEPT !.at = "delEach", !.key = k, !.todo = RedisBulkList(k)])
    /\ UNCHANGED <<tbl, born, idx, ackd, raced>>
RedisEach(p) ==
    LET c == acall[p]
        Rest(i) == [c EXCEPT !.todo = @ \ {i}, !.then = c.at]
    IN
    /\ acall[p].at \in {"updEach", "delEach"} /\ UNCHANGED opsDone
    /\ \/ /\ c.todo = {} /\ Answer(p, Said(TRUE, 0, {}))
          /\ UNCHANGED <<tbl, born, idx, ackd, raced>>
       \/ \E i \in c.todo :
             /\ tbl[i] = NoRec \/ AFaults
             /\ Continue(p, [c EXCEPT !.todo = @ \ {i}])
             /\ UNCHANGED <<tbl, born, idx, ackd, raced>>
       \/ \E i \in c.todo :
             /\ tbl[i] # NoRec /\ c.at = "updEach"
             /\ Continue(p, HoldsTheRead(Rest(i), i))
             /\ UNCHANGED <<tbl, born, idx, ackd, raced>>
       \/ \E i \in c.todo : tbl[i] # NoRec /\ c.at = "delEach" /\ RedisDel(p, i, Rest(i))
    /\ UNCHANGED adapterRest

(* Elasticsearch: the filter is dropped and from = 1 * 10000 asked for,    *)
(* which the server refuses (max_result_window), so nothing is written.    *)
ElasticUpdateMany(p, k) == kindA = "elastic" /\ Refuse(p)
ElasticDeleteMany(p, k) == ElasticUpdateMany(p, k)
SurrealBulkRefused(p) == kindA = "surreal" /\ Refuse(p)
(* Cassandra answers every operation with CapabilityNotSupported.          *)
CassandraRefuses(p) == kindA = "cassandra" /\ Refuse(p)

-----------------------------------------------------------------------------
(* upsert: find by the unique field, then update what was found or create; *)
(* a find that fails is one that found nothing.                            *)
Find(p, k, f, v) ==
    /\ \E found \in {AFindFirst(tbl, k)} \cup (IF AFaults THEN {{}} ELSE {}) :
          Continue(p, [Idle EXCEPT !.at = "found", !.key = k, !.fld = f, !.val = v, !.todo = found])
    /\ UNCHANGED <<tbl, born, idx, ackd, raced>>
SqlUpsert(p, k, f, v)     == kindA \in {"sql", "mysql"} /\ Find(p, k, f, v)
SqliteUpsert(p, k, f, v)  == kindA = "sqlite" /\ Find(p, k, f, v)
RedisUpsert(p, k, f, v)   == kindA = "redis" /\ Find(p, k, f, v)
ElasticUpsert(p, k, f, v) == kindA = "elastic" /\ Find(p, k, f, v)
SurrealUpsert(p, k, f, v) == kindA = "surreal" /\ Find(p, k, f, v)
UpsertWrites(p) ==
    LET c == acall[p] IN
    /\ Going(p, "found")
    /\ \/ c.todo = {} /\ kindA \in {"mysql", "sqlite"} /\ InsertToReadBack(p, c.key)
       \/ c.todo = {} /\ kindA \notin {"mysql", "sqlite", "redis"} /\ CreateRecord(p, c.key)
       \/ c.todo = {} /\ RedisSet(p, c.key, Idle)
       \/ \E i \in c.todo : kindA \notin Merging /\ UpdateSaying(p, i, c.fld, c.val,
                                 [Said(TRUE, 1, {}) EXCEPT !.strays = c.todo \ Hits(tbl, c.key)])
       \/ \E i \in c.todo : kindA \in Merging /\ ReadToMerge(p, c.key, i, c.fld, c.val)
    /\ UNCHANGED adapterRest
(* A plain POST: a conflict when the record exists.                        *)
SupabaseUpsert(p, k) == kindA = "supabase" /\ CreateRecord(p, k)
(* One findOneAndUpdate; a field in both data sets is refused by the       *)
(* server ($set and $setOnInsert of one path).                             *)
MongoUpsert(p, k, f, v, shared) ==
    /\ kindA = "mongo"
    /\ \/ shared /\ Refuse(p)
       \/ ~shared /\ Hits(tbl, k) = {} /\ CreateRecord(p, k)
       \/ ~shared /\ \E i \in Hits(tbl, k) : UpdateRecord(p, i, f, v)

-----------------------------------------------------------------------------
StartKeyed(p, k) ==
    \/ SqlCreate(p, k) \/ MongoCreate(p, k) \/ SupabaseCreate(p, k) \/ ElasticCreate(p, k)
    \/ SurrealCreate(p, k) \/ MysqlCreate(p, k) \/ SqliteCreate(p, k) \/ RedisCreate(p, k)
    \/ SupabaseUpsert(p, k)
StartFiltered(p, k) ==
    \/ SqlDeleteMany(p, k) \/ SqliteDeleteMany(p, k) \/ MongoDeleteMany(p, k) \/ SupabaseCount(p, k)
    \/ RedisDeleteMany(p, k) \/ ElasticUpdateMany(p, k) \/ ElasticDeleteMany(p, k)
    \/ \E f \in Fields, v \in AVals :
         \/ SqlUpdateMany(p, k, f, v) \/ SqliteUpdateMany(p, k, f, v) \/ MongoUpdateMany(p, k, f, v)
         \/ SupabaseUpdateMany(p, k, f, v) \/ RedisUpdateMany(p, k, f, v)
StartUpsert(p, k, f, v) ==
    \/ SqlUpsert(p, k, f, v) \/ SqliteUpsert(p, k, f, v) \/ RedisUpsert(p, k, f, v)
    \/ ElasticUpsert(p, k, f, v) \/ SurrealUpsert(p, k, f, v)
    \/ \E shared \in BOOLEAN : MongoUpsert(p, k, f, v, shared)
StartById(p, i) ==
    \/ SqlRemove(p, i) \/ SqliteRemove(p, i) \/ MongoRemove(p, i) \/ ElasticRemove(p, i)
    \/ SurrealRemove(p, i) \/ SupabaseRemove(p, i) \/ RedisRemove(p, i)
    \/ \E f \in Fields, v \in AVals :
         \/ SqlUpdate(p, i, f, v) \/ SqliteUpdate(p, i, f, v) \/ MongoUpdate(p, i, f, v)
         \/ SurrealUpdate(p, i, f, v) \/ SupabaseUpdate(p, i, f, v) \/ RedisUpdate(p, i, f, v)
         \/ ElasticUpdate(p, i, f, v) \/ MysqlUpdate(p, i, f, v)
StartMany(p, k, l) ==
    \/ SqlCreateMany(p, k, l) \/ MysqlCreateMany(p, k, l) \/ MongoCreateMany(p, k, l)
    \/ SqliteCreateMany(p, k, l) \/ RedisCreateMany(p, k, l) \/ SurrealCreateMany(p, k, l)
    \/ ElasticCreateMany(p, k, l) \/ SupabaseCreateMany(p, k, l)

NextAdapters == \E p \in AProcs :
    \/ /\ Starting(p) /\ UNCHANGED adapterRest
       /\ \/ \E k \in AKeys : StartKeyed(p, k)
          \/ \E k \in AKeys \cup {AnyKey} : StartFiltered(p, k)
          \/ \E k \in AKeys, f \in Fields, v \in AVals : StartUpsert(p, k, f, v)
          \/ \E i \in 1 .. born : StartById(p, i)
          \/ SurrealBulkRefused(p) \/ CassandraRefuses(p) \/ CallFails(p)
    \/ /\ Starting(p) /\ UNCHANGED kindA
       /\ \/ \E k, l \in AKeys : StartMany(p, k, l)
          \/ SqlCreateManyRefused(p)
    \/ PutMerged(p) \/ ReadBack(p) \/ RedisIndex(p) \/ RedisUnindex(p) \/ InsertSecond(p)
    \/ SupabaseDeleteMany(p) \/ RedisEach(p) \/ UpsertWrites(p) \/ LaterCallFails(p)

SpecAdapters == InitAdapters /\ [][NextAdapters]_adapterVars

-----------------------------------------------------------------------------
(* Types; a caller between two calls holds what the next one needs, and    *)
(* the transaction manager's flag is up only during a createMany.          *)
TypeOKAdapters ==
    /\ kindA \in Adapters
    /\ tbl \in [AIds -> Recs \cup {NoRec}] /\ ackd \in [AIds -> Recs \cup {NoRec}]
    /\ born \in 0 .. MaxRecs /\ Present(tbl) \subseteq 1 .. born
    /\ idx \subseteq 1 .. born /\ raced \subseteq 1 .. born
    /\ opsDone \in 0 .. MaxOps
    /\ \A p \in AProcs : /\ acall[p].todo \subseteq 1 .. born
                         /\ acall[p].at = "put" => acall[p].snap # NoRec
                         /\ report[p].n \in 0 .. MaxRecs
    /\ sqlTx => \E p \in AProcs : acall[p].at = "many"

(* No write is lost: the table is what the writes that took effect left,   *)
(* in their order and whatever they were answered (a refused call may have *)
(* changed its record), except for records that two overlapping            *)
(* read-merge-puts of the Redis and Elasticsearch adapters wrote, or       *)
(* revived after a remove.                                                 *)
WritesAreNotLost ==
    /\ \A i \in AIds \ raced : tbl[i] = ackd[i]
    /\ kindA \notin Merging => raced = {}

(* Bulk writes and upserts write only records their filter or unique value *)
(* matches: findFirst of two adapters drops the filter, and they are left  *)
(* out; Redis puts what it read over a record replaced since.              *)
WritesOnlyMatches ==
    kindA \notin {"elastic", "surreal"} => \A p \in AProcs : report[p].strays \subseteq raced

(* The count createMany and create report is the number of records made,   *)
(* and a failed one leaves nothing where the adapter does not stop half    *)
(* way: of operations that heard the answers of what they wrote.           *)
CreatedIsCounted == \A p \in AProcs :
    LET r == report[p]
    IN  r.heard => /\ r.ok /\ r.made # {} => r.n = Cardinality(r.made)
                   /\ ~r.ok /\ kindA \notin StopsHalfWay => \A i \in r.made : tbl[i] = NoRec

(* findFirst finds a match exactly when there is one (with offset page *   *)
(* limit it skips the first: the three Shifted adapters are left out).     *)
FindFirstFinds == kindA \in Uniform => \A k \in AKeys :
    LET r == AFindFirst(tbl, k) IN r \subseteq Hits(tbl, k) /\ (r = {} <=> Hits(tbl, k) = {})

(* Walking the pages meets every listed record exactly once, from page 1   *)
(* on, or from page 0 where the offset is page * limit.                    *)
PagesPartition == kindA # "cassandra" =>
    \A k \in AKeys \cup {AnyKey}, limit \in 1 .. 2 :
        LET first == IF kindA \in Shifted THEN 0 ELSE 1
            seen  == IF kindA = "redis" THEN Hits(tbl, k) \cap idx ELSE Hits(tbl, k)
        IN  \A i \in seen :
                Cardinality({pg \in first .. first + MaxRecs : i \in AList(tbl, k, pg, limit)}) = 1

(* Every record of the Redis adapter can be listed: its id is in the set   *)
(* key, unless SADD is still to come, failed, or the record was revived or *)
(* made anew between the DEL and the SREM of a remove.                     *)
RecordsAreListed == kindA = "redis" => \A i \in Present(tbl) :
    i \in idx \cup raced \/ \E p \in AProcs : acall[p].at = "sadd" /\ acall[p].id = i

(* What callers of an adapter rely on, for each of the nine adapters with  *)
(* the exceptions the parts name: a write that took effect is not lost to  *)
(* another writer, bulk writes touch matching records only, the number of  *)
(* records created is the number reported, pages add up to the list, what  *)
(* is stored is listed, and findFirst finds what matches.                  *)
AdaptersKeepRecords ==
    /\ TypeOKAdapters
    /\ WritesAreNotLost
    /\ WritesOnlyMatches
    /\ CreatedIsCounted
    /\ PagesPartition
    /\ RecordsAreListed
    /\ FindFirstFinds
=============================================================================
