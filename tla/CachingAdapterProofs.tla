------------------------ MODULE CachingAdapterProofs ------------------------
(***************************************************************************)
(* What the cache promises for every number of threads, records, versions, *)
(* every TTL and every request deadline.                                   *)
(***************************************************************************)
EXTENDS CachingAdapter, TLAPS

(* There is a record an idle request can stand for.                        *)
LEMMA AnyIdIsAnId == AnyId \in Ids
BY CacheAssumption DEF AnyId

(* Each request's locals, the rows and the entries of Redis stay in the    *)
(* ranges caching_adapter.cpp gives them.                                  *)
THEOREM Typing == Spec => []TypeOK
<1>1. Init => TypeOK
  <2> SUFFICES ASSUME Init PROVE TypeOK
    OBVIOUS
  <2>1. MaxVersion \in Nat /\ TTL \in Nat /\ Deadline \in Nat
    BY CacheAssumption
  <2>2. inTx \in BOOLEAN /\ overlapped \in [Procs -> BOOLEAN]
    BY DEF Init
  <2> QED BY <2>1, <2>2, AnyIdIsAnId DEF Init, TypeOK, NoRow, Steps
<1>2. TypeOK /\ [Next]_vars => TypeOK'
  <2> SUFFICES ASSUME TypeOK, [Next]_vars PROVE TypeOK'
    OBVIOUS
  <2> USE CacheAssumption, AnyIdIsAnId DEF TypeOK, Steps
  <2>1. ASSUME NEW p \in Procs, NEW i \in Ids, ReadHit(p, i) PROVE TypeOK'
    BY <2>1 DEF ReadHit, vars, store, redis, local, history
  <2>2. ASSUME NEW p \in Procs, NEW i \in Ids, ReadMiss(p, i) PROVE TypeOK'
    BY <2>2 DEF ReadMiss, Goto, store, redis, history
  <2>3. ASSUME NEW p \in Procs, NEW i \in Ids, WriteRecord(p, i) PROVE TypeOK'
    BY <2>3 DEF WriteRecord, Goto, ChangeRows, NewVersion, redis
  <2>4. ASSUME NEW p \in Procs, NEW i \in Ids, RemoveRecord(p, i) PROVE TypeOK'
    BY <2>4 DEF RemoveRecord, Goto, ChangeRows, redis, NoRow
  <2>5. ASSUME NEW p \in Procs, NEW S \in (SUBSET Ids) \ {{}}, WriteMany(p, S) PROVE TypeOK'
    BY <2>5 DEF WriteMany, Goto, ChangeRows, NewVersion, redis, NoRow
  <2>5a. ASSUME NEW p \in Procs, NEW S \in (SUBSET Ids) \ {{}}, WriteErrs(p, S) PROVE TypeOK'
    BY <2>5a DEF WriteErrs, ChangeRows, NewVersion, Excuse, redis, local, NoRow, Causes
  <2>6. ASSUME NEW p \in Procs, Finish(p) PROVE TypeOK'
    <3>1. CASE InnerRead(p)
      BY <3>1 DEF InnerRead, Goto, store, redis, history
    <3>2. CASE InnerReadFails(p)
      BY <3>2 DEF InnerReadFails, Return, store, redis, NoRow
    <3>3. CASE Backfill(p)
      BY <3>3 DEF Backfill, Return, store, NoRow, Causes
    <3>4. CASE BackfillFails(p)
      BY <3>4 DEF BackfillFails, Return, store, redis, NoRow
    <3>5. CASE InvalidateRecord(p)
      BY <3>5 DEF InvalidateRecord, Drop, Return, store, NoRow
    <3>6. CASE InvalidateRecordFails(p)
      BY <3>6 DEF InvalidateRecordFails, Excuse, Return, store, redis, NoRow, Causes
    <3>7. CASE Scan(p)
      BY <3>7 DEF Scan, Goto, store, redis, history
    <3>8. CASE UnlinkBatch(p)
      BY <3>8 DEF UnlinkBatch, Drop, Goto, store, NoRow
    <3>9. CASE UnlinkLastBatch(p)
      BY <3>9 DEF UnlinkLastBatch, Drop, Return, store, NoRow
    <3>10. CASE InvalidateEntityFails(p)
      BY <3>10 DEF InvalidateEntityFails, Excuse, Return, store, redis, NoRow, Causes
    <3> QED BY <2>6, <3>1, <3>2, <3>3, <3>4, <3>5, <3>6, <3>7, <3>8, <3>9, <3>10 DEF Finish
  <2>7. CASE BeginTransaction
    BY <2>7 DEF BeginTransaction, redis, local, history
  <2>8. CASE CommitTransaction
    <3>1. inTx' \in BOOLEAN
      BY <2>8 DEF CommitTransaction
    <3> QED BY <2>8, <3>1 DEF CommitTransaction, redis, local, history, NoRow
  <2>9. CASE RollbackTransaction
    <3>1. inTx' \in BOOLEAN
      BY <2>9 DEF RollbackTransaction
    <3> QED BY <2>9, <3>1 DEF RollbackTransaction, ChangeRows, Excuse, redis, local, NoRow, Causes
  <2>10. ASSUME NEW i \in Ids, ForeignWrite(i) PROVE TypeOK'
    BY <2>10 DEF ForeignWrite, NewVersion, ChangeRows, Excuse, redis, local, Causes
  <2>11. ASSUME NEW i \in Ids, CorruptEntry(i) PROVE TypeOK'
    BY <2>11 DEF CorruptEntry, store, local, history, Garbage, NoRow
  <2>12. CASE Tick
    BY <2>12 DEF Tick, store, NoRow
  <2>13. CASE UNCHANGED vars
    BY <2>13 DEF vars, store, redis, local, history
  <2> QED
    BY <2>1, <2>2, <2>3, <2>4, <2>5, <2>5a, <2>6, <2>7, <2>8, <2>9, <2>10, <2>11, <2>12, <2>13
    DEF Next, Request
<1> QED BY <1>1, <1>2, PTL DEF Spec

-----------------------------------------------------------------------------
(***************************************************************************)
(* BoundedStaleness is not inductive: it has to know how long an entry can *)
(* still live and how long a buffered row has been out of date.            *)
(***************************************************************************)

(* An entry's staleness and its remaining life add up to no more than the  *)
(* bound; a buffered row has been out of date for no longer than its       *)
(* request has been running.                                               *)
LifeBound ==
    /\ \A i \in Ids : staleFor[i] + cttl[i] <= MaxStaleness
    /\ \A p \in Procs : bufStale[p] <= age[p]

(* One step of the adapter preserves LifeBound.                            *)
LEMMA LifeBoundStep == TypeOK /\ LifeBound /\ [Next]_vars => LifeBound'
<1> SUFFICES ASSUME TypeOK, LifeBound, [Next]_vars PROVE LifeBound'
  OBVIOUS
<1> USE CacheAssumption DEF TypeOK, LifeBound, MaxStaleness
<1>1. ASSUME NEW r, ChangeRows(r), UNCHANGED <<cttl, age>> PROVE LifeBound'
  BY <1>1 DEF ChangeRows
<1>2. ASSUME NEW p \in Procs, Return(p), UNCHANGED <<cttl, staleFor>> PROVE LifeBound'
  BY <1>2 DEF Return
<1>3. ASSUME NEW S, Drop(S), UNCHANGED <<age, bufStale>> PROVE LifeBound'
  BY <1>3 DEF Drop
<1>4. ASSUME NEW p \in Procs, NEW S, Drop(S), Return(p) PROVE LifeBound'
  BY <1>4 DEF Drop, Return
<1>5. ASSUME UNCHANGED <<cttl, staleFor, age, bufStale>> PROVE LifeBound'
  BY <1>5
<1>6. ASSUME NEW p \in Procs, Request(p) PROVE LifeBound'
  <2>1. ASSUME NEW i \in Ids, ReadHit(p, i) \/ ReadMiss(p, i) PROVE LifeBound'
    BY <1>5, <2>1 DEF ReadHit, ReadMiss, vars, store, redis, local, history
  <2>2. ASSUME NEW i \in Ids, WriteRecord(p, i) \/ RemoveRecord(p, i) PROVE LifeBound'
    BY <1>1, <2>2 DEF WriteRecord, RemoveRecord, redis
  <2>3. ASSUME NEW S \in (SUBSET Ids) \ {{}}, WriteMany(p, S) PROVE LifeBound'
    BY <1>1, <2>3 DEF WriteMany, redis
  <2>4. ASSUME NEW S \in (SUBSET Ids) \ {{}}, WriteErrs(p, S) PROVE LifeBound'
    BY <1>1, <2>4 DEF WriteErrs, redis, local
  <2> QED BY <1>6, <2>1, <2>2, <2>3, <2>4 DEF Request
<1>7. ASSUME NEW p \in Procs, Finish(p) PROVE LifeBound'
  <2>1. CASE InnerRead(p) \/ Scan(p)
    BY <1>5, <2>1 DEF InnerRead, Scan, redis, history
  <2>2. CASE InnerReadFails(p) \/ BackfillFails(p)
    BY <1>2, <2>2 DEF InnerReadFails, BackfillFails, redis
  <2>3. CASE Backfill(p)
    BY <2>3 DEF Backfill, Return
  <2>4. CASE InvalidateRecord(p) \/ UnlinkLastBatch(p)
    BY <1>4, <2>4 DEF InvalidateRecord, UnlinkLastBatch
  <2>5. CASE InvalidateRecordFails(p) \/ InvalidateEntityFails(p)
    BY <1>2, <2>5 DEF InvalidateRecordFails, InvalidateEntityFails, redis
  <2>6. CASE UnlinkBatch(p)
    BY <1>3, <2>6 DEF UnlinkBatch
  <2> QED BY <1>7, <2>1, <2>2, <2>3, <2>4, <2>5, <2>6 DEF Finish
<1>8. CASE BeginTransaction \/ CommitTransaction
  BY <1>5, <1>8 DEF BeginTransaction, CommitTransaction, redis, local, history
<1>9. CASE RollbackTransaction
  BY <1>1, <1>9 DEF RollbackTransaction, redis, local
<1>10. ASSUME NEW i \in Ids, ForeignWrite(i) PROVE LifeBound'
  BY <1>1, <1>10 DEF ForeignWrite, redis, local
<1>11. ASSUME NEW i \in Ids, CorruptEntry(i) PROVE LifeBound'
  BY <1>5, <1>11 DEF CorruptEntry, local, history
<1>12. CASE Tick
  <2>1. \A i \in Ids : (staleFor[i] + cttl[i] <= MaxStaleness)'
    BY <1>12 DEF Tick
  <2>2. \A p \in Procs : (bufStale[p] <= age[p])'
    BY <1>12 DEF Tick
  <2> QED BY <2>1, <2>2
<1>13. CASE UNCHANGED vars
  BY <1>5, <1>13 DEF vars, redis, local, history
<1> QED BY <1>6, <1>7, <1>8, <1>9, <1>10, <1>11, <1>12, <1>13 DEF Next

(* No version is served from Redis for TTL + Deadline ticks after the row  *)
(* left it, for any TTL, any load and any failures of Redis.               *)
THEOREM StalenessIsBounded == Spec => []BoundedStaleness
<1>1. Init => LifeBound
  BY CacheAssumption DEF Init, LifeBound, MaxStaleness
<1>2. TypeOK /\ LifeBound => BoundedStaleness
  BY CacheAssumption DEF TypeOK, LifeBound, BoundedStaleness, Stale, Usable, Cached, MaxStaleness
<1> QED BY <1>1, <1>2, Typing, LifeBoundStep, PTL DEF Spec

-----------------------------------------------------------------------------
(***************************************************************************)
(* StalenessExplained needs what the requests under way know: a read whose *)
(* buffer is not the row any more has been overtaken, and only a request   *)
(* between SCAN and UNLINK has keys in hand.                               *)
(***************************************************************************)
Explained ==
    /\ StalenessExplained
    /\ \A p \in Procs : pc[p] = "backfill" /\ buf[p] # row[target[p]] => overlapped[p]
    /\ \A p \in Procs : pc[p] # "unlink" => found[p] = {}

(* A change of the rows that is somebody's to invalidate, or is excused,   *)
(* where it changes something.                                             *)
LEMMA ChangeExplained ==
    ASSUME TypeOK, Explained, NEW r \in [Ids -> 0 .. MaxVersion], ChangeRows(r),
           UNCHANGED <<redis, buf, found>>,
           \A i \in Ids : r[i] # row[i] /\ Usable(i) => Pending(i)' \/ excuse'[i] # {},
           \A i \in Ids : excuse[i] # {} => excuse'[i] # {},
           \A i \in Ids : Pending(i) => Pending(i)',
           \A p \in Procs : pc'[p] \in {"backfill", "unlink"} => pc[p] = pc'[p] /\ target[p] = target'[p],
           \A p \in Procs : pc[p] = "unlink" => pc'[p] = "unlink"
    PROVE  Explained'
<1>1. ASSUME NEW i \in Ids, Stale(i)' PROVE Pending(i)' \/ excuse'[i] # {}
  <2>1. Usable(i) /\ row' = r /\ cval' = cval
    BY <1>1 DEF Stale, Usable, Cached, redis, ChangeRows
  <2>2. CASE r[i] # row[i]
    BY <2>1, <2>2
  <2>3. CASE r[i] = row[i]
    <3>1. Stale(i)
      BY <1>1, <2>1, <2>3 DEF Stale, Usable, Cached, redis
    <3> QED BY <3>1 DEF Explained, StalenessExplained
  <2> QED BY <2>2, <2>3
<1>2. ASSUME NEW p \in Procs, pc'[p] = "backfill", buf'[p] # row'[target'[p]] PROVE overlapped'[p]
  <2>1. pc[p] = "backfill" /\ target'[p] = target[p] /\ buf'[p] = buf[p] /\ target[p] \in Ids
    BY <1>2 DEF TypeOK
  <2>2. overlapped'[p] <=> overlapped[p] \/ r[target[p]] # row[target[p]]
    BY <2>1 DEF ChangeRows
  <2> QED BY <1>2, <2>1, <2>2 DEF Explained, ChangeRows
<1>3. \A p \in Procs : pc'[p] # "unlink" => found'[p] = {}
  BY DEF Explained
<1> QED BY <1>1, <1>2, <1>3 DEF Explained, StalenessExplained

(* A request returns after it has dropped or excused the keys it had to    *)
(* invalidate.                                                             *)
LEMMA ReturnExplained ==
    ASSUME TypeOK, Explained, NEW p \in Procs, Return(p), UNCHANGED row,
           \A i \in Ids : Stale(i)' => Stale(i),
           \A i \in Ids : Stale(i)' /\ excuse[i] # {} => excuse'[i] # {},
           \A i \in Ids : Stale(i)' => \/ ~(pc[p] = "del" /\ target[p] = i)
                                         /\ ~(pc[p] \in {"scan", "unlink"} /\ i \in todo[p] \cup found[p])
                                      \/ excuse'[i] # {}
    PROVE  Explained'
<1>1. ASSUME NEW i \in Ids, Stale(i)' PROVE Pending(i)' \/ excuse'[i] # {}
  <2>1. Stale(i) /\ (Pending(i) \/ excuse[i] # {})
    BY <1>1 DEF Explained, StalenessExplained
  <2>2. CASE excuse[i] # {}
    BY <1>1, <2>2
  <2>3. ASSUME NEW q \in Procs, q # p,
               \/ pc[q] = "del" /\ target[q] = i
               \/ pc[q] \in {"scan", "unlink"} /\ i \in todo[q] \cup found[q]
        PROVE  Pending(i)'
    BY <2>3 DEF Pending, Return, TypeOK
  <2> QED BY <1>1, <2>1, <2>2, <2>3 DEF Pending
<1>2. \A q \in Procs : pc'[q] = "backfill" /\ buf'[q] # row'[target'[q]] => overlapped'[q]
  BY DEF Return, Explained, TypeOK
<1>3. \A q \in Procs : pc'[q] # "unlink" => found'[q] = {}
  BY DEF Return, Explained, TypeOK
<1> QED BY <1>1, <1>2, <1>3 DEF Explained, StalenessExplained

(* One step of the adapter preserves Explained.                            *)
LEMMA ExplainedStep == TypeOK /\ Explained /\ [Next]_vars => Explained'
<1> SUFFICES ASSUME TypeOK, Explained, [Next]_vars PROVE Explained'
  OBVIOUS
<1>0. ASSUME UNCHANGED <<row, cval, cttl, excuse, target, buf, found, todo, overlapped, pc>> PROVE Explained'
  BY <1>0 DEF Explained, StalenessExplained, Stale, Usable, Cached, Pending
<1>1. ASSUME NEW p \in Procs, NEW i \in Ids, ReadHit(p, i) PROVE Explained'
  BY <1>0, <1>1 DEF ReadHit, vars, store, redis, local, history
<1>2. ASSUME NEW p \in Procs, NEW i \in Ids, ReadMiss(p, i) PROVE Explained'
  BY <1>2 DEF ReadMiss, Goto, store, redis, history, TypeOK,
     Explained, StalenessExplained, Stale, Usable, Cached, Pending
<1>3. ASSUME NEW p \in Procs, NEW i \in Ids, WriteRecord(p, i) \/ RemoveRecord(p, i) PROVE Explained'
  <2>1. PICK v \in 0 .. MaxVersion : ChangeRows([row EXCEPT ![i] = v])
    <3>1. CASE WriteRecord(p, i)
      <4>1. version' \in 0 .. MaxVersion /\ ChangeRows([row EXCEPT ![i] = version'])
        BY <3>1, CacheAssumption DEF WriteRecord, NewVersion, TypeOK
      <4> QED BY <4>1
    <3>2. CASE RemoveRecord(p, i)
      <4>1. NoRow \in 0 .. MaxVersion /\ ChangeRows([row EXCEPT ![i] = NoRow])
        BY <3>2, CacheAssumption DEF RemoveRecord, NoRow
      <4> QED BY <4>1
    <3> QED BY <1>3, <3>1, <3>2
  <2>2. pc[p] = "idle" /\ pc' = [pc EXCEPT ![p] = "del"] /\ target' = [target EXCEPT ![p] = i]
    BY <1>3 DEF WriteRecord, RemoveRecord, Goto
  <2>3. UNCHANGED <<redis, buf, todo, found, excuse>>
    BY <1>3 DEF WriteRecord, RemoveRecord
  <2>4. \A j \in Ids : ([row EXCEPT ![i] = v])[j] # row[j] => Pending(j)'
    BY <2>2 DEF Pending, TypeOK
  <2>5. \A j \in Ids : Pending(j) => Pending(j)'
    BY <2>2, <2>3 DEF Pending, TypeOK
  <2>6. [row EXCEPT ![i] = v] \in [Ids -> 0 .. MaxVersion]
    BY DEF TypeOK
  <2>7. \A q \in Procs : /\ pc'[q] \in {"backfill", "unlink"} => pc[q] = pc'[q] /\ target[q] = target'[q]
                         /\ pc[q] = "unlink" => pc'[q] = "unlink"
    BY <2>2 DEF TypeOK
  <2> QED BY <2>1, <2>3, <2>4, <2>5, <2>6, <2>7, ChangeExplained
<1>4. ASSUME NEW p \in Procs, NEW S \in (SUBSET Ids) \ {{}}, WriteMany(p, S) PROVE Explained'
  <2>1. PICK r \in [Ids -> 0 .. MaxVersion] : ChangeRows(r)
    <3>1. PICK value \in {NoRow, version'} : ChangeRows([i \in Ids |-> IF i \in S THEN value ELSE row[i]])
      BY <1>4 DEF WriteMany
    <3>2. value \in 0 .. MaxVersion
      BY <1>4, CacheAssumption DEF WriteMany, NewVersion, TypeOK, NoRow
    <3>3. [i \in Ids |-> IF i \in S THEN value ELSE row[i]] \in [Ids -> 0 .. MaxVersion]
      BY <3>2 DEF TypeOK
    <3> QED BY <3>1, <3>3
  <2>2. pc[p] = "idle" /\ pc' = [pc EXCEPT ![p] = "scan"] /\ todo' = [todo EXCEPT ![p] = Ids]
    BY <1>4 DEF WriteMany, Goto
  <2>3. UNCHANGED <<redis, buf, target, found, excuse>>
    BY <1>4 DEF WriteMany
  <2>4. \A j \in Ids : Pending(j)'
    BY <2>2 DEF Pending, TypeOK
  <2>7. \A q \in Procs : /\ pc'[q] \in {"backfill", "unlink"} => pc[q] = pc'[q] /\ target[q] = target'[q]
                         /\ pc[q] = "unlink" => pc'[q] = "unlink"
    BY <2>2, <2>3 DEF TypeOK
  <2> QED BY <2>1, <2>3, <2>4, <2>7, ChangeExplained
<1>5. ASSUME NEW p \in Procs, Finish(p) PROVE Explained'
  <2>1. CASE InnerRead(p)
    BY <2>1 DEF InnerRead, Goto, store, redis, history, TypeOK,
       Explained, StalenessExplained, Stale, Usable, Cached, Pending
  <2>2. CASE InnerReadFails(p) \/ BackfillFails(p)
    BY <2>2, ReturnExplained DEF InnerReadFails, BackfillFails, store, redis, Stale, Usable, Cached
  <2>3. CASE Backfill(p)
    <3>0. PICK t \in Ids : t = target[p]
      BY DEF TypeOK
    <3>1. Return(p) /\ row' = row
      BY <2>3 DEF Backfill, TypeOK, store
    <3>2. cval'[t] = buf[p] /\ excuse'[t] = IF overlapped[p] THEN {"overlap"} ELSE {}
      BY <2>3, <3>0 DEF Backfill, TypeOK
    <3>3. Stale(t)' => excuse'[t] # {}
      <4>1. CASE buf[p] = row[t]
        BY <3>1, <3>2, <4>1 DEF Stale
      <4>2. CASE buf[p] # row[t]
        <5>1. overlapped[p]
          BY <2>3, <3>0, <4>2 DEF Backfill, Explained
        <5> QED BY <3>2, <5>1
      <4> QED BY <4>1, <4>2
    <3>4. \A i \in Ids \ {t} : cval'[i] = cval[i] /\ cttl'[i] = cttl[i] /\ excuse'[i] = excuse[i]
      BY <2>3, <3>0 DEF Backfill, TypeOK
    <3>5. \A i \in Ids : Pending(i) => Pending(i)'
      BY <2>3 DEF Backfill, Return, Pending, TypeOK
    <3>6. StalenessExplained'
      <4> SUFFICES ASSUME NEW i \in Ids, Stale(i)' PROVE Pending(i)' \/ excuse'[i] # {}
        BY DEF StalenessExplained
      <4>1. CASE i = t
        BY <3>3, <4>1
      <4>2. CASE i # t
        <5>1. Stale(i) /\ excuse'[i] = excuse[i]
          BY <3>1, <3>4, <4>2 DEF Stale, Usable, Cached
        <5> QED BY <3>5, <5>1 DEF Explained, StalenessExplained
      <4> QED BY <4>1, <4>2
    <3>7. /\ \A q \in Procs : pc'[q] = "backfill" /\ buf'[q] # row'[target'[q]] => overlapped'[q]
          /\ \A q \in Procs : pc'[q] # "unlink" => found'[q] = {}
      BY <3>1 DEF Return, Explained, TypeOK
    <3> QED BY <3>6, <3>7 DEF Explained
  <2>4. CASE InvalidateRecord(p)
    BY <2>4, ReturnExplained DEF InvalidateRecord, Drop, store, Stale, Usable, Cached
  <2>5. CASE InvalidateRecordFails(p)
    BY <2>5, ReturnExplained DEF InvalidateRecordFails, Excuse, store, redis, Stale, Usable, Cached
  <2>6. CASE Scan(p)
    <3>1. PICK passed \in SUBSET todo[p] :
             /\ todo' = [todo EXCEPT ![p] = @ \ passed]
             /\ found' = [found EXCEPT ![p] = {i \in passed : Cached(i)}]
      BY <2>6 DEF Scan
    <3>2. pc[p] = "scan" /\ pc' = [pc EXCEPT ![p] = "unlink"] /\ found[p] = {}
          /\ UNCHANGED <<store, redis, target, buf, age, history>>
      BY <2>6 DEF Scan, Goto, Explained
    <3>3. \A i \in Ids : Stale(i)' <=> Stale(i)
      BY <3>2 DEF Stale, Usable, Cached, store, redis
    <3>4. \A i \in Ids : Stale(i) /\ Pending(i) => Pending(i)'
      BY <3>1, <3>2 DEF Pending, Stale, Usable, TypeOK
    <3>5. StalenessExplained'
      BY <3>2, <3>3, <3>4 DEF Explained, StalenessExplained, history
    <3>6. /\ \A q \in Procs : pc'[q] = "backfill" /\ buf'[q] # row'[target'[q]] => overlapped'[q]
          /\ \A q \in Procs : pc'[q] # "unlink" => found'[q] = {}
      BY <3>1, <3>2 DEF Explained, TypeOK, store, history
    <3> QED BY <3>5, <3>6 DEF Explained
  <2>7. CASE UnlinkBatch(p)
    <3>1. pc[p] = "unlink" /\ pc' = [pc EXCEPT ![p] = "scan"] /\ found' = [found EXCEPT ![p] = {}]
          /\ UNCHANGED <<store, target, buf, todo, overlapped>> /\ Drop(found[p])
      BY <2>7 DEF UnlinkBatch, Goto
    <3>2. \A i \in Ids : Stale(i)' => Stale(i) /\ i \notin found[p] /\ excuse'[i] = excuse[i]
      BY <3>1 DEF Drop, Stale, Usable, Cached, store
    <3>3. \A i \in Ids : i \notin found[p] /\ Pending(i) => Pending(i)'
      BY <3>1 DEF Pending, TypeOK
    <3>4. StalenessExplained'
      BY <3>2, <3>3 DEF Explained, StalenessExplained
    <3>5. /\ \A q \in Procs : pc'[q] = "backfill" /\ buf'[q] # row'[target'[q]] => overlapped'[q]
          /\ \A q \in Procs : pc'[q] # "unlink" => found'[q] = {}
      BY <3>1 DEF Explained, TypeOK, store
    <3> QED BY <3>4, <3>5 DEF Explained
  <2>8. CASE UnlinkLastBatch(p)
    BY <2>8, ReturnExplained DEF UnlinkLastBatch, Drop, store, Stale, Usable, Cached
  <2>9. CASE InvalidateEntityFails(p)
    BY <2>9, ReturnExplained DEF InvalidateEntityFails, Excuse, store, redis, Stale, Usable, Cached
  <2> QED BY <1>5, <2>1, <2>2, <2>3, <2>4, <2>5, <2>6, <2>7, <2>8, <2>9 DEF Finish
<1>6. CASE BeginTransaction \/ CommitTransaction
  BY <1>0, <1>6 DEF BeginTransaction, CommitTransaction, redis, local, history
<1>7. ASSUME NEW r \in [Ids -> 0 .. MaxVersion], ChangeRows(r), UNCHANGED <<redis, local>>,
             \A i \in Ids : r[i] # row[i] /\ Usable(i) => excuse'[i] # {},
             \A i \in Ids : excuse[i] # {} => excuse'[i] # {}
      PROVE  Explained'
  <2>1. UNCHANGED <<redis, buf, found>> /\ UNCHANGED <<pc, target>>
    BY <1>7 DEF local
  <2>2. \A i \in Ids : Pending(i) => Pending(i)'
    BY <1>7 DEF local, Pending
  <2> QED BY <1>7, <2>1, <2>2, ChangeExplained
<1>8. CASE RollbackTransaction
  <2>1. PICK r \in [Ids -> 0 .. MaxVersion] : r = saved
    BY DEF TypeOK
  <2>2. ChangeRows(r) /\ UNCHANGED <<redis, local>>
    BY <1>8, <2>1 DEF RollbackTransaction
  <2>3. \A i \in Ids : r[i] # row[i] /\ Usable(i) => excuse'[i] # {}
    BY <1>8, <2>1 DEF RollbackTransaction, Excuse, Usable
  <2>4. \A i \in Ids : excuse[i] # {} => excuse'[i] # {}
    BY <1>8 DEF RollbackTransaction, Excuse
  <2> QED BY <1>7, <2>2, <2>3, <2>4
<1>8a. ASSUME NEW i \in Ids, ForeignWrite(i) PROVE Explained'
  <2>1. PICK r \in [Ids -> 0 .. MaxVersion] : r = [row EXCEPT ![i] = version']
    <3>1. version' \in 0 .. MaxVersion
      BY <1>8a, CacheAssumption DEF ForeignWrite, NewVersion, TypeOK
    <3> QED BY <3>1 DEF TypeOK
  <2>2. ChangeRows(r) /\ UNCHANGED <<redis, local>>
    BY <1>8a, <2>1 DEF ForeignWrite
  <2>3. \A j \in Ids : r[j] # row[j] /\ Usable(j) => excuse'[j] # {}
    BY <1>8a, <2>1 DEF ForeignWrite, Excuse, Usable, TypeOK
  <2>4. \A j \in Ids : excuse[j] # {} => excuse'[j] # {}
    BY <1>8a DEF ForeignWrite, Excuse
  <2> QED BY <1>7, <2>2, <2>3, <2>4
<1>8b. ASSUME NEW p \in Procs, NEW S \in (SUBSET Ids) \ {{}}, WriteErrs(p, S) PROVE Explained'
  <2>1. PICK value \in {NoRow, version'} : ChangeRows([i \in Ids |-> IF i \in S THEN value ELSE row[i]])
    BY <1>8b DEF WriteErrs
  <2>2. value \in 0 .. MaxVersion
    BY <1>8b, CacheAssumption DEF WriteErrs, NewVersion, TypeOK, NoRow
  <2>3. PICK r \in [Ids -> 0 .. MaxVersion] : r = [i \in Ids |-> IF i \in S THEN value ELSE row[i]]
    BY <2>2 DEF TypeOK
  <2>4. ChangeRows(r) /\ UNCHANGED <<redis, local>>
    BY <1>8b, <2>1, <2>3 DEF WriteErrs
  <2>5. \A j \in Ids : r[j] # row[j] /\ Usable(j) => excuse'[j] # {}
    BY <1>8b, <2>3 DEF WriteErrs, Excuse, Usable, TypeOK
  <2>6. \A j \in Ids : excuse[j] # {} => excuse'[j] # {}
    BY <1>8b DEF WriteErrs, Excuse
  <2> QED BY <1>7, <2>4, <2>5, <2>6
<1>9. ASSUME NEW i \in Ids, CorruptEntry(i) PROVE Explained'
  <2>1. \A j \in Ids : Stale(j)' => Stale(j)
    BY <1>9 DEF CorruptEntry, store, Stale, Usable, Cached, TypeOK
  <2> QED BY <1>9, <2>1 DEF CorruptEntry, store, local, history, Explained, StalenessExplained, Pending
<1>10. CASE Tick
  <2>1. \A j \in Ids : Stale(j)' => Stale(j) /\ excuse'[j] = excuse[j]
    BY <1>10, CacheAssumption DEF Tick, store, Stale, Usable, Cached, TypeOK
  <2> QED BY <1>10, <2>1 DEF Tick, store, Explained, StalenessExplained, Pending
<1>11. CASE UNCHANGED vars
  BY <1>0, <1>11 DEF vars, store, redis, local, history
<1> QED BY <1>1, <1>2, <1>3, <1>4, <1>5, <1>6, <1>8, <1>9, <1>10, <1>11, <1>8a, <1>8b DEF Next, Request

(* A stale entry is somebody's to drop, or there is one of five reasons    *)
(* why it is not: however many threads read and write, the cache is behind *)
(* the rows only where an invalidation is missing (a foreign write, a      *)
(* rollback, a write answered as an error that changed the row), failed or *)
(* was overtaken.                                                          *)
THEOREM StaleEntriesAreExplained == Spec => []StalenessExplained
<1>1. Init => Explained
  BY DEF Init, Explained, StalenessExplained, Stale, Usable, Cached
<1>2. Explained => StalenessExplained
  BY DEF Explained
<1> QED BY <1>1, <1>2, Typing, ExplainedStep, PTL DEF Spec
=============================================================================
