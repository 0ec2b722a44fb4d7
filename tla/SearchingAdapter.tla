-------------------------- MODULE SearchingAdapter --------------------------
(***************************************************************************)
(* The search layer between the primary adapter and the cache              *)
(* (search/searching_adapter.cpp): every successful single-record write is *)
(* mirrored into one Elasticsearch index, best effort, after the primary   *)
(* write and outside any transaction.  As in CachingAdapter, a record is   *)
(* the number of the write that produced it; Ids are the index's document  *)
(* ids "entity:id".                                                        *)
(***************************************************************************)
EXTENDS Integers

CONSTANTS
    Procs,        \* callers: requests and workflow threads, of all replicas
    Ids,          \* documents
    MaxVersion,   \* bound on the number of changes of rows
    MirrorFails,  \* may Elasticsearch refuse or time out?
    Bypass        \* bulk operations, rollbacks, writers outside the daemon

ASSUME SearchAssumption ==
    /\ MaxVersion \in Nat
    /\ MirrorFails \in BOOLEAN /\ Bypass \in BOOLEAN

Gone == 0         \* no row, no document

VARIABLES
    row,          \* the primary adapter
    version,      \* number of the latest write
    inTx, saved,  \* an open transaction, and what its rollback restores
    doc,          \* the index
    pc,           \* per request: "idle" or the mirror call it is to make
    target, buf,  \* per request: the record and the value to mirror
    outdated,     \* history: requests whose row has changed since their write
    excuse        \* history: why a document may differ from its row

store   == <<row, version, inTx, saved>>
local   == <<pc, target, buf>>
vars    == <<store, doc, local, outdated, excuse>>

Causes == {"crossed", "lostMirror", "unmirrored"}

(* The rows, their documents and the writes still to be mirrored.          *)
TypeOK ==
    /\ row \in [Ids -> 0 .. MaxVersion]
    /\ version \in 0 .. MaxVersion
    /\ inTx \in BOOLEAN
    /\ saved \in [Ids -> 0 .. MaxVersion]
    /\ doc \in [Ids -> 0 .. MaxVersion]
    /\ pc \in [Procs -> {"idle", "put", "delete"}]
    /\ target \in [Procs -> Ids]
    /\ buf \in [Procs -> 0 .. MaxVersion]
    /\ outdated \subseteq Procs
    /\ excuse \in [Ids -> SUBSET Causes]
    /\ \A p \in Procs : pc[p] = "put" => buf[p] # Gone

Init ==
    /\ row = [i \in Ids |-> Gone]
    /\ version = 0
    /\ inTx = FALSE
    /\ saved = [i \in Ids |-> Gone]
    /\ doc = [i \in Ids |-> Gone]
    /\ pc = [p \in Procs |-> "idle"]
    /\ target \in [Procs -> Ids]
    /\ buf = [p \in Procs |-> Gone]
    /\ outdated = {}
    /\ excuse = [i \in Ids |-> {}]
-----------------------------------------------------------------------------
NewVersion == version < MaxVersion /\ version' = version + 1

Mirrors(i) == {p \in Procs : pc[p] # "idle" /\ target[p] = i}

(* Mutant of Write: the record as it was before the write is mirrored.     *)
WriteMirroringOldRow(p, i, v, step) ==
    /\ row' = [row EXCEPT ![i] = v]
    /\ pc' = [pc EXCEPT ![p] = step]
    /\ target' = [target EXCEPT ![p] = i]
    /\ buf' = [buf EXCEPT ![p] = row[i]]
    /\ outdated' = outdated \cup Mirrors(i)
    /\ UNCHANGED <<inTx, saved, doc, excuse>>

(* p has written v to record i and is to mirror it; the mirrors of earlier *)
(* writes of i that are still under way are outdated from here on.         *)
Write(p, i, v, step) ==
    /\ row' = [row EXCEPT ![i] = v]
    /\ pc' = [pc EXCEPT ![p] = step]
    /\ target' = [target EXCEPT ![p] = i]
    /\ buf' = [buf EXCEPT ![p] = v]
    /\ outdated' = outdated \cup Mirrors(i)
    /\ UNCHANGED <<inTx, saved, doc, excuse>>

(* create, update and upsert: inner_ succeeded, mirrorRecord is next.  A   *)
(* failed inner call ends the request and changes nothing.                 *)
WriteRecord(p, i) ==
    /\ pc[p] = "idle"
    /\ NewVersion
    /\ Write(p, i, version', "put")

(* Mutant of RemoveRecord: deletes are not mirrored.                       *)
RemoveUnmirrored(p, i) ==
    /\ pc[p] = "idle"
    /\ row[i] # Gone
    /\ row' = [row EXCEPT ![i] = Gone]
    /\ outdated' = outdated \cup Mirrors(i)
    /\ UNCHANGED <<version, inTx, saved, doc, local, excuse>>

(* remove: inner_ succeeded, mirrorDelete is next.                         *)
RemoveRecord(p, i) ==
    /\ pc[p] = "idle"
    /\ row[i] # Gone
    /\ Write(p, i, Gone, "delete")
    /\ UNCHANGED version

Return(p) ==
    /\ pc' = [pc EXCEPT ![p] = "idle"]
    /\ buf' = [buf EXCEPT ![p] = Gone]
    /\ outdated' = outdated \ {p}
    /\ UNCHANGED <<store, target>>

(* Mutant of Mirror: a document that exists is not overwritten.            *)
MirrorOnce(p) ==
    /\ pc[p] # "idle"
    /\ doc' = [doc EXCEPT ![target[p]] = IF @ = Gone THEN buf[p] ELSE @]
    /\ excuse' = [excuse EXCEPT ![target[p]] = IF p \in outdated THEN {"crossed"} ELSE {}]
    /\ Return(p)

(* mirrorRecord's PUT or mirrorDelete's DELETE reaches the index.          *)
Mirror(p) ==
    /\ pc[p] # "idle"
    /\ doc' = [doc EXCEPT ![target[p]] = buf[p]]
    /\ excuse' = [excuse EXCEPT ![target[p]] = IF p \in outdated THEN {"crossed"} ELSE {}]
    /\ Return(p)

(* It does not (or the record has no id): a line is logged, the caller is  *)
(* told of success.                                                        *)
MirrorLost(p) ==
    /\ MirrorFails
    /\ pc[p] # "idle"
    /\ excuse' = [excuse EXCEPT ![target[p]] = @ \cup {"lostMirror"}]
    /\ Return(p)
    /\ UNCHANGED doc
-----------------------------------------------------------------------------
(* The rows become r behind the index's back.                              *)
ChangeUnmirrored(r) ==
    LET changed == {i \in Ids : r[i] # row[i]} IN
    /\ row' = r
    /\ outdated' = outdated \cup {p \in Procs : pc[p] # "idle" /\ target[p] \in changed}
    /\ excuse' = [i \in Ids |-> IF i \in changed THEN excuse[i] \cup {"unmirrored"} ELSE excuse[i]]
    /\ UNCHANGED <<doc, local>>

(* createMany, updateMany, deleteMany, and writers outside the daemon      *)
WriteMany(S) ==
    /\ Bypass
    /\ NewVersion
    /\ \E v \in {Gone, version'} :
          ChangeUnmirrored([i \in Ids |-> IF i \in S THEN v ELSE row[i]])
    /\ UNCHANGED <<inTx, saved>>

(* Transactions are forwarded to inner_; the index is not told.            *)
BeginTransaction ==
    /\ Bypass /\ ~inTx
    /\ inTx' = TRUE
    /\ saved' = row
    /\ UNCHANGED <<row, version, doc, local, outdated, excuse>>

CommitTransaction ==
    /\ inTx
    /\ inTx' = FALSE
    /\ saved' = [i \in Ids |-> Gone]
    /\ UNCHANGED <<row, version, doc, local, outdated, excuse>>

RollbackTransaction ==
    /\ inTx
    /\ inTx' = FALSE
    /\ saved' = [i \in Ids |-> Gone]
    /\ ChangeUnmirrored(saved)
    /\ UNCHANGED version

Next ==
    \/ \E p \in Procs : \/ \E i \in Ids : WriteRecord(p, i) \/ RemoveRecord(p, i)
                        \/ Mirror(p) \/ MirrorLost(p)
    \/ \E S \in (SUBSET Ids) \ {{}} : WriteMany(S)
    \/ BeginTransaction \/ CommitTransaction \/ RollbackTransaction

Spec == Init /\ [][Next]_vars

(* Threads run; a mirror call ends (Elasticsearch answers or times out).   *)
FairSpec == Spec /\ \A p \in Procs : WF_vars(Mirror(p) \/ MirrorLost(p))
-----------------------------------------------------------------------------
(* A request that will bring the document in line with the row.            *)
Repair(i) == \E p \in Mirrors(i) : p \notin outdated

(* Mirror-after-write loses nothing by itself: when a document differs     *)
(* from its row, the latest writer's mirror is still to come, or a mirror  *)
(* was lost, or one was overtaken by a later write of the same record, or  *)
(* the row changed without a mirror at all (create, update, remove,        *)
(* mirrorRecord, mirrorDelete).                                            *)
DriftExplained ==
    \A i \in Ids : doc[i] # row[i] => Repair(i) \/ excuse[i] # {}

(* "a stale document persists until that record is next written"           *)
(* (searching_adapter.hpp), where writes of a record do not overlap: the   *)
(* write heals the document, whatever made it stale.                       *)
HealedByNextWrite ==
    [][\A p \in Procs :
          pc[p] # "idle" /\ p \notin outdated /\ Mirror(p) =>
             doc'[target[p]] = row'[target[p]]]_vars

(* A document that is behind its row for no recorded cause catches up: the *)
(* mirror call that every single-record write makes (create, update,       *)
(* remove) reaches the index, or the drift gets one of its three causes.   *)
DriftHeals ==
    \A i \in Ids : (doc[i] # row[i] /\ excuse[i] = {}) ~> (doc[i] = row[i] \/ excuse[i] # {})
=============================================================================
