-------------------- MODULE CompensatingTransactionProofs -------------------
(***************************************************************************)
(* The undo log is an inverse of the transaction, for any records, fields  *)
(* and length of the log.                                                  *)
(***************************************************************************)
EXTENDS CompensatingTransaction, TLAPS

USE CompensatingAssumption

(* A batch runs inside the transaction that it began.                      *)
InBatch == pc = "batch" => active

(* The absent row is one of the rows.                                      *)
LEMMA NoRowTyped == NoRow \in Rows
BY DEF NoRow, Rows

(* Every row has data, the absent one included.                            *)
LEMMA DataTyped ==
    ASSUME NEW r \in Rows
    PROVE  r.data \in Data
<1>1. CASE r = NoRow
  <2>1. [f \in Fields |-> 0] \in Data
    BY DEF Data
  <2>2. r.data = [f \in Fields |-> 0]
    BY <1>1 DEF NoRow
  <2> QED BY <2>1, <2>2
<1>2. CASE r \in [exists : {TRUE}, data : Data]
  BY <1>2
<1> QED BY <1>1, <1>2 DEF Rows

(* update() merges a payload into a row (redis_adapter.cpp) and leaves a row. *)
LEMMA MergedTyped ==
    ASSUME NEW r \in Rows, NEW d \in Data
    PROVE  Merged(r, d) \in Rows
<1>1. r.data \in Data
  BY DataTyped
<1>2. [f \in Fields |-> IF d[f] = 0 THEN r.data[f] ELSE d[f]] \in Data
  BY <1>1 DEF Data
<1> QED BY <1>2 DEF Merged, Rows

(* What recording an entry does to the transaction's state.                *)
LEMMA RecordTyped ==
    ASSUME TypeOK, NEW e \in Entry, Record(e)
    PROVE  /\ log' \in Seq(Entry) /\ capacity' \in Nat /\ Len(log') <= capacity'
           /\ active' = active
           /\ Len(log) <= Len(log')
           /\ ~active' => log' = << >>
<1>1. CASE active
  <2>1. log' = Append(log, e) /\ capacity' = Grown /\ active' = active
    BY <1>1 DEF Record
  <2>2. /\ log \in Seq(Entry) /\ Len(log) \in Nat /\ capacity \in Nat /\ Len(log) <= capacity
    BY DEF TypeOK
  <2>3. log' \in Seq(Entry) /\ Len(log') = Len(log) + 1
    BY <2>1, <2>2
  <2>4. Grown \in Nat /\ Len(log) + 1 <= Grown
    BY <2>2 DEF Grown
  <2> QED BY <1>1, <2>1, <2>2, <2>3, <2>4
<1>2. CASE ~active
  BY <1>2 DEF Record, TypeOK, tx
<1> QED BY <1>1, <1>2

(* What the adapter records of a write is an entry of the undo log.        *)
LEMMA EntryTyped ==
    ASSUME TypeOK, NEW i \in Ids, NEW t \in {"create", "update", "delete"}, NEW r \in Rows
    PROVE  Undo(t, i, r) \in Entry
BY DEF Undo, Entry

(* Every step keeps the types.                                             *)
LEMMA TypeStep == TypeOK /\ InBatch /\ [Next]_vars => TypeOK' /\ InBatch'
<1> SUFFICES ASSUME TypeOK, InBatch, [Next]_vars PROVE TypeOK' /\ InBatch'
  OBVIOUS
<1>t. /\ row \in [Ids -> Rows] /\ base \in [Ids -> Rows] /\ excused \subseteq Ids
      /\ log \in Seq(Entry) /\ Len(log) \in Nat /\ capacity \in Nat /\ next \in Nat
      /\ pc \in {"idle", "batch", "undo", "rolledBack"}
      /\ Len(log) <= capacity
  BY DEF TypeOK
<1>b. active \in BOOLEAN /\ dangling \in BOOLEAN
  BY DEF TypeOK
(* A write of a request: it logs at most one entry and keeps the control  *)
<1>1. ASSUME NEW e \in Entry, Record(e), row' \in [Ids -> Rows], excused' \subseteq Ids,
             UNCHANGED <<ctl, base>>, Serving
      PROVE  TypeOK' /\ InBatch'
  <2>1. active' \in BOOLEAN /\ dangling' \in BOOLEAN
    BY <1>1, <1>b, RecordTyped DEF ctl
  <2>2. pc' = pc /\ next' = next /\ base' = base /\ pc # "undo"
    BY <1>1 DEF ctl, Serving
  <2> QED BY <1>1, <1>t, <2>1, <2>2, RecordTyped DEF TypeOK, InBatch
<1>2. ASSUME NEW i \in Ids, NEW data \in Data, Create(i, data) PROVE TypeOK' /\ InBatch'
  <2>1. [exists |-> TRUE, data |-> data] \in Rows
    BY DEF Rows
  <2>2. row' \in [Ids -> Rows] /\ excused' \subseteq Ids
    BY <1>2, <1>t, <2>1 DEF Create
  <2>3. Undo("create", i, NoRow) \in Entry
    BY EntryTyped, NoRowTyped
  <2> QED BY <1>1, <1>2, <2>2, <2>3 DEF Create
<1>3. ASSUME NEW i \in Ids, NEW data \in Data, Update(i, data) PROVE TypeOK' /\ InBatch'
  <2>1. Merged(row[i], data) \in Rows
    BY <1>t, MergedTyped
  <2>2. row' \in [Ids -> Rows] /\ excused' \subseteq Ids
    BY <1>3, <1>t, <2>1 DEF Update
  <2>3. Undo("update", i, row[i]) \in Entry
    BY <1>t, EntryTyped
  <2> QED BY <1>1, <1>3, <2>2, <2>3 DEF Update
<1>4. ASSUME NEW i \in Ids, Remove(i) PROVE TypeOK' /\ InBatch'
  <2>2. row' \in [Ids -> Rows] /\ excused' \subseteq Ids
    BY <1>4, <1>t, NoRowTyped DEF Remove
  <2>3. Undo("delete", i, row[i]) \in Entry
    BY <1>t, EntryTyped
  <2> QED BY <1>1, <1>4, <2>2, <2>3 DEF Remove
<1>4a. \A i \in Ids, data \in Data : /\ [row EXCEPT ![i] = Merged(@, data)] \in [Ids -> Rows]
                                     /\ [row EXCEPT ![i] = [exists |-> TRUE, data |-> data]] \in [Ids -> Rows]
  <2> TAKE i \in Ids, data \in Data
  <2>1. Merged(row[i], data) \in Rows /\ [exists |-> TRUE, data |-> data] \in Rows
    BY <1>t, MergedTyped DEF Rows
  <2> QED BY <1>t, <2>1
<1>5. ASSUME NEW i \in Ids, WriteFails(i) PROVE TypeOK' /\ InBatch'
  <2> PICK type \in {"update", "delete"} : Record(Undo(type, i, row[i]))
    BY <1>5 DEF WriteFails
  <2>0. row' \in [Ids -> Rows] /\ UNCHANGED <<base, excused>> /\ Serving
    <3>1. \/ row' \in {row, [row EXCEPT ![i] = NoRow]}
          \/ \E data \in Data : row' = [row EXCEPT ![i] = Merged(@, data)]
      BY <1>5 DEF WriteFails
    <3>2. [row EXCEPT ![i] = NoRow] \in [Ids -> Rows]
      BY <1>t, NoRowTyped
    <3>3. row' \in [Ids -> Rows]
      <4>1. CASE row' \in {row, [row EXCEPT ![i] = NoRow]}
        BY <1>t, <3>2, <4>1
      <4>2. ASSUME NEW data \in Data, row' = [row EXCEPT ![i] = Merged(@, data)]
            PROVE  row' \in [Ids -> Rows]
        BY <1>4a, <4>2
      <4> QED BY <3>1, <4>1, <4>2
    <3>4. UNCHANGED <<base, excused>> /\ Serving
      BY <1>5 DEF WriteFails
    <3> QED BY <3>3, <3>4
  <2>1. Undo(type, i, row[i]) \in Entry
    BY <1>t, EntryTyped
  <2>2. /\ log' \in Seq(Entry) /\ capacity' \in Nat /\ Len(log') <= capacity'
        /\ active' = active /\ (~active' => log' = << >>)
    BY <2>1, RecordTyped
  <2>3. CASE pc = "batch"
    <3>1. pc' = "undo" /\ next' = Len(log') /\ dangling' = dangling
      BY <1>5, <2>3 DEF WriteFails, Fail
    <3>2. active' \in BOOLEAN /\ dangling' \in BOOLEAN /\ active'
      BY <1>b, <2>2, <2>3, <3>1 DEF InBatch
    <3>3. Len(log') \in Nat
      BY <2>2
    <3> QED BY <1>t, <2>0, <2>2, <3>1, <3>2, <3>3 DEF TypeOK, InBatch
  <2>4. CASE pc # "batch"
    <3>1. UNCHANGED ctl
      BY <1>5, <2>4 DEF WriteFails, Fail
    <3> QED BY <1>1, <1>t, <2>0, <2>1, <3>1
  <2> QED BY <2>3, <2>4
(* A call that logs nothing, whatever it did to the rows *)
<1>6. ASSUME UNCHANGED <<tx, base>>, row' \in [Ids -> Rows], excused' \subseteq Ids, Serving,
             UNCHANGED ctl \/ Fail
      PROVE  TypeOK' /\ InBatch'
  <2>1. UNCHANGED <<tx, base, dangling>> /\ pc # "undo"
    BY <1>6 DEF Fail, ctl, Serving
  <2>2. active' \in BOOLEAN /\ dangling' \in BOOLEAN /\ active' = active
    BY <1>b, <2>1 DEF tx
  <2>3. CASE pc = "batch" /\ Fail
    <3>1. pc' = "undo" /\ next' = Len(log') /\ active
      BY <2>3 DEF Fail, InBatch
    <3> QED BY <1>6, <1>t, <2>1, <2>2, <3>1 DEF TypeOK, InBatch, tx
  <2>4. CASE UNCHANGED ctl
    BY <1>6, <1>t, <2>1, <2>2, <2>4 DEF TypeOK, InBatch, tx, ctl
  <2> QED BY <1>6, <2>3, <2>4 DEF Fail
<1>6a. ASSUME NEW i \in Ids, NEW data \in Data, CreateFails(i, data) PROVE TypeOK' /\ InBatch'
  <2>1. row' \in [Ids -> Rows] /\ excused' \subseteq Ids
    BY <1>6a, <1>4a, <1>t DEF CreateFails
  <2> QED BY <1>6, <1>6a, <2>1 DEF CreateFails
<1>6b. ASSUME NEW i \in Ids, RemoveUnlogged(i) PROVE TypeOK' /\ InBatch'
  <2>1. row' \in [Ids -> Rows] /\ excused' \subseteq Ids
    BY <1>6b, <1>t, NoRowTyped DEF RemoveUnlogged
  <2> QED BY <1>6, <1>6b, <2>1 DEF RemoveUnlogged
<1>6c. ASSUME Rejected PROVE TypeOK' /\ InBatch'
  BY <1>6, <1>6c, <1>t DEF Rejected
<1>7. ASSUME Throw \/ Answer PROVE TypeOK' /\ InBatch'
  BY <1>7, <1>b DEF Throw, Answer, TypeOK, InBatch, tx
(* The transaction begins or ends: the log is empty *)
<1>8. ASSUME Begin \/ Commit \/ RollbackEnds \/ Restart PROVE TypeOK' /\ InBatch'
  <2>1. active' \in BOOLEAN /\ dangling' \in BOOLEAN
    BY <1>8, <1>b DEF Begin, Commit, RollbackEnds, Restart
  <2>2. /\ log' = << >> /\ capacity' = 0 /\ next' \in Nat
        /\ pc' \in {"idle", "batch", "rolledBack"} /\ (pc' = "batch" => active')
        /\ row' = row /\ base' \in [Ids -> Rows] /\ excused' \subseteq Ids
    BY <1>8, <1>t DEF Begin, Commit, RollbackEnds, Restart
  <2> QED BY <1>t, <2>1, <2>2 DEF TypeOK, InBatch
(* A turn of the rollback's loop logs at most one entry *)
<1>9. ASSUME pc = "undo", next > 0, next' = next - 1, UNCHANGED <<pc, base, excused>>,
             dangling' \in BOOLEAN, row' \in [Ids -> Rows],
             UNCHANGED tx \/ \E e \in Entry : Record(e)
      PROVE  TypeOK' /\ InBatch'
  <2>1. active /\ next <= Len(log)
    BY <1>9 DEF TypeOK
  <2>2. /\ log' \in Seq(Entry) /\ capacity' \in Nat /\ Len(log') <= capacity'
        /\ active' = active /\ Len(log) <= Len(log') /\ Len(log') \in Nat
    <3>1. CASE UNCHANGED tx
      BY <3>1, <1>t DEF tx
    <3>2. CASE \E e \in Entry : Record(e)
      BY <3>2, RecordTyped
    <3> QED BY <1>9, <3>1, <3>2
  <2>3. active' \in BOOLEAN /\ active'
    BY <1>b, <2>1, <2>2
  <2>4. next' \in Nat /\ next' <= Len(log')
    BY <1>9, <1>t, <2>1, <2>2
  <2> QED BY <1>9, <1>t, <2>2, <2>3, <2>4 DEF TypeOK, InBatch
<1>10. ASSUME pc = "undo", next > 0
       PROVE  /\ log[next] \in Entry
              /\ UndoRecord(log[next]) => UNCHANGED tx \/ \E e \in Entry : Record(e)
  <2>1. log[next] \in Entry
    BY <1>10, <1>t DEF TypeOK
  <2>2. log[next].id \in Ids /\ row[log[next].id] \in Rows
    BY <1>t, <2>1 DEF Entry
  <2>3. \A t \in {"create", "update", "delete"}, r \in Rows : Undo(t, log[next].id, r) \in Entry
    BY <2>2, EntryTyped
  <2>4. log[next].type \in {"create", "update", "delete"}
    BY <2>1 DEF Entry
  <2> QED BY <2>1, <2>2, <2>3, <2>4, NoRowTyped DEF UndoRecord
<1>10a. ASSUME pc = "undo", next > 0
        PROVE  [row EXCEPT ![log[next].id] = Undone(log[next])] \in [Ids -> Rows]
  <2> DEFINE e == log[next]
  <2>1. e \in Entry
    BY <1>10, <1>10a
  <2>2. e.id \in Ids /\ e.old \in Rows /\ row[e.id] \in Rows
        /\ e.type \in {"create", "update", "delete"}
    BY <1>t, <2>1 DEF Entry
  <2>3. e.old.data \in Data
    BY <2>2, DataTyped
  <2>4. Merged(row[e.id], e.old.data) \in Rows
    BY <2>2, <2>3, MergedTyped
  <2>5. Undone(e) \in Rows
    BY <2>2, <2>4, NoRowTyped DEF Undone
  <2> QED BY <1>t, <2>5
<1>11. ASSUME UndoEntry PROVE TypeOK' /\ InBatch'
  <2> DEFINE e == log[next]
  <2>1. e \in Entry /\ (UNCHANGED tx \/ \E x \in Entry : Record(x))
    BY <1>10, <1>11 DEF UndoEntry
  <2>2. row' \in [Ids -> Rows]
    BY <1>11, <1>10a DEF UndoEntry
  <2>3. dangling' \in BOOLEAN
    BY <1>11 DEF UndoEntry
  <2> QED BY <1>9, <1>11, <2>1, <2>2, <2>3 DEF UndoEntry
<1>12. ASSUME UndoMisses PROVE TypeOK' /\ InBatch'
  <2>1. dangling' \in BOOLEAN
    BY <1>12 DEF UndoMisses
  <2> QED BY <1>9, <1>10, <1>12, <1>t, <2>1 DEF UndoMisses
<1>13. ASSUME UndoFails PROVE TypeOK' /\ InBatch'
  <2>1. dangling' \in BOOLEAN
    BY <1>13 DEF UndoFails
  <2>2. row' \in [Ids -> Rows]
    BY <1>10a, <1>13, <1>t DEF UndoFails
  <2>3. UNCHANGED tx \/ UndoRecord(log[next])
    BY <1>13 DEF UndoFails
  <2> QED BY <1>9, <1>10, <1>13, <2>1, <2>2, <2>3 DEF UndoFails
<1>14. ASSUME UndoDangling PROVE TypeOK' /\ InBatch'
  <2>1. dangling' \in BOOLEAN
    BY <1>14, <1>b DEF UndoDangling
  <2> QED BY <1>9, <1>14, <1>t, <2>1 DEF UndoDangling
<1>15. ASSUME NEW i \in Ids, ForeignWrite(i) PROVE TypeOK' /\ InBatch'
  <2>1. row' \in [Ids -> Rows] /\ excused' \subseteq Ids
    BY <1>15, <1>t DEF ForeignWrite
  <2>2. UNCHANGED <<tx, ctl, base>>
    BY <1>15 DEF ForeignWrite
  <2> QED BY <1>b, <2>1, <2>2 DEF TypeOK, InBatch, tx, ctl
<1>16. CASE UNCHANGED vars
  BY <1>16, <1>b DEF vars, TypeOK, InBatch, tx, ctl
<1> QED BY <1>2, <1>3, <1>4, <1>5, <1>6a, <1>6b, <1>6c, <1>7, <1>8, <1>11, <1>12, <1>13, <1>14, <1>15, <1>16
           DEF Next

(* Records, log and loop index keep their types; the loop never runs past  *)
(* the log.                                                                *)
THEOREM Typing == Spec => []TypeOK
<1>1. Init => TypeOK /\ InBatch
  <2>1. Init => active \in BOOLEAN /\ dangling \in BOOLEAN
    BY DEF Init
  <2> QED BY <2>1 DEF Init, TypeOK, InBatch
<1> QED BY <1>1, TypeStep, PTL DEF Spec
-----------------------------------------------------------------------------
(* Writing record i after logging what it was keeps the log an inverse,    *)
(* whether i is logged for the first time or again.                        *)
LEMMA InverseKept ==
    ASSUME TypeOK, LogInverts, Serving,
           NEW i \in Ids, NEW e \in Entry, e.id = i, Record(e),
           active => e.old = row[i] \/ i \in excused',
           excused \subseteq excused', UNCHANGED <<ctl, base>> \/ pc' = "undo",
           base' = base,
           \A j \in Ids : j # i => row'[j] = row[j]
    PROVE  LogInverts'
<1> SUFFICES ASSUME active', pc' # "undo", NEW j \in Ids \ excused'
             PROVE  \/ \E n \in 1 .. Len(log') : /\ log'[n].id = j
                                                 /\ \A m \in 1 .. n - 1 : log'[m].id # j
                                                 /\ log'[n].old = base[j]
                    \/ row'[j] = base[j] /\ \A n \in 1 .. Len(log') : log'[n].id # j
  BY DEF LogInverts, Oldest
<1>1. active /\ log' = Append(log, e)
  BY DEF Record, tx
<1>2. /\ log \in Seq(Entry) /\ Len(log) \in Nat /\ Len(log') = Len(log) + 1
      /\ \A n \in 1 .. Len(log) : log'[n] = log[n]
      /\ log'[Len(log) + 1] = e
  BY <1>1 DEF TypeOK
<1>3. \/ \E n \in 1 .. Len(log) : Oldest(n, j) /\ log[n].old = base[j]
      \/ row[j] = base[j] /\ \A n \in 1 .. Len(log) : log[n].id # j
  BY <1>1 DEF LogInverts, Serving
<1>4. CASE \E n \in 1 .. Len(log) : Oldest(n, j) /\ log[n].old = base[j]
  <2> PICK n \in 1 .. Len(log) : Oldest(n, j) /\ log[n].old = base[j]
    BY <1>4
  <2>1. n \in 1 .. Len(log') /\ \A m \in 1 .. n : log'[m] = log[m]
    BY <1>2
  <2>2. log'[n].id = j /\ log'[n].old = base[j] /\ \A m \in 1 .. n - 1 : log'[m].id # j
    BY <1>2, <2>1 DEF Oldest
  <2> QED BY <2>1, <2>2
<1>5. CASE row[j] = base[j] /\ \A n \in 1 .. Len(log) : log[n].id # j
  <2>1. CASE j = i
    <3>1. log'[Len(log')].id = j /\ log'[Len(log')].old = base[j]
      BY <1>1, <1>2, <1>5, <2>1
    <3>2. \A m \in 1 .. Len(log') - 1 : log'[m].id # j
      BY <1>2, <1>5
    <3>3. Len(log') \in 1 .. Len(log')
      BY <1>2
    <3> QED BY <3>1, <3>2, <3>3
  <2>2. CASE j # i
    BY <1>2, <1>5, <2>2
  <2> QED BY <2>1, <2>2
<1> QED BY <1>3, <1>4, <1>5

(* Every step keeps the log the inverse of the batch's writes.             *)
LEMMA InverseStep == TypeOK /\ LogInverts /\ [Next]_vars => LogInverts'
<1> SUFFICES ASSUME TypeOK, LogInverts, [Next]_vars PROVE LogInverts'
  OBVIOUS
<1>t. row \in [Ids -> Rows]
  BY DEF TypeOK
<1>1. ASSUME NEW i \in Ids, NEW data \in Data, Create(i, data) PROVE LogInverts'
  <2>1. Undo("create", i, NoRow) \in Entry /\ Undo("create", i, NoRow).id = i
        /\ Undo("create", i, NoRow).old = NoRow
    BY EntryTyped, NoRowTyped DEF Undo
  <2>2. ~Exists(i) => row[i] = NoRow
    BY <1>t DEF Exists, Rows
  <2>3. active => NoRow = row[i] \/ i \in excused'
    BY <1>1, <2>2 DEF Create
  <2>4. Serving /\ Record(Undo("create", i, NoRow)) /\ excused \subseteq excused'
        /\ UNCHANGED <<ctl, base>> /\ \A j \in Ids : j # i => row'[j] = row[j]
    BY <1>1, <1>t DEF Create
  <2> QED BY <2>1, <2>3, <2>4, InverseKept
<1>2. ASSUME NEW i \in Ids, NEW t \in {"update", "delete"}, Serving, Record(Undo(t, i, row[i])),
             UNCHANGED <<base, excused>>, UNCHANGED ctl \/ pc' = "undo",
             \A j \in Ids : j # i => row'[j] = row[j]
      PROVE  LogInverts'
  <2>1. Undo(t, i, row[i]) \in Entry /\ Undo(t, i, row[i]).id = i /\ Undo(t, i, row[i]).old = row[i]
    BY <1>t, EntryTyped DEF Undo
  <2> QED BY <1>2, <2>1, InverseKept
<1>3. ASSUME NEW i \in Ids, NEW data \in Data, Update(i, data) PROVE LogInverts'
  BY <1>2, <1>3, <1>t DEF Update
<1>4. ASSUME NEW i \in Ids, Remove(i) PROVE LogInverts'
  BY <1>2, <1>4, <1>t DEF Remove
<1>5. ASSUME NEW i \in Ids, WriteFails(i) PROVE LogInverts'
  <2> PICK t \in {"update", "delete"} : Record(Undo(t, i, row[i]))
    BY <1>5 DEF WriteFails
  <2>1. UNCHANGED ctl \/ pc' = "undo"
    BY <1>5 DEF WriteFails, Fail
  <2>2. Serving /\ UNCHANGED <<base, excused>> /\ \A j \in Ids : j # i => row'[j] = row[j]
    BY <1>5, <1>t DEF WriteFails
  <2> QED BY <1>2, <2>1, <2>2
(* A write that is in no log is excused *)
<1>5a. ASSUME NEW i \in Ids, Serving, UNCHANGED <<tx, base>>,
              active => i \in excused' \/ row'[i] = row[i], excused \subseteq excused',
              \A j \in Ids : j # i => row'[j] = row[j]
       PROVE  LogInverts'
  BY <1>5a DEF LogInverts, Oldest, tx, Serving
<1>5b. ASSUME NEW i \in Ids, NEW data \in Data, CreateFails(i, data) PROVE LogInverts'
  <2>1. /\ active => i \in excused' \/ row'[i] = row[i]
        /\ excused \subseteq excused' /\ \A j \in Ids : j # i => row'[j] = row[j]
    BY <1>5b, <1>t DEF CreateFails
  <2> QED BY <1>5a, <1>5b, <2>1 DEF CreateFails
<1>5c. ASSUME NEW i \in Ids, RemoveUnlogged(i) PROVE LogInverts'
  <2>1. /\ active => i \in excused'
        /\ excused \subseteq excused' /\ \A j \in Ids : j # i => row'[j] = row[j]
    BY <1>5c, <1>t DEF RemoveUnlogged
  <2> QED BY <1>5a, <1>5c, <2>1 DEF RemoveUnlogged
<1>6. ASSUME Rejected \/ Throw \/ Answer PROVE LogInverts'
  <2>1. UNCHANGED <<row, tx, base, excused>> /\ pc # "undo"
    BY <1>6 DEF Rejected, Throw, Answer, Serving
  <2> QED BY <2>1 DEF LogInverts, Oldest, tx
<1>7. ASSUME Begin PROVE LogInverts'
  BY <1>7 DEF Begin, LogInverts
<1>8. ASSUME Commit \/ RollbackEnds \/ Restart PROVE LogInverts'
  BY <1>8 DEF Commit, RollbackEnds, Restart, LogInverts
<1>9. ASSUME UndoEntry \/ UndoMisses \/ UndoFails \/ UndoDangling PROVE LogInverts'
  <2>1. pc' = "undo"
    BY <1>9 DEF UndoEntry, UndoMisses, UndoFails, UndoDangling
  <2> QED BY <2>1 DEF LogInverts
<1>10. ASSUME NEW i \in Ids, ForeignWrite(i) PROVE LogInverts'
  <2>1. UNCHANGED <<tx, ctl, base>> /\ excused' = excused \cup {i}
        /\ \A j \in Ids : j # i => row'[j] = row[j]
    BY <1>10, <1>t DEF ForeignWrite
  <2> QED BY <2>1 DEF LogInverts, Oldest, tx, ctl
<1>11. CASE UNCHANGED vars
  BY <1>11 DEF vars, LogInverts, Oldest, tx, ctl
<1> QED BY <1>1, <1>3, <1>4, <1>5, <1>5b, <1>5c, <1>6, <1>7, <1>8, <1>9, <1>10, <1>11 DEF Next

(* Whatever a batch does, its undo log leads back to where it began, for   *)
(* every record but those other daemons wrote, a create overwrote, or a    *)
(* failing Redis let change without an undo (a remove after a failed       *)
(* snapshot, a create answered as failed).                                 *)
THEOREM LogIsInverse == Spec => []LogInverts
<1>1. Init => LogInverts
  BY DEF Init, LogInverts
<1> QED BY <1>1, Typing, InverseStep, PTL DEF Spec
=============================================================================
