--------------------------- MODULE RequestProofs ----------------------------
(***************************************************************************)
(* What requests may rely on: isolation, durability and lock-out of the    *)
(* batches on the shared SQLite connection, for any number of threads,     *)
(* rows and writes; safe requests to the daemon, for any number of         *)
(* requests, tenants, users, databases and clients; records that are kept  *)
(* by every adapter, for any number of calls and records; blobs that are   *)
(* kept by every backend, for any number of requests, keys and pages; and  *)
(* in-memory entities that agree, for any number of names and components.  *)
(***************************************************************************)
EXTENDS SqliteBatches, DaemonRequests, AdapterStore, BlobStores, EntityStore, FiniteSetTheorems,
        TLAPS

(***************************************************************************)
(* SqliteBatches                                                           *)
(***************************************************************************)
USE BatchAssumption

Writes == Ids \X (1 .. MaxVersion)

(* A statement takes the next version number.                              *)
LEMMA ExecuteTyped ==
    ASSUME TypeOK, NEW i \in Ids, Execute(i)
    PROVE  /\ version' \in 1 .. MaxVersion /\ version' = version + 1
           /\ row' \in [Ids -> 0 .. MaxVersion] /\ durable' \in [Ids -> 0 .. MaxVersion]
           /\ <<i, version'>> \in Writes
           /\ UNCHANGED <<open, flag>>
           /\ ~open => durable' = row'
           /\ open => durable' = durable
           /\ row'[i] = version' /\ \A j \in Ids : j # i => row'[j] = row[j]
BY DEF Execute, TypeOK, Writes

(* Every step keeps the types.                                             *)
LEMMA TypeStep == TypeOK /\ [Next]_vars => TypeOK'
<1> SUFFICES ASSUME TypeOK, [Next]_vars PROVE TypeOK'
  OBVIOUS
<1> USE DEF TypeOK, db, tx, history
<1>1. ASSUME NEW p \in Procs, NEW i \in Ids, PlainWrite(p, i) PROVE TypeOK'
  <2>1. Execute(i) /\ UNCHANGED <<pc, wrote, lost, undone, cause>>
    BY <1>1 DEF PlainWrite
  <2>2. acked' \subseteq Writes /\ guests' \subseteq Writes
    BY <1>1, <2>1, ExecuteTyped DEF PlainWrite, Writes
  <2>3. open' \in BOOLEAN /\ flag' \in BOOLEAN
    BY <2>1, ExecuteTyped
  <2>4. version' \in 0 .. MaxVersion /\ (~open' => row' = durable')
    BY <2>1, ExecuteTyped
  <2>5. row' \in [Ids -> 0 .. MaxVersion] /\ durable' \in [Ids -> 0 .. MaxVersion]
    BY <2>1, ExecuteTyped
  <2> QED BY <2>1, <2>2, <2>3, <2>4, <2>5 DEF Writes
<1>2. ASSUME NEW p \in Procs, NEW i \in Ids, BatchOp(p, i) PROVE TypeOK'
  <2>1. Execute(i) /\ UNCHANGED <<pc, history>>
    BY <1>2 DEF BatchOp
  <2>2. wrote' \in [Procs -> SUBSET Writes]
    BY <1>2, <2>1, ExecuteTyped DEF BatchOp, Writes
  <2>3. open' \in BOOLEAN /\ flag' \in BOOLEAN
    BY <2>1, ExecuteTyped
  <2>4. version' \in 0 .. MaxVersion /\ (~open' => row' = durable')
    BY <2>1, ExecuteTyped
  <2>5. row' \in [Ids -> 0 .. MaxVersion] /\ durable' \in [Ids -> 0 .. MaxVersion]
    BY <2>1, ExecuteTyped
  <2> QED BY <2>1, <2>2, <2>3, <2>4, <2>5 DEF Writes
<1>3. ASSUME NEW p \in Procs,
             BeginRefused(p) \/ BeginChecked(p) \/ BeginFails(p) \/ BatchEnd(p)
             \/ NoTransaction(p) \/ Checked(p) \/ BatchOpFails(p) \/ BatchThrows(p) \/ CommitExecFails(p)
      PROVE  TypeOK'
  <2>1. UNCHANGED <<db, tx, acked, guests, lost>>
    BY <1>3 DEF BeginRefused, BeginChecked, BeginFails, BatchEnd, NoTransaction, Checked,
       BatchOpFails, BatchThrows, CommitExecFails, vars
  <2>2. pc' \in [Procs -> Steps] /\ wrote' \in [Procs -> SUBSET Writes]
    BY <1>3 DEF BeginRefused, BeginChecked, BeginFails, BatchEnd, NoTransaction, Checked,
       BatchOpFails, BatchThrows, CommitExecFails, vars, Goto, Return, Steps, Owning, Writes
  <2>3. undone' \subseteq Writes /\ cause' \subseteq Causes
    BY <1>3 DEF BeginRefused, BeginChecked, BeginFails, BatchEnd, NoTransaction, Checked,
       BatchOpFails, BatchThrows, CommitExecFails, vars, Writes, Causes
  <2> QED BY <2>1, <2>2, <2>3 DEF Writes
<1>4. ASSUME NEW p \in Procs, BeginExec(p) \/ BeginDone(p) PROVE TypeOK'
  <2>1. open' \in BOOLEAN /\ flag' \in BOOLEAN
    BY <1>4 DEF BeginExec, BeginDone
  <2>2. pc' \in [Procs -> Steps] /\ UNCHANGED <<db, wrote, history>> /\ (~open' => ~open)
    BY <1>4 DEF BeginExec, BeginDone, Goto, Steps, Owning
  <2> QED BY <2>1, <2>2
<1>5. ASSUME NEW p \in Procs, CommitExec(p) \/ RollbackExec(p) PROVE TypeOK'
  <2>1. open' \in BOOLEAN /\ flag' \in BOOLEAN
    BY <1>5 DEF CommitExec, RollbackExec
  <2>2. pc' \in [Procs -> Steps] /\ UNCHANGED <<version, wrote, acked, undone, cause>>
    BY <1>5 DEF CommitExec, RollbackExec, Goto, Steps, Owning
  <2>3. row' = durable' /\ row' \in [Ids -> 0 .. MaxVersion]
        /\ guests' \subseteq Writes /\ lost' \subseteq Writes
    BY <1>5 DEF CommitExec, RollbackExec, Writes
  <2> QED BY <2>1, <2>2, <2>3 DEF Writes
<1>6. ASSUME NEW p \in Procs, FlagOff(p) PROVE TypeOK'
  <2>1. open' \in BOOLEAN /\ flag' \in BOOLEAN
    BY <1>6 DEF FlagOff
  <2>2. acked' \subseteq Writes /\ cause' \subseteq Causes
    BY <1>6 DEF FlagOff, Writes, Causes
  <2>3. pc' \in [Procs -> Steps] /\ wrote' \in [Procs -> SUBSET Writes]
        /\ UNCHANGED <<db, open, guests, lost, undone>>
    BY <1>6 DEF FlagOff, Return, Steps, Writes
  <2> QED BY <2>1, <2>2, <2>3 DEF Writes
<1>7. CASE Crash
  <2>1. open' \in BOOLEAN /\ flag' \in BOOLEAN
    BY <1>7 DEF Crash
  <2> QED BY <1>7, <2>1 DEF Crash, Steps, Writes
<1>8. CASE UNCHANGED vars
  BY <1>8 DEF vars
<1> QED BY <1>1, <1>2, <1>3, <1>4, <1>5, <1>6, <1>7, <1>8 DEF Next

(* Tables, requests and histories keep their types, and outside of a       *)
(* transaction everything written is durable.                              *)
THEOREM Typing == Spec => []TypeOK
<1>1. Init => TypeOK
  <2>1. Init => open \in BOOLEAN /\ flag \in BOOLEAN
    BY DEF Init
  <2> QED BY <2>1 DEF Init, TypeOK, Steps
<1> QED BY <1>1, TypeStep, PTL DEF Spec
-----------------------------------------------------------------------------
(* Who moves, and whether it owns the transaction afterwards.              *)
LEMMA OwnershipStep == TypeOK /\ OneBatchAtATime /\ [Next]_vars => OneBatchAtATime'
<1> SUFFICES ASSUME TypeOK, OneBatchAtATime, [Next]_vars PROVE OneBatchAtATime'
  OBVIOUS
<1> USE DEF OneBatchAtATime, Owners, tx
<1>1. ASSUME Owners' \subseteq Owners, open' = open PROVE OneBatchAtATime'
  BY <1>1
<1>2. ASSUME NEW p \in Procs, NEW i \in Ids, PlainWrite(p, i) \/ BatchOp(p, i) PROVE OneBatchAtATime'
  BY <1>1, <1>2 DEF PlainWrite, BatchOp, Execute
<1>3. ASSUME NEW p \in Procs,
             BeginRefused(p) \/ BeginChecked(p) \/ BeginFails(p) \/ BatchEnd(p)
             \/ NoTransaction(p) \/ Checked(p) \/ BatchOpFails(p) \/ BatchThrows(p) \/ CommitExecFails(p) \/ FlagOff(p)
             \/ BeginDone(p)
      PROVE  OneBatchAtATime'
  <2>1. open' = open
    BY <1>3 DEF BeginRefused, BeginChecked, BeginFails, BatchEnd, NoTransaction, Checked,
       BatchOpFails, BatchThrows, CommitExecFails, FlagOff, BeginDone, vars
  <2>2. Owners' \subseteq Owners
    BY <1>3 DEF BeginRefused, BeginChecked, BeginFails, BatchEnd, NoTransaction, Checked,
       BatchOpFails, BatchThrows, CommitExecFails, FlagOff, BeginDone, vars, Goto, Return, Owning, TypeOK
  <2> QED BY <1>1, <2>1, <2>2
<1>4. ASSUME NEW p \in Procs, BeginExec(p) PROVE OneBatchAtATime'
  <2>1. Owners = {} /\ open'
    BY <1>4 DEF BeginExec
  <2>2. Owners' \subseteq {p}
    BY <1>4, <2>1 DEF BeginExec, Goto, TypeOK
  <2> QED BY <2>1, <2>2
<1>5. ASSUME NEW p \in Procs, CommitExec(p) \/ RollbackExec(p) PROVE OneBatchAtATime'
  <2>1. \A q \in Owners : q = p
    BY <1>5 DEF CommitExec, RollbackExec, Owning
  <2>2. Owners' = {}
    BY <1>5, <2>1 DEF CommitExec, RollbackExec, Goto, Owning, TypeOK
  <2> QED BY <2>2
<1>6. CASE Crash
  BY <1>6 DEF Crash, Owning
<1>7. CASE UNCHANGED vars
  BY <1>1, <1>7 DEF vars
<1> QED BY <1>2, <1>3, <1>4, <1>5, <1>6, <1>7 DEF Next

(* in_transaction_ is not what keeps batches apart, but they are: SQLite   *)
(* refuses a nested BEGIN.                                                 *)
THEOREM BatchesAreIsolated == Spec => []OneBatchAtATime
<1>1. Init => OneBatchAtATime
  BY DEF Init, OneBatchAtATime, Owners, Owning
<1> QED BY <1>1, Typing, OwnershipStep, PTL DEF Spec
-----------------------------------------------------------------------------
(***************************************************************************)
(* AcknowledgedIsDurable: version numbers only grow, the table is never    *)
(* behind what is durable, and what a batch or a guest has written is      *)
(* still there until the transaction ends.                                 *)
(***************************************************************************)
Kept(w, table) == w[2] <= table[w[1]]

Durability ==
    /\ \A i \in Ids : durable[i] <= row[i] /\ row[i] <= version
    /\ \A w \in guests : Kept(w, row)
    /\ \A p \in Owners : \A w \in wrote[p] : Kept(w, row)
    /\ \A p \in Procs : pc[p] = "committed" => \A w \in wrote[p] : Kept(w, durable)
    /\ \A p \in Procs : pc[p] \in {"idle", "begin"} => wrote[p] = {}
    /\ AcknowledgedIsDurable

(* Every step keeps acknowledged writes durable.                           *)
LEMMA DurabilityStep ==
    TypeOK /\ OneBatchAtATime /\ Durability /\ [Next]_vars => Durability'
<1> SUFFICES ASSUME TypeOK, OneBatchAtATime, Durability, [Next]_vars PROVE Durability'
  OBVIOUS
<1>0. /\ acked \subseteq Writes /\ guests \subseteq Writes
      /\ \A p \in Procs : wrote[p] \subseteq Writes
      /\ row \in [Ids -> 0 .. MaxVersion] /\ durable \in [Ids -> 0 .. MaxVersion]
  BY DEF TypeOK, Writes
<1>1. ASSUME NEW i \in Ids, Execute(i)
      PROVE  /\ \A j \in Ids : durable'[j] <= row'[j] /\ row'[j] <= version'
             /\ \A w \in Writes : Kept(w, row) => Kept(w, row')
             /\ \A w \in Writes : Kept(w, durable) => Kept(w, durable')
             /\ Kept(<<i, version'>>, row')
             /\ ~open => Kept(<<i, version'>>, durable')
  <2>1. /\ row' \in [Ids -> 0 .. MaxVersion] /\ durable' \in [Ids -> 0 .. MaxVersion]
        /\ row'[i] = version' /\ version' \in 1 .. MaxVersion /\ version' = version + 1
        /\ \A j \in Ids : j # i => row'[j] = row[j]
        /\ ~open => durable' = row'
        /\ open => durable' = durable
    BY <1>1, ExecuteTyped
  <2>2. version \in 0 .. MaxVersion /\ \A j \in Ids : durable[j] <= row[j] /\ row[j] <= version
    BY DEF TypeOK, Durability
  <2>3. ASSUME NEW j \in Ids
        PROVE  row[j] <= row'[j] /\ row'[j] <= version' /\ durable[j] <= durable'[j] /\ durable'[j] <= row'[j]
    <3>1. /\ row[j] \in 0 .. MaxVersion /\ row'[j] \in 0 .. MaxVersion
          /\ durable[j] \in 0 .. MaxVersion /\ durable'[j] \in 0 .. MaxVersion
      BY <1>0, <2>1
    <3>2. row[j] <= row'[j] /\ row'[j] <= version'
      BY <2>1, <2>2, <3>1
    <3> QED BY <2>1, <2>2, <3>1, <3>2
  <2>4. \A j \in Ids : row[j] <= row'[j] /\ durable[j] <= durable'[j]
                       /\ durable'[j] <= row'[j] /\ row'[j] <= version'
    BY <2>3
  <2>5. ASSUME NEW w \in Writes
        PROVE  (Kept(w, row) => Kept(w, row')) /\ (Kept(w, durable) => Kept(w, durable'))
    <3>1. w[1] \in Ids /\ w[2] \in 1 .. MaxVersion
      BY DEF Writes
    <3>2. row[w[1]] <= row'[w[1]] /\ durable[w[1]] <= durable'[w[1]]
      BY <2>4, <3>1
    <3>3. /\ row[w[1]] \in 0 .. MaxVersion /\ row'[w[1]] \in 0 .. MaxVersion
          /\ durable[w[1]] \in 0 .. MaxVersion /\ durable'[w[1]] \in 0 .. MaxVersion
      BY <1>0, <2>1, <3>1
    <3> QED BY <3>1, <3>2, <3>3 DEF Kept
  <2>6. Kept(<<i, version'>>, row') /\ (~open => Kept(<<i, version'>>, durable'))
    BY <2>1 DEF Kept
  <2> QED BY <2>4, <2>5, <2>6
<1>2. ASSUME NEW p \in Procs, NEW i \in Ids, PlainWrite(p, i) PROVE Durability'
  <2>1. /\ Execute(i) /\ UNCHANGED <<pc, wrote, lost, open>>
        /\ acked' = acked \cup {<<i, version'>>}
        /\ guests' = IF open THEN guests \cup {<<i, version'>>} ELSE guests
    BY <1>2 DEF PlainWrite, Execute
  <2>2. AcknowledgedIsDurable'
    BY <1>0, <1>1, <2>1, ExecuteTyped DEF Durability, AcknowledgedIsDurable, Kept, Writes
  <2>3. \A w \in guests' : Kept(w, row')
    BY <1>0, <1>1, <2>1 DEF Durability
  <2>4. \A q \in Owners' : \A w \in wrote'[q] : Kept(w, row')
    BY <1>0, <1>1, <2>1 DEF Durability, Owners
  <2>5. \A q \in Procs : pc'[q] = "committed" => \A w \in wrote'[q] : Kept(w, durable')
    BY <1>0, <1>1, <2>1 DEF Durability
  <2> QED BY <1>1, <2>1, <2>2, <2>3, <2>4, <2>5 DEF Durability
<1>3. ASSUME NEW p \in Procs, NEW i \in Ids, BatchOp(p, i) PROVE Durability'
  <2>1. /\ Execute(i) /\ UNCHANGED <<pc, acked, guests, lost, open>> /\ pc[p] = "ops"
        /\ \A q \in Procs : wrote'[q] = IF q = p THEN wrote[q] \cup {<<i, version'>>} ELSE wrote[q]
    BY <1>3 DEF BatchOp, Execute, history, TypeOK
  <2>2. AcknowledgedIsDurable'
    BY <1>0, <1>1, <2>1, ExecuteTyped DEF Durability, AcknowledgedIsDurable, Kept, Writes
  <2>3. \A w \in guests' : Kept(w, row')
    BY <1>0, <1>1, <2>1 DEF Durability
  <2>4. \A q \in Owners' : \A w \in wrote'[q] : Kept(w, row')
    BY <1>0, <1>1, <2>1 DEF Durability, Owners
  <2>5. \A q \in Procs : pc'[q] = "committed" => \A w \in wrote'[q] : Kept(w, durable')
    BY <1>0, <1>1, <2>1 DEF Durability
  <2> QED BY <1>1, <2>1, <2>2, <2>3, <2>4, <2>5 DEF Durability
(* Steps that neither write nor end a transaction *)
<1>4. ASSUME UNCHANGED <<row, durable, version, guests, lost, acked>>,
             \A q \in Procs : /\ pc'[q] = "committed" => pc[q] = "committed" /\ wrote'[q] = wrote[q]
                              /\ pc'[q] \in Owning => wrote'[q] = {} \/ (pc[q] \in Owning /\ wrote'[q] = wrote[q])
                              /\ pc'[q] \in {"idle", "begin"} => wrote'[q] = {}
      PROVE  Durability'
  BY <1>4 DEF Durability, AcknowledgedIsDurable, Owners, Kept
<1>5. ASSUME NEW p \in Procs,
             BeginRefused(p) \/ BeginChecked(p) \/ BeginFails(p) \/ BatchEnd(p)
             \/ NoTransaction(p) \/ Checked(p) \/ BatchOpFails(p) \/ BatchThrows(p) \/ CommitExecFails(p)
             \/ BeginExec(p) \/ BeginDone(p)
      PROVE  Durability'
  <2>1. UNCHANGED <<row, durable, version, guests, lost, acked>>
    BY <1>5 DEF BeginRefused, BeginChecked, BeginFails, BatchEnd, NoTransaction, Checked,
       BatchOpFails, BatchThrows, CommitExecFails, BeginExec, BeginDone, vars, db, history
  <2>2. CASE \E s \in Owning, t \in Owning : pc[p] = s /\ Goto(p, t)
    BY <1>4, <2>1, <2>2 DEF Goto, Owning, TypeOK, Durability
  <2>3. CASE pc[p] \in {"idle", "begin"} /\ \E t \in {"begin", "begun"} : Goto(p, t)
    BY <1>4, <2>1, <2>3 DEF Goto, Owning, TypeOK, Durability
  <2>4. CASE Return(p)
    BY <1>4, <2>1, <2>4 DEF Return, Owning, TypeOK, Durability
  <2>5. CASE BeginRefused(p)
    BY <1>4, <2>1, <2>5 DEF BeginRefused, vars, Owning, TypeOK, Durability
  <2> QED BY <1>5, <2>2, <2>3, <2>4, <2>5 DEF BeginChecked, BeginFails, BatchEnd, NoTransaction,
             Checked, BatchOpFails, BatchThrows, CommitExecFails, BeginExec, BeginDone, Owning
<1>6. ASSUME NEW p \in Procs, CommitExec(p) PROVE Durability'
  <2>1. /\ pc[p] = "commitExec" /\ durable' = row /\ guests' = {}
        /\ UNCHANGED <<row, version, wrote, acked, lost>>
        /\ \A q \in Procs : pc'[q] = IF q = p THEN "committed" ELSE pc[q]
    BY <1>6 DEF CommitExec, Goto, TypeOK
  <2>2. p \in Owners /\ \A q \in Owners : q = p
    BY <2>1 DEF OneBatchAtATime, Owners, Owning
  <2>3. \A j \in Ids : durable[j] <= row[j] /\ row[j] <= version
    BY DEF Durability
  <2>4. \A w \in Writes : Kept(w, durable) => Kept(w, durable')
    BY <1>0, <2>1, <2>3 DEF Kept, Writes
  <2>5. AcknowledgedIsDurable'
    <3> SUFFICES ASSUME NEW w \in acked' PROVE durable'[w[1]] >= w[2] \/ w \in lost'
      BY <2>1 DEF AcknowledgedIsDurable
    <3>1. w \in Writes /\ (durable[w[1]] >= w[2] \/ w \in guests \cup lost)
      BY <1>0, <2>1 DEF Durability, AcknowledgedIsDurable
    <3>2. w \in guests => row[w[1]] >= w[2]
      BY <1>0, <3>1 DEF Durability, Kept, Writes
    <3> QED BY <1>0, <2>1, <2>3, <3>1, <3>2 DEF Writes
  <2>6. \A q \in Procs : pc'[q] = "committed" => \A w \in wrote'[q] : Kept(w, durable')
    BY <1>0, <2>1, <2>2, <2>4 DEF Durability
  <2>7. Owners' = {}
    BY <2>1, <2>2 DEF Owners, Owning
  <2>8. \A j \in Ids : durable'[j] <= row'[j] /\ row'[j] <= version'
    BY <1>0, <2>1, <2>3
  <2> QED BY <2>1, <2>5, <2>6, <2>7, <2>8 DEF Durability
<1>7. ASSUME NEW p \in Procs, RollbackExec(p) PROVE Durability'
  <2>1. /\ pc[p] = "rollbackExec" /\ row' = durable /\ guests' = {} /\ lost' = lost \cup guests
        /\ UNCHANGED <<durable, version, wrote, acked>>
        /\ \A q \in Procs : pc'[q] = IF q = p THEN "rolledBack" ELSE pc[q]
    BY <1>7 DEF RollbackExec, Goto, TypeOK
  <2>2. \A q \in Owners : q = p
    BY <2>1 DEF OneBatchAtATime, Owners, Owning
  <2>3. Owners' = {}
    BY <2>1, <2>2 DEF Owners, Owning
  <2>4. \A j \in Ids : durable'[j] <= row'[j] /\ row'[j] <= version'
    BY <1>0, <2>1 DEF Durability, TypeOK
  <2>5. AcknowledgedIsDurable'
    BY <2>1 DEF Durability, AcknowledgedIsDurable
  <2> QED BY <2>1, <2>3, <2>4, <2>5 DEF Durability
<1>8. ASSUME NEW p \in Procs, FlagOff(p) PROVE Durability'
  <2>1. /\ UNCHANGED <<row, durable, version, guests, lost>>
        /\ \A q \in Procs : /\ pc'[q] = IF q = p THEN "idle" ELSE pc[q]
                            /\ wrote'[q] = IF q = p THEN {} ELSE wrote[q]
    BY <1>8 DEF FlagOff, Return, db, TypeOK
  <2>2. \A w \in acked' : w \in acked \/ (w \in wrote[p] /\ pc[p] = "committed")
    BY <1>8 DEF FlagOff
  <2>3. AcknowledgedIsDurable'
    <3> SUFFICES ASSUME NEW w \in acked' PROVE durable[w[1]] >= w[2] \/ w \in guests \cup lost
      BY <2>1 DEF AcknowledgedIsDurable
    <3>1. CASE w \in acked
      BY <3>1 DEF Durability, AcknowledgedIsDurable
    <3>2. CASE w \in wrote[p] /\ pc[p] = "committed"
      BY <1>0, <3>2 DEF Durability, Kept, Writes
    <3> QED BY <2>2, <3>1, <3>2
  <2>4. \A q \in Owners' : \A w \in wrote'[q] : Kept(w, row')
    BY <2>1 DEF Durability, Owners, Owning, Kept
  <2>5. \A q \in Procs : pc'[q] = "committed" => \A w \in wrote'[q] : Kept(w, durable')
    BY <2>1 DEF Durability, Kept
  <2> QED BY <2>1, <2>3, <2>4, <2>5 DEF Durability, Kept
<1>9. CASE Crash
  <2>1. \A j \in Ids : durable'[j] <= row'[j] /\ row'[j] <= version'
    BY <1>0, <1>9 DEF Crash, Durability, TypeOK
  <2>2. AcknowledgedIsDurable'
    BY <1>9 DEF Crash, Durability, AcknowledgedIsDurable
  <2> QED BY <1>9, <2>1, <2>2 DEF Crash, Durability, Owners, Owning
<1>10. CASE UNCHANGED vars
  BY <1>4, <1>10 DEF vars, db, history, Durability, TypeOK
<1> QED BY <1>2, <1>3, <1>5, <1>6, <1>7, <1>8, <1>9, <1>10 DEF Next

(* What the daemon has acknowledged survives every crash and rollback,     *)
(* unless it was a plain write inside another request's transaction.       *)
THEOREM AcknowledgedWritesSurvive == Spec => []AcknowledgedIsDurable
<1>1. Init => OneBatchAtATime /\ Durability
  BY DEF Init, OneBatchAtATime, Owners, Owning, Durability, AcknowledgedIsDurable
<1>2. Durability => AcknowledgedIsDurable
  BY DEF Durability
<1> QED BY <1>1, <1>2, Typing, OwnershipStep, DurabilityStep, PTL DEF Spec
-----------------------------------------------------------------------------
(***************************************************************************)
(* WedgeExplained: without one of the causes, an open transaction has an   *)
(* owner, an owner past BEGIN has the flag, and the flag has somebody who  *)
(* will clear it.                                                          *)
(***************************************************************************)
Flagged  == Owning \ {"begun"}
Clearing == Flagged \cup {"committed", "rolledBack"}

Wedge ==
    cause = {} =>
      /\ open => \E p \in Procs : pc[p] \in Owning
      /\ \A p \in Procs : pc[p] \in Flagged => flag
      /\ flag => \E p \in Procs : pc[p] \in Clearing

(* Every step keeps an open transaction accounted for.                     *)
LEMMA WedgeStep == TypeOK /\ OneBatchAtATime /\ Wedge /\ [Next]_vars => Wedge'
<1> SUFFICES ASSUME TypeOK, OneBatchAtATime, Wedge, [Next]_vars, cause' = {}
             PROVE  /\ open' => \E p \in Procs : pc'[p] \in Owning
                    /\ \A p \in Procs : pc'[p] \in Flagged => flag'
                    /\ flag' => \E p \in Procs : pc'[p] \in Clearing
  BY DEF Wedge
<1> USE DEF Owning, Flagged, Clearing, db, tx, history
<1>1. ASSUME NEW p \in Procs, NEW i \in Ids, PlainWrite(p, i) \/ BatchOp(p, i)
      PROVE  UNCHANGED <<pc, open, flag, cause>>
  BY <1>1 DEF PlainWrite, BatchOp, Execute
<1>2. ASSUME NEW p \in Procs,
             BeginRefused(p) \/ BeginChecked(p) \/ BeginFails(p) \/ BatchEnd(p) \/ BatchOpFails(p)
             \/ NoTransaction(p) \/ Checked(p)
      PROVE  /\ UNCHANGED <<open, flag, cause>>
             /\ \A q \in Procs : /\ pc'[q] \in Owning <=> pc[q] \in Owning
                                 /\ pc'[q] \in Flagged <=> pc[q] \in Flagged
                                 /\ pc'[q] \in Clearing <=> pc[q] \in Clearing
  <2>1. UNCHANGED <<open, flag, cause>>
    BY <1>2 DEF BeginRefused, BeginChecked, BeginFails, BatchEnd, BatchOpFails, NoTransaction,
       Checked, vars
  <2>2. CASE NoTransaction(p)
    BY <2>1, <2>2 DEF NoTransaction, Wedge
  <2>3. CASE BeginRefused(p)
    BY <2>1, <2>3 DEF BeginRefused, vars
  <2>4. CASE BeginChecked(p) \/ BeginFails(p) \/ BatchEnd(p) \/ BatchOpFails(p) \/ Checked(p)
    BY <2>1, <2>4 DEF BeginChecked, BeginFails, BatchEnd, BatchOpFails, Checked, Goto, Return, TypeOK
  <2> QED BY <1>2, <2>2, <2>3, <2>4
<1>3. ASSUME NEW p \in Procs PROVE ~BatchThrows(p) /\ ~CommitExecFails(p)
  BY DEF BatchThrows, CommitExecFails
<1>4. ASSUME NEW p \in Procs, BeginExec(p)
      PROVE  /\ cause = {} /\ flag' = flag
             /\ \A q \in Procs : q # p => pc'[q] = pc[q]
             /\ pc[p] = "begin" /\ pc'[p] = "begun"
  BY <1>4 DEF BeginExec, Goto, TypeOK
<1>5. ASSUME NEW p \in Procs, BeginDone(p)
      PROVE  flag' /\ pc'[p] = "ops"
  BY <1>5 DEF BeginDone, Goto, TypeOK
<1>6. ASSUME NEW p \in Procs, CommitExec(p) \/ RollbackExec(p)
      PROVE  /\ ~open'
             /\ \A q \in Procs : pc'[q] \notin Flagged
             /\ pc'[p] \in Clearing
  <2>1. \A q \in Procs : pc[q] \in Owning => q = p
    BY <1>6 DEF CommitExec, RollbackExec, OneBatchAtATime, Owners
  <2> QED BY <1>6, <2>1 DEF CommitExec, RollbackExec, Goto, TypeOK
<1>7. ASSUME NEW p \in Procs, FlagOff(p)
      PROVE  ~open' /\ ~flag' /\ \A q \in Procs : pc'[q] \notin Flagged
  <2>1. ~open
    BY <1>7 DEF FlagOff
  <2>2. \A q \in Procs : pc[q] \notin Owning
    BY <2>1 DEF OneBatchAtATime, Owners
  <2> QED BY <1>7, <2>1, <2>2 DEF FlagOff, Return, TypeOK
<1>8. CASE \E p \in Procs, i \in Ids : PlainWrite(p, i) \/ BatchOp(p, i)
  BY <1>1, <1>8 DEF Wedge
<1>9. CASE \E p \in Procs :
             BeginRefused(p) \/ BeginChecked(p) \/ BeginFails(p) \/ BatchEnd(p) \/ BatchOpFails(p)
             \/ NoTransaction(p) \/ Checked(p)
  BY <1>2, <1>9 DEF Wedge
<1>10. CASE \E p \in Procs : BeginExec(p)
  <2> PICK p \in Procs : BeginExec(p)
    BY <1>10
  <2>1. pc'[p] \in Owning /\ \A q \in Procs : pc'[q] \in Flagged => pc[q] \in Flagged
    BY <1>4
  <2>2. \A q \in Procs : pc[q] \in Clearing => pc'[q] \in Clearing
    BY <1>4
  <2> QED BY <1>4, <2>1, <2>2 DEF Wedge
<1>11. CASE \E p \in Procs : BeginDone(p)
  <2> PICK p \in Procs : BeginDone(p)
    BY <1>11
  <2> QED BY <1>5
<1>12. CASE \E p \in Procs : CommitExec(p) \/ RollbackExec(p)
  BY <1>6, <1>12
<1>13. CASE \E p \in Procs : FlagOff(p)
  BY <1>7, <1>13
<1>14. CASE Crash
  BY <1>14 DEF Crash
<1>15. CASE UNCHANGED vars
  BY <1>15 DEF vars, Wedge
<1> QED BY <1>3, <1>8, <1>9, <1>10, <1>11, <1>12, <1>13, <1>14, <1>15 DEF Next

(* At rest, a transaction that is open or thought to be open has one of    *)
(* the three causes: no other interleaving locks batches out.              *)
THEOREM WedgesAreExplained == Spec => []WedgeExplained
<1>1. Init => OneBatchAtATime /\ Wedge
  BY DEF Init, OneBatchAtATime, Owners, Owning, Wedge, Flagged
<1>2. Wedge => WedgeExplained
  BY DEF Wedge, WedgeExplained, Owning, Clearing, Flagged
<1> QED BY <1>1, <1>2, Typing, OwnershipStep, WedgeStep, PTL DEF Spec

-----------------------------------------------------------------------------
(***************************************************************************)
(* FailedBatchIsNeverCommitted: what a failed batch wrote can be read only *)
(* in a transaction that nobody will commit, because the batch is on its   *)
(* way to roll it back, or nobody owns it any more and SQLite lets nobody  *)
(* in.                                                                     *)
(***************************************************************************)
Undoing ==
    /\ \A w \in undone : w[2] <= version
    /\ \A p \in Procs : \A w \in wrote[p] : w[2] <= version
    /\ \A p \in Procs : pc[p] \in {"idle", "begin", "begun"} => wrote[p] = {}
    /\ \A p \in Procs : pc[p] = "ops" => \A w \in wrote[p] : durable[w[1]] # w[2]
    /\ \A w \in undone : row[w[1]] = w[2] =>
          open /\ \A p \in Owners : pc[p] \in {"rollback", "rollbackExec"}
    /\ FailedBatchIsNeverCommitted

(* A statement makes a version that no earlier write has.                  *)
LEMMA ExecuteUndoing ==
    ASSUME TypeOK, Undoing, NEW i \in Ids, Execute(i)
    PROVE  /\ \A w \in Writes : w[2] <= version /\ durable[w[1]] # w[2] /\ row[w[1]] # w[2]
                => durable'[w[1]] # w[2] /\ row'[w[1]] # w[2]
           /\ \A w \in Writes : w[2] <= version /\ open /\ durable[w[1]] # w[2] => durable'[w[1]] # w[2]
           /\ \A w \in Writes : w[2] <= version /\ row'[w[1]] = w[2] => row[w[1]] = w[2]
           /\ \A w \in undone : durable'[w[1]] # w[2]
           /\ version' = version + 1 /\ version \in Nat
<1>0. /\ version' \in 1 .. MaxVersion /\ version' = version + 1 /\ version \in Nat
      /\ ~open => durable' = row'
      /\ open => durable' = durable
      /\ row'[i] = version' /\ \A j \in Ids : j # i => row'[j] = row[j]
      /\ undone \subseteq Writes /\ (~open => row = durable)
  <2>1. version \in Nat /\ undone \subseteq Writes /\ (~open => row = durable)
    BY DEF TypeOK, Writes
  <2> QED BY <2>1, ExecuteTyped
<1>1. ASSUME NEW w \in Writes, w[2] <= version, row'[w[1]] = w[2] PROVE row[w[1]] = w[2]
  <2>1. w[1] \in Ids /\ w[2] \in 1 .. MaxVersion
    BY DEF Writes
  <2>2. w[1] # i
    BY <1>0, <1>1, <2>1
  <2> QED BY <1>0, <1>1, <2>1, <2>2
<1>2. ASSUME NEW w \in Writes, w[2] <= version, durable[w[1]] # w[2], open \/ row[w[1]] # w[2]
      PROVE  durable'[w[1]] # w[2]
  BY <1>0, <1>1, <1>2
<1>3. ASSUME NEW w \in undone PROVE durable'[w[1]] # w[2]
  <2>1. w \in Writes /\ w[2] <= version /\ durable[w[1]] # w[2] /\ (row[w[1]] = w[2] => open)
    BY <1>0 DEF Undoing, FailedBatchIsNeverCommitted
  <2> QED BY <1>2, <2>1
<1> QED BY <1>0, <1>1, <1>2, <1>3

(* Every step keeps the writes of failed batches out of what is durable.   *)
LEMMA UndoingStep ==
    TypeOK /\ OneBatchAtATime /\ Durability /\ Undoing /\ [Next]_vars => Undoing'
<1> SUFFICES ASSUME TypeOK, OneBatchAtATime, Durability, Undoing, [Next]_vars PROVE Undoing'
  OBVIOUS
<1>0. /\ undone \subseteq Writes /\ \A p \in Procs : wrote[p] \subseteq Writes
      /\ \A w \in Writes : w[1] \in Ids /\ w[2] \in 1 .. MaxVersion
      /\ row \in [Ids -> 0 .. MaxVersion] /\ durable \in [Ids -> 0 .. MaxVersion] /\ version \in Nat
  BY DEF TypeOK, Writes
<1>1. ASSUME NEW p \in Procs, NEW i \in Ids, PlainWrite(p, i) PROVE Undoing'
  <2>1. Execute(i) /\ UNCHANGED <<pc, wrote, undone, open>>
    BY <1>1, ExecuteTyped DEF PlainWrite
  <2>2. ASSUME NEW q \in Procs, pc[q] = "ops", NEW w \in wrote[q] PROVE durable'[w[1]] # w[2]
    <3>1. open
      BY <2>2 DEF OneBatchAtATime, Owners, Owning
    <3> QED BY <1>0, <2>1, <2>2, <3>1, ExecuteUndoing DEF Undoing
  <2>3. FailedBatchIsNeverCommitted'
    BY <2>1, ExecuteUndoing DEF FailedBatchIsNeverCommitted
  <2>4. /\ \A w \in undone' : w[2] <= version'
        /\ \A q \in Procs : \A w \in wrote'[q] : w[2] <= version'
    BY <1>0, <2>1, ExecuteUndoing DEF Undoing
  <2>5. \A w \in undone' : row'[w[1]] = w[2] =>
          open' /\ \A q \in Owners' : pc'[q] \in {"rollback", "rollbackExec"}
    BY <1>0, <2>1, ExecuteUndoing DEF Undoing, Owners
  <2> QED BY <2>1, <2>2, <2>3, <2>4, <2>5 DEF Undoing
<1>2. ASSUME NEW p \in Procs, NEW i \in Ids, BatchOp(p, i) PROVE Undoing'
  <2>1. Execute(i) /\ UNCHANGED <<pc, undone, open>> /\ pc[p] = "ops" /\ p \in Owners /\ open
        /\ wrote' = [wrote EXCEPT ![p] = @ \cup {<<i, version'>>}]
    BY <1>2, ExecuteTyped DEF BatchOp, history, Owners, Owning, OneBatchAtATime
  <2>2. ASSUME NEW q \in Procs, pc[q] = "ops", NEW w \in wrote'[q] PROVE durable'[w[1]] # w[2]
    <3>1. w \in wrote[q] \/ w = <<i, version'>>
      BY <2>1, <2>2 DEF TypeOK
    <3>2. CASE w \in wrote[q]
      BY <1>0, <2>1, <2>2, <3>2, ExecuteUndoing DEF Undoing
    <3>3. CASE w = <<i, version'>>
      <4>1. durable' = durable /\ version' = version + 1 /\ durable[i] <= version /\ durable[i] \in Nat
        <5>1. durable[i] \in 0 .. MaxVersion /\ row[i] \in 0 .. MaxVersion
          BY <1>0
        <5>2. durable[i] <= row[i] /\ row[i] <= version
          BY DEF Durability
        <5>3. durable' = durable /\ version' = version + 1
          BY <2>1, ExecuteTyped
        <5> QED BY <1>0, <5>1, <5>2, <5>3
      <4> QED BY <1>0, <3>3, <4>1
    <3> QED BY <3>1, <3>2, <3>3
  <2>3. FailedBatchIsNeverCommitted'
    BY <2>1, ExecuteUndoing DEF FailedBatchIsNeverCommitted
  <2>4. \A w \in undone' : w[2] <= version'
    BY <1>0, <2>1, ExecuteUndoing DEF Undoing
  <2>5. ASSUME NEW q \in Procs, NEW w \in wrote'[q] PROVE w[2] <= version'
    <3>1. w \in wrote[q] \/ w = <<i, version'>>
      BY <2>1, <2>5 DEF TypeOK
    <3>2. version' = version + 1
      BY <2>1, ExecuteUndoing
    <3> QED BY <1>0, <3>1, <3>2 DEF Undoing
  <2>6. \A q \in Procs : pc[q] \in {"idle", "begin", "begun"} => wrote'[q] = {}
    BY <2>1 DEF TypeOK, Undoing
  <2>7. \A w \in undone' : row'[w[1]] # w[2]
    BY <1>0, <2>1, ExecuteUndoing DEF Undoing
  <2> QED BY <2>1, <2>2, <2>3, <2>4, <2>5, <2>6, <2>7 DEF Undoing
<1>3. ASSUME NEW p \in Procs,
             BeginRefused(p) \/ BeginChecked(p) \/ BeginFails(p) \/ BeginDone(p) \/ BatchEnd(p)
             \/ NoTransaction(p) \/ Checked(p) \/ CommitExecFails(p) \/ FlagOff(p)
      PROVE  Undoing'
  <2>1. UNCHANGED <<db, open, undone>>
    BY <1>3 DEF BeginRefused, BeginChecked, BeginFails, BeginDone, BatchEnd, NoTransaction, Checked,
       CommitExecFails, FlagOff, vars, tx, history
  <2>2. \A q \in Procs : wrote'[q] = wrote[q] \/ wrote'[q] = {}
    BY <1>3 DEF BeginRefused, BeginChecked, BeginFails, BeginDone, BatchEnd, NoTransaction, Checked,
       CommitExecFails, FlagOff, Goto, Return, vars, TypeOK
  <2>3. \A q \in Procs : /\ pc'[q] \in {"idle", "begin", "begun"} => wrote'[q] = {}
                         /\ pc'[q] = "ops" => pc[q] = "ops" \/ wrote'[q] = {}
    BY <1>3 DEF BeginRefused, BeginChecked, BeginFails, BeginDone, BatchEnd, NoTransaction, Checked,
       CommitExecFails, FlagOff, Goto, Return, vars, TypeOK, Undoing
  <2>4. \A q \in Procs : pc'[q] \in Owning =>
          /\ pc[q] \in Owning
          /\ pc[q] \in {"rollback", "rollbackExec"} => pc'[q] \in {"rollback", "rollbackExec"}
    BY <1>3 DEF BeginRefused, BeginChecked, BeginFails, BeginDone, BatchEnd, NoTransaction, Checked,
       CommitExecFails, FlagOff, Goto, Return, vars, TypeOK, Owning
  <2>5. UNCHANGED <<row, durable, version>>
    BY <2>1 DEF db
  <2> QED BY <2>1, <2>2, <2>3, <2>4, <2>5 DEF Undoing, FailedBatchIsNeverCommitted, Owners
<1>4. ASSUME NEW p \in Procs, BatchOpFails(p) \/ BatchThrows(p) PROVE Undoing'
  <2>1. /\ UNCHANGED <<row, durable, version, open>> /\ undone' = undone \cup wrote[p]
        /\ pc[p] = "ops" /\ open /\ \A q \in Procs : pc[q] \in Owning => q = p
    BY <1>4 DEF BatchOpFails, BatchThrows, db, tx, OneBatchAtATime, Owners, Owning
  <2>2. pc'[p] \in {"idle", "rollback"} /\ \A q \in Procs : q # p => pc'[q] = pc[q]
    BY <1>4 DEF BatchOpFails, BatchThrows, Goto, Return, TypeOK
  <2>3. \A q \in Procs : wrote'[q] = {} \/ (wrote'[q] = wrote[q] /\ (pc'[q] = pc[q] \/ pc'[q] = "rollback"))
    BY <1>4 DEF BatchOpFails, BatchThrows, Goto, Return, TypeOK
  <2>4. FailedBatchIsNeverCommitted'
    BY <2>1 DEF Undoing, FailedBatchIsNeverCommitted
  <2>5. \A q \in Procs : pc'[q] \in Owning => pc'[q] = "rollback"
    BY <2>1, <2>2 DEF Owning
  <2> QED BY <2>1, <2>3, <2>4, <2>5 DEF Undoing, Owners
<1>5. ASSUME NEW p \in Procs, BeginExec(p) PROVE Undoing'
  <2>1. /\ UNCHANGED <<row, durable, version, wrote, undone>> /\ row = durable
        /\ pc' = [pc EXCEPT ![p] = "begun"] /\ pc[p] = "begin"
    BY <1>5 DEF BeginExec, Goto, db, history, TypeOK
  <2> QED BY <2>1 DEF Undoing, FailedBatchIsNeverCommitted, TypeOK
<1>6. ASSUME NEW p \in Procs, CommitExec(p) PROVE Undoing'
  <2>1. /\ UNCHANGED <<row, version, wrote, undone>> /\ durable' = row
        /\ pc' = [pc EXCEPT ![p] = "committed"] /\ pc[p] = "commitExec"
    BY <1>6 DEF CommitExec, Goto
  <2>2. p \in Owners /\ \A q \in Procs : pc[q] = "ops" => q = p
    BY <2>1 DEF OneBatchAtATime, Owners, Owning
  <2>3. \A w \in undone : row[w[1]] # w[2]
    BY <2>1, <2>2 DEF Undoing
  <2> QED BY <2>1, <2>2, <2>3 DEF Undoing, FailedBatchIsNeverCommitted, TypeOK
<1>7. ASSUME NEW p \in Procs, RollbackExec(p) PROVE Undoing'
  <2>1. /\ UNCHANGED <<durable, version, wrote, undone>> /\ row' = durable
        /\ pc' = [pc EXCEPT ![p] = "rolledBack"] /\ pc[p] = "rollbackExec"
    BY <1>7 DEF RollbackExec, Goto
  <2> QED BY <2>1 DEF Undoing, FailedBatchIsNeverCommitted, TypeOK
<1>8. CASE Crash
  BY <1>8 DEF Crash, Undoing, FailedBatchIsNeverCommitted
<1>9. CASE UNCHANGED vars
  BY <1>9 DEF vars, db, tx, history, Undoing, FailedBatchIsNeverCommitted, Owners
<1> QED BY <1>1, <1>2, <1>3, <1>4, <1>5, <1>6, <1>7, <1>8, <1>9 DEF Next

(* "if any operation fails, the entire batch is rolled back": whichever    *)
(* way batches, plain writes, exceptions and crashes interleave, nobody's  *)
(* COMMIT makes a write of a failed batch durable.                         *)
THEOREM FailedBatchesStayOut == Spec => []FailedBatchIsNeverCommitted
<1>1. Init => OneBatchAtATime /\ Durability /\ Undoing
  BY DEF Init, OneBatchAtATime, Owners, Owning, Durability, AcknowledgedIsDurable, Undoing,
     FailedBatchIsNeverCommitted
<1>2. Undoing => FailedBatchIsNeverCommitted
  BY DEF Undoing
<1> QED BY <1>1, <1>2, Typing, OwnershipStep, DurabilityStep, UndoingStep, PTL DEF Spec

(***************************************************************************)
(* DaemonRequests                                                          *)
(***************************************************************************)
Tenants == RTenants \cup {"none", NullTenant}
RowOwners == RUsers \cup {"none"}
Rows == [tenant : Tenants, owner : RowOwners, v : Nat]
PCs == {"idle", "owner", "tenant", "write", "create", "call"}
Ops == {"none", "create", "read", "update", "delete", "list", "query", "login"}
Requests == [pc : PCs, op : Ops, tenant : Tenants, user : RowOwners, id : RIds, ref : Nat, body : Rows]
Looks == {"owner", "tenant", "write"}

(* Clients are numbered as they are built, each has its database, and the  *)
(* configuration lags behind only inside a switch.                         *)
ClientInv ==
    /\ built \in 0..MaxClients /\ client \in 0..built
    /\ dbOf \in [1..MaxClients -> Databases \cup {"none"}]
    /\ \A g \in 1..built : dbOf[g] \in Databases
    /\ config \in Databases /\ mutex \in BOOLEAN
    /\ mutex => client # 0
    /\ ConfigNamesTheClient

(* Whoever holds a client holds one that was built.                        *)
RequestInv ==
    /\ services \in 0..built /\ queryRef \in 0..built
    /\ rq \in [RProcs -> Requests]
    /\ \A p \in RProcs : rq[p].ref \in 0..built
    /\ \A p \in RProcs : rq[p].pc # "idle" => rq[p].ref # 0

RowInv ==
    /\ rows \in [Databases -> [RIds -> Rows]]
    /\ past \in [RProcs -> [tenants : SUBSET Tenants, owners : SUBSET RowOwners]]

(* What a request that looks at its row, or is about to change it, would   *)
(* find now is among what it found at some moment; what it has checked is  *)
(* so, too.                                                                *)
Witnessed(p) ==
    /\ Row(p).tenant \in past[p].tenants /\ Row(p).owner \in past[p].owners
    /\ rq[p].pc \in {"tenant", "write"} /\ rq[p].user # NoUser => rq[p].user \in past[p].owners
    /\ rq[p].pc = "write" => TenantWasMet(p)

SeenOf(p) == rq[p].pc \in Looks => Witnessed(p)

DaemonInv == ClientInv /\ RequestInv /\ RowInv /\ \A p \in RProcs : SeenOf(p)

(* What every step does to the clients: none is forgotten, none moves to   *)
(* another database, and a daemon that has one keeps having one.           *)
Grows ==
    /\ ClientInv' /\ built \in 0..built'
    /\ \A g \in 1..built : dbOf'[g] = dbOf[g]
    /\ client # 0 => client' # 0

-----------------------------------------------------------------------------
LEMMA RowTypes == NoRow \in Rows /\ FirstRows \subseteq Rows /\ Bodies \subseteq Rows /\ IdleReq \in Requests
<1>1. (CHOOSE t \in RTenants : TRUE) \in RTenants /\ (CHOOSE u \in RUsers : TRUE) \in RUsers
  BY RequestAssumption
<1>2. NoRow \in Rows /\ FirstRow \in Rows
  BY <1>1 DEF NoRow, FirstRow, Rows, Tenants, RowOwners
<1>3. [NoRow EXCEPT !.tenant = NullTenant, !.v = 2] \in Rows /\ FirstRows \subseteq Rows
  BY <1>2 DEF Rows, Tenants, FirstRows
<1>4. [tenant : RTenants \ {FirstRow.tenant}, owner : RUsers \ {FirstRow.owner}, v : {0}] \subseteq Rows
  BY DEF Rows, Tenants, RowOwners
<1>5. Bodies \subseteq Rows
  BY <1>2, <1>3, <1>4 DEF Bodies
<1>6. IdleReq \in Requests
  <2> HIDE DEF Rows, NoRow
  <2> QED BY <1>2 DEF IdleReq, Requests, PCs, Ops, NoUser, Tenants, RowOwners, RIds
<1> QED BY <1>2, <1>3, <1>5, <1>6

LEMMA RequestsInit == InitRequests => DaemonInv
<1> SUFFICES ASSUME InitRequests PROVE DaemonInv
  OBVIOUS
<1>1. ClientInv
  <2>1. (CHOOSE d \in Databases : TRUE) \in Databases
    BY RequestAssumption
  <2>2. built = 0 /\ client = 0 /\ mutex = FALSE /\ config \in Databases
    BY <2>1 DEF InitRequests
  <2>3. dbOf \in [1..MaxClients -> Databases \cup {"none"}]
    BY DEF InitRequests
  <2>4. 0 \in 0..MaxClients /\ 0 \in 0..0 /\ 1..0 = {}
    BY RequestAssumption
  <2>5. \A g \in 1..built : dbOf[g] \in Databases
    BY <2>2, <2>4
  <2>6. ConfigNamesTheClient
    BY <2>2 DEF ConfigNamesTheClient
  <2> QED BY <2>2, <2>3, <2>4, <2>5, <2>6 DEF ClientInv
<1>2. RequestInv
  BY RowTypes DEF InitRequests, RequestInv, IdleReq
<1>3. RowInv
  <2>1. PICK first \in [Databases -> FirstRows] :
            rows = [d \in Databases |-> [i \in RIds |-> IF i = 1 THEN first[d] ELSE NoRow]]
    BY DEF InitRequests
  <2>2. NoRow \in Rows /\ \A d \in Databases : first[d] \in Rows
    BY RowTypes
  <2> QED BY <2>1, <2>2 DEF InitRequests, RowInv
<1>4. ASSUME NEW p \in RProcs PROVE SeenOf(p)
  BY DEF InitRequests, SeenOf, Looks, IdleReq
<1> QED BY <1>1, <1>2, <1>3, <1>4 DEF DaemonInv

-----------------------------------------------------------------------------
(***************************************************************************)
(* The clients                                                             *)
(***************************************************************************)
LEMMA ClientStays == ClientInv /\ UNCHANGED clientVars => Grows
  BY DEF ClientInv, ConfigNamesTheClient, Grows, clientVars

LEMMA ClientBuilt ==
    ASSUME ClientInv, NEW base \in Databases, Builds(base), ~mutex, UNCHANGED config,
           mutex' \in BOOLEAN, mutex' \/ base = config
    PROVE  Grows /\ client' \in 1..built' /\ built' = built + 1
  BY RequestAssumption DEF ClientInv, ConfigNamesTheClient, Builds, Grows

LEMMA ClientEnsured ==
    ASSUME ClientInv, NEW ok \in BOOLEAN, ensureClient(ok)
    PROVE  Grows /\ (ok => client' \in 1..built')
<1>1. CASE Builds(config)
  BY <1>1, ClientBuilt DEF ensureClient, ClientInv
<1>2. CASE ~Builds(config)
  <2>1. UNCHANGED clientVars /\ (ok => client # 0)
    BY <1>2 DEF ensureClient, clientVars
  <2> QED BY <2>1, ClientStays DEF ClientInv, clientVars
<1> QED BY <1>1, <1>2

LEMMA ConfigStored == ASSUME ClientInv, StoreConfig PROVE Grows
<1>1. /\ mutex /\ config' = dbOf[client] /\ mutex' = FALSE
      /\ client' = client /\ built' = built /\ dbOf' = dbOf
  BY DEF StoreConfig
<1>2. built \in Nat /\ client \in 1..built
  BY <1>1, RequestAssumption DEF ClientInv
<1>3. config' \in Databases
  BY <1>1, <1>2 DEF ClientInv
<1>4. ClientInv'
  BY <1>1, <1>3 DEF ClientInv, ConfigNamesTheClient
<1> QED BY <1>1, <1>2, <1>4 DEF Grows

(***************************************************************************)
(* Steps that change one request or none, and no row                       *)
(***************************************************************************)
(* A request that is left alone has still seen its row.                    *)
LEMMA SeenStays ==
    ASSUME DaemonInv, Grows, NEW p \in RProcs, rq'[p] = rq[p], past'[p] = past[p], UNCHANGED rows
    PROVE  SeenOf(p)'
<1>1. SeenOf(p) /\ rq[p] \in Requests /\ rq[p].ref \in 0..built /\ (rq[p].pc # "idle" => rq[p].ref # 0)
  BY DEF DaemonInv, RequestInv
<1>2. rq[p].pc \in Looks => rq[p].ref \in 1..built
  BY <1>1 DEF Looks, DaemonInv, ClientInv
<1>3. rq[p].pc \in Looks => Row(p)' = Row(p)
  BY <1>2 DEF Row, Grows
<1> QED BY <1>1, <1>3 DEF SeenOf, Witnessed, TenantWasMet

(* One request moves on, the others stay; no row changes.                  *)
LEMMA OneMoves ==
    ASSUME DaemonInv, Grows, NEW p \in RProcs, NEW r \in Requests,
           rq' = [rq EXCEPT ![p] = r], r.ref \in 0..built', r.pc # "idle" => r.ref # 0,
           \A q \in RProcs \ {p} : past'[q] = past[q], SeenOf(p)', RowInv',
           UNCHANGED rows, services' \in 0..built', queryRef' \in 0..built'
    PROVE  DaemonInv'
<1>1. \A q \in RProcs \ {p} : rq'[q] = rq[q]
  BY DEF DaemonInv, RequestInv
<1>2. rq'[p] = r
  BY DEF DaemonInv, RequestInv
<1>3. rq' \in [RProcs -> Requests]
  BY DEF DaemonInv, RequestInv
<1>4. \A q \in RProcs : rq'[q].ref \in 0..built' /\ (rq'[q].pc # "idle" => rq'[q].ref # 0)
  BY <1>1, <1>2 DEF DaemonInv, RequestInv, Grows, ClientInv
<1>5. RequestInv'
  BY <1>3, <1>4 DEF RequestInv
<1>6. ASSUME NEW q \in RProcs PROVE SeenOf(q)'
  BY <1>1, SeenStays
<1> QED BY <1>5, <1>6 DEF DaemonInv, Grows

(* A request that ends, or stands where it looks at nothing.               *)
LEMMA NothingToSee ==
    ASSUME NEW p \in RProcs, rq'[p].pc \notin Looks PROVE SeenOf(p)'
  BY DEF SeenOf

LEMMA NoneMoves ==
    ASSUME DaemonInv, Grows, UNCHANGED <<rq, rows, past>>,
           services' \in 0..built', queryRef' \in 0..built'
    PROVE  DaemonInv'
<1>1. RequestInv'
  BY DEF DaemonInv, RequestInv, Grows, ClientInv
<1>2. RowInv'
  BY DEF DaemonInv, RowInv
<1>3. ASSUME NEW q \in RProcs PROVE SeenOf(q)'
  BY SeenStays
<1> QED BY <1>1, <1>2, <1>3 DEF DaemonInv, Grows

LEMMA RefsStay == ASSUME DaemonInv, Grows PROVE services \in 0..built' /\ queryRef \in 0..built'
  BY DEF DaemonInv, RequestInv, Grows, ClientInv

LEMMA Finishes ==
    ASSUME DaemonInv, Grows, NEW p \in RProcs, Finish(p), UNCHANGED <<rows, past, services>>,
           queryRef' \in 0..built'
    PROVE  DaemonInv'
<1>1. rq' = [rq EXCEPT ![p] = IdleReq] /\ rq'[p] = IdleReq /\ IdleReq \in Requests
  BY RowTypes DEF Finish, DaemonInv, RequestInv
<1>2. IdleReq.pc = "idle" /\ IdleReq.ref = 0 /\ IdleReq.pc \notin Looks
  BY DEF IdleReq, Looks
<1>3. RowInv'
  BY DEF DaemonInv, RowInv
<1>4. 0 \in 0..built'
  BY DEF Grows, ClientInv
<1>5. SeenOf(p)'
  BY <1>1, <1>2, NothingToSee
<1> HIDE DEF IdleReq
<1> QED BY <1>1, <1>2, <1>3, <1>4, <1>5, RefsStay, OneMoves

(***************************************************************************)
(* Requests that arrive                                                    *)
(***************************************************************************)
(* What a route may hand to its handler: nothing is checked yet.           *)
Fresh(r) ==
    /\ r \in Requests /\ r.pc \notin {"idle", "write"}
    /\ r.pc = "tenant" => r.user = NoUser

LEMMA AsksAreFresh ==
    ASSUME NEW at \in PCs \ {"idle", "write"}, NEW op \in Ops, NEW t \in Tenants, NEW u \in RowOwners,
           NEW id \in RIds, NEW b \in Rows, at = "tenant" => u = NoUser
    PROVE  Fresh(Asks(at, op, t, u, id, b))
<1> HIDE DEF Rows, PCs, Ops, Tenants, RowOwners, RIds, IdleReq
<1>1. IdleReq \in Requests
  BY RowTypes
<1>2. /\ Asks(at, op, t, u, id, b) \in Requests
      /\ Asks(at, op, t, u, id, b).pc = at /\ Asks(at, op, t, u, id, b).user = u
  BY <1>1 DEF Asks, Requests
<1> QED BY <1>2 DEF Fresh

LEMMA Dispatched ==
    ASSUME DaemonInv, NEW p \in RProcs, NEW r, Fresh(r), Dispatch(p, r)
    PROVE  DaemonInv' /\ Grows
<1>1. UNCHANGED <<rows, services, queryRef>> /\ ClientInv
  BY DEF Dispatch, startVars, DaemonInv
<1>2. CASE Finish(p) /\ UNCHANGED <<clientVars, past>>
  <2>1. Grows
    BY <1>1, <1>2, ClientStays
  <2> QED BY <1>1, <1>2, <2>1, RefsStay, Finishes
<1>3. CASE ensureClient(FALSE) /\ Finish(p) /\ UNCHANGED past
  <2>1. Grows
    BY <1>1, <1>3, ClientEnsured
  <2> QED BY <1>1, <1>3, <2>1, RefsStay, Finishes
<1>4. CASE /\ ensureClient(TRUE)
           /\ rq' = [rq EXCEPT ![p] = [r EXCEPT !.ref = client']]
           /\ LET content == rows[dbOf'[client']][r.id] IN
              past' = [past EXCEPT ![p] = [tenants |-> {content.tenant}, owners |-> {content.owner}]]
  <2> DEFINE new == [r EXCEPT !.ref = client']
             content == rows[dbOf'[client']][r.id]
  <2>1. Grows /\ client' \in 1..built' /\ built' \in Nat
    <3>1. Grows /\ client' \in 1..built'
      BY <1>1, <1>4, ClientEnsured
    <3> QED BY <3>1, RequestAssumption DEF Grows, ClientInv
  <2>2. dbOf'[client'] \in Databases /\ r.id \in RIds
    BY <2>1 DEF Grows, ClientInv, Fresh, Requests
  <2>3. content \in Rows
    BY <2>2 DEF DaemonInv, RowInv
  <2>4. /\ new \in Requests /\ new.ref = client' /\ new.id = r.id /\ new.pc = r.pc
        /\ new.user = r.user /\ new.tenant = r.tenant
    BY <2>1 DEF Fresh, Requests
  <2>5. rq' = [rq EXCEPT ![p] = new]
    BY <1>4
  <2>6. past' = [past EXCEPT ![p] = [tenants |-> {content.tenant}, owners |-> {content.owner}]]
    BY <1>4
  <2> HIDE DEF new, content
  <2>7. rq'[p] = new
    BY <2>5 DEF DaemonInv, RequestInv
  <2>8. past'[p].tenants = {content.tenant} /\ past'[p].owners = {content.owner}
    BY <2>6 DEF DaemonInv, RowInv
  <2>9. RowInv'
    <3>1. content.tenant \in Tenants /\ content.owner \in RowOwners
      BY <2>3 DEF Rows
    <3> QED BY <1>1, <2>6, <3>1 DEF DaemonInv, RowInv
  <2>10. Row(p)' = content
    BY <1>1, <2>4, <2>7 DEF Row, content
  <2>11. SeenOf(p)'
    BY <2>4, <2>7, <2>8, <2>10 DEF SeenOf, Witnessed, Fresh
  <2>12. \A q \in RProcs \ {p} : past'[q] = past[q]
    BY <2>6 DEF DaemonInv, RowInv
  <2>13. client' \in 0..built' /\ client' # 0
    BY <2>1
  <2> QED BY <1>1, <2>1, <2>4, <2>5, <2>9, <2>11, <2>12, <2>13, RefsStay, OneMoves
<1> QED BY <1>2, <1>3, <1>4 DEF Dispatch

(* A handler that makes one call of the client that somebody holds.        *)
LEMMA Called ==
    ASSUME DaemonInv, Grows, NEW p \in RProcs, NEW op \in Ops, NEW g \in 1..built',
           rq' = [rq EXCEPT ![p] = [IdleReq EXCEPT !.pc = "call", !.op = op, !.ref = g]],
           UNCHANGED <<rows, past, services>>, queryRef' \in 0..built'
    PROVE  DaemonInv'
<1> DEFINE new == [IdleReq EXCEPT !.pc = "call", !.op = op, !.ref = g]
<1>1. g \in Nat /\ g \in 0..built' /\ g # 0
  BY RequestAssumption DEF Grows, ClientInv
<1>2. new \in Requests /\ new.pc = "call" /\ new.ref = g
  BY <1>1, RowTypes DEF IdleReq, Requests, PCs
<1>3. rq' = [rq EXCEPT ![p] = new]
  OBVIOUS
<1> HIDE DEF new
<1>4. SeenOf(p)'
  BY <1>2, <1>3, NothingToSee DEF DaemonInv, RequestInv, Looks
<1>5. RowInv'
  BY DEF DaemonInv, RowInv
<1> QED BY <1>1, <1>2, <1>3, <1>4, <1>5, RefsStay, OneMoves

LEMMA QueryAsked ==
    ASSUME DaemonInv, NEW p \in RProcs, QueryRoute(p) PROVE DaemonInv' /\ Grows
<1>1. UNCHANGED <<rows, past, services>> /\ ClientInv
  BY DEF QueryRoute, DaemonInv
<1>2. CASE Finish(p) /\ UNCHANGED <<clientVars, queryRef>>
  <2>1. Grows
    BY <1>1, <1>2, ClientStays
  <2> QED BY <1>1, <1>2, <2>1, RefsStay, Finishes
<1>3. CASE ensureClient(FALSE) /\ Finish(p) /\ UNCHANGED queryRef
  <2>1. Grows
    BY <1>1, <1>3, ClientEnsured
  <2> QED BY <1>1, <1>3, <2>1, RefsStay, Finishes
<1>4. CASE /\ ensureClient(TRUE)
           /\ queryRef' = IF queryRef = 0 THEN client' ELSE queryRef
           /\ rq' = [rq EXCEPT ![p] = [IdleReq EXCEPT !.pc = "call", !.op = "query", !.ref = queryRef']]
  <2>1. Grows /\ client' \in 1..built'
    BY <1>1, <1>4, ClientEnsured
  <2>2. queryRef \in 0..built' /\ built' \in Nat
    BY <2>1, RefsStay DEF Grows, ClientInv
  <2>3. queryRef' \in 1..built' /\ queryRef' \in 0..built'
    BY <1>4, <2>1, <2>2
  <2>4. "query" \in Ops
    BY DEF Ops
  <2> QED BY <1>1, <1>4, <2>1, <2>3, <2>4, Called
<1> QED BY <1>2, <1>3, <1>4 DEF QueryRoute

LEMMA SignOnAsked ==
    ASSUME DaemonInv, NEW p \in RProcs, SignOnRoute(p) PROVE DaemonInv' /\ Grows
<1>1. UNCHANGED <<rows, past, services, queryRef, clientVars>> /\ ClientInv /\ services # 0
  BY DEF SignOnRoute, startVars, DaemonInv
<1>2. Grows
  BY <1>1, ClientStays
<1>3. services \in 1..built' /\ queryRef' \in 0..built'
  BY <1>1, <1>2, RefsStay DEF Grows, ClientInv
<1>4. "login" \in Ops
  BY DEF Ops
<1>5. rq' = [rq EXCEPT ![p] = [IdleReq EXCEPT !.pc = "call", !.op = "login", !.ref = services]]
  BY DEF SignOnRoute
<1> QED BY <1>1, <1>2, <1>3, <1>4, <1>5, Called

LEMMA Arrived ==
    ASSUME DaemonInv, NEW p \in RProcs, Arrives(p) PROVE DaemonInv' /\ Grows
<1>1. ASSUME NEW t \in RTenants \cup {NullTenant}, NEW u \in RUsers \cup {NoUser}, PostEntity(p, t, u)
      PROVE  DaemonInv' /\ Grows
  <2>1. /\ [tenant |-> t, owner |-> u, v |-> 1] \in Rows /\ "create" \in PCs \ {"idle", "write"}
        /\ "create" \in Ops /\ t \in Tenants /\ u \in RowOwners /\ 1 \in RIds
    BY DEF Rows, PCs, Ops, Tenants, RowOwners, RIds, NoUser
  <2>2. Fresh(Asks("create", "create", t, u, 1, [tenant |-> t, owner |-> u, v |-> 1]))
    BY <2>1, AsksAreFresh
  <2> QED BY <1>1, <2>2, Dispatched DEF PostEntity
<1>2. ASSUME NEW t \in RTenants, NEW u \in RUsers \cup {NoUser}, NEW op \in {"read", "update", "delete"},
             NEW b \in Rows, OnId(p, op, t, u, 1, b)
      PROVE  DaemonInv' /\ Grows
  <2> DEFINE at == IF u = NoUser THEN "tenant" ELSE "owner"
  <2>1. /\ at \in PCs \ {"idle", "write"} /\ (at = "tenant" => u = NoUser)
        /\ op \in Ops /\ t \in Tenants /\ u \in RowOwners /\ 1 \in RIds
    BY DEF PCs, Ops, Tenants, RowOwners, RIds, NoUser
  <2>2. Fresh(Asks(at, op, t, u, 1, b))
    BY <2>1, AsksAreFresh
  <2> QED BY <1>2, <2>2, Dispatched DEF OnId
<1>3. ASSUME NEW t \in RTenants, ListRoute(p, t) PROVE DaemonInv' /\ Grows
  <2>1. /\ "call" \in PCs \ {"idle", "write"} /\ "list" \in Ops /\ t \in Tenants /\ NoUser \in RowOwners
        /\ 1 \in RIds
    BY DEF PCs, Ops, Tenants, RowOwners, RIds, NoUser
  <2>2. Fresh(Asks("call", "list", t, NoUser, 1, NoRow))
    BY <2>1, RowTypes, AsksAreFresh
  <2> QED BY <1>3, <2>2, Dispatched DEF ListRoute
<1>4. CASE \E t \in RTenants, u \in RUsers \cup {NoUser} :
              \/ PostEntity(p, t, u) \/ ReadEntity(p, t, u, 1) \/ DeleteEntity(p, t, u, 1)
              \/ \E b \in Bodies : UpdateEntity(p, t, u, 1, b)
  <2>1. NoRow \in Rows /\ Bodies \subseteq Rows
    BY RowTypes
  <2> QED BY <1>1, <1>2, <1>4, <2>1 DEF ReadEntity, DeleteEntity, UpdateEntity
<1>5. CASE \/ \E t \in RTenants : ListRoute(p, t)
           \/ SearchRoute(p) \/ BulkRoute(p) \/ BatchRoute(p) \/ RpcRoute(p) \/ SeedRoute(p)
           \/ CredentialRoutes(p)
  <2>1. (CHOOSE t \in RTenants : TRUE) \in RTenants
    BY RequestAssumption
  <2> QED BY <1>3, <1>5, <2>1 DEF SearchRoute, BulkRoute, BatchRoute, RpcRoute, SeedRoute, CredentialRoutes
<1>6. CASE PostEntity(p, NullTenant, NoUser)
  BY <1>1, <1>6
<1> QED BY <1>4, <1>5, <1>6, QueryAsked, SignOnAsked DEF Arrives

(***************************************************************************)
(* Handlers                                                                *)
(***************************************************************************)
LEMMA OnlyOne ==
    ASSUME DaemonInv, NEW p \in RProcs, Only(p)
    PROVE  Grows /\ UNCHANGED <<rows, past, services, queryRef>>
  BY ClientStays DEF Only, startVars, DaemonInv

LEMMA Ends ==
    ASSUME DaemonInv, NEW p \in RProcs, Only(p), Finish(p) PROVE DaemonInv' /\ Grows
  BY OnlyOne, RefsStay, Finishes

(* A check that is passed is a check of what the request has just seen.    *)
LEMMA Advances ==
    ASSUME DaemonInv, NEW p \in RProcs, NEW at \in {"tenant", "write"}, Only(p), Step(p, at),
           rq[p].pc \in Looks, SeenOf(p),
           rq[p].user # NoUser => rq[p].user \in past[p].owners,
           at = "write" => TenantWasMet(p)
    PROVE  DaemonInv' /\ Grows
<1> DEFINE new == [rq[p] EXCEPT !.pc = at]
<1>1. rq[p] \in Requests /\ rq[p].ref \in 0..built /\ (rq[p].pc # "idle" => rq[p].ref # 0)
  BY DEF DaemonInv, RequestInv
<1>2. new \in Requests /\ new.pc = at /\ new.ref = rq[p].ref /\ new.id = rq[p].id
      /\ new.user = rq[p].user /\ new.tenant = rq[p].tenant
  BY <1>1 DEF Requests, PCs
<1>3. rq' = [rq EXCEPT ![p] = new]
  BY <1>1 DEF Step, DaemonInv, RequestInv
<1> HIDE DEF new
<1>4. rq'[p] = new
  BY <1>3 DEF DaemonInv, RequestInv
<1>5. Grows /\ UNCHANGED <<rows, past, services, queryRef>> /\ UNCHANGED dbOf
  BY OnlyOne DEF Only, clientVars
<1>6. Row(p)' = Row(p)
  BY <1>2, <1>4, <1>5 DEF Row
<1>7. SeenOf(p)'
  BY <1>2, <1>4, <1>5, <1>6 DEF SeenOf, Witnessed, TenantWasMet
<1>8. RowInv' /\ new.ref \in 0..built' /\ new.ref # 0
  BY <1>1, <1>2, <1>5 DEF DaemonInv, RowInv, Only, clientVars, Looks
<1> QED BY <1>2, <1>3, <1>5, <1>7, <1>8, RefsStay, OneMoves

LEMMA RowIsRow == ASSUME DaemonInv, NEW p \in RProcs, rq[p].pc # "idle"
                  PROVE  dbOf[rq[p].ref] \in Databases /\ rq[p].id \in RIds /\ Row(p) \in Rows
<1>1. rq[p].ref \in 1..built /\ rq[p].id \in RIds
  BY DEF DaemonInv, RequestInv, Requests, ClientInv
<1> QED BY <1>1 DEF Row, DaemonInv, ClientInv, RowInv

(* A row is written: the requests that look at it remember it.             *)
LEMMA Written ==
    ASSUME DaemonInv, NEW p \in RProcs, rq[p].pc # "idle", NEW id \in RIds, NEW content \in Rows,
           PutRow(p, id, content), Finish(p)
    PROVE  DaemonInv' /\ Grows
<1> DEFINE base == dbOf[rq[p].ref]
<1>1. base \in Databases
  BY RowIsRow
<1>2. UNCHANGED <<services, queryRef, clientVars>> /\ rows' = [rows EXCEPT ![base][id] = content] /\ Remember(base, id, content)
  BY DEF PutRow, startVars
<1> HIDE DEF base
<1>3. Grows
  BY <1>2, ClientStays DEF DaemonInv
<1>4. content.tenant \in Tenants /\ content.owner \in RowOwners
  BY DEF Rows
<1> DEFINE Finds(q) == rq[q].pc # "idle" /\ rq[q].ref # 0 /\ dbOf[rq[q].ref] = base /\ rq[q].id = id
<1>5. ASSUME NEW q \in RProcs
      PROVE  /\ Finds(q) => /\ past'[q] = [tenants |-> past[q].tenants \cup {content.tenant},
                                          owners |-> past[q].owners \cup {content.owner}]
                           /\ past'[q].tenants = past[q].tenants \cup {content.tenant}
                           /\ past'[q].owners = past[q].owners \cup {content.owner}
             /\ ~Finds(q) => past'[q] = past[q]
  BY <1>2 DEF Remember
<1>6. RowInv'
  <2>1. rows' \in [Databases -> [RIds -> Rows]]
    BY <1>1, <1>2 DEF DaemonInv, RowInv
  <2>2. ASSUME NEW q \in RProcs PROVE past'[q] \in [tenants : SUBSET Tenants, owners : SUBSET RowOwners]
    <3>1. past[q] \in [tenants : SUBSET Tenants, owners : SUBSET RowOwners]
      BY DEF DaemonInv, RowInv
    <3>2. CASE Finds(q)
      <4>1. /\ past[q].tenants \cup {content.tenant} \in SUBSET Tenants
            /\ past[q].owners \cup {content.owner} \in SUBSET RowOwners
        BY <1>4, <3>1
      <4> HIDE DEF Finds
      <4>2. past'[q] = [tenants |-> past[q].tenants \cup {content.tenant},
                        owners |-> past[q].owners \cup {content.owner}]
        BY <1>5, <3>2
      <4> QED BY <4>1, <4>2
    <3>3. CASE ~Finds(q)
      BY <1>5, <3>1, <3>3
    <3> QED BY <3>2, <3>3
  <2>3. past' = [q \in RProcs |-> past'[q]]
    BY <1>2 DEF Remember
  <2> QED BY <2>1, <2>2, <2>3 DEF RowInv
<1>7. IdleReq \in Requests /\ IdleReq.ref = 0 /\ IdleReq.pc = "idle" /\ "idle" \notin Looks
  BY RowTypes DEF IdleReq, Looks
<1>8. /\ rq' \in [RProcs -> Requests] /\ rq'[p] = IdleReq
      /\ \A q \in RProcs \ {p} : rq'[q] = rq[q]
  BY <1>7 DEF Finish, DaemonInv, RequestInv
<1>9. RequestInv'
  BY <1>2, <1>3, <1>7, <1>8 DEF DaemonInv, RequestInv, clientVars, ClientInv
<1>10. ASSUME NEW q \in RProcs PROVE SeenOf(q)'
  <2>1. CASE q = p \/ rq[q].pc \notin Looks
    BY <1>7, <1>8, <2>1 DEF SeenOf
  <2>2. CASE q # p /\ rq[q].pc \in Looks
    <3>1. rq'[q] = rq[q] /\ Witnessed(q) /\ rq[q].pc # "idle" /\ rq[q].ref # 0
      BY <1>8, <2>2 DEF DaemonInv, SeenOf, RequestInv, Looks
    <3>2. past[q].tenants \subseteq past'[q].tenants /\ past[q].owners \subseteq past'[q].owners
      BY <1>5
    <3>3. CASE dbOf[rq[q].ref] = base /\ rq[q].id = id
      <4>1. Row(q)' = content
        BY <1>1, <1>2, <3>1, <3>3 DEF Row, clientVars, DaemonInv, RowInv
      <4>2. content.tenant \in past'[q].tenants /\ content.owner \in past'[q].owners
        BY <1>5, <3>1, <3>3
      <4> QED BY <3>1, <3>2, <4>1, <4>2 DEF SeenOf, Witnessed, TenantWasMet
    <3>4. CASE ~(dbOf[rq[q].ref] = base /\ rq[q].id = id)
      <4>1. Row(q)' = Row(q)
        BY <1>1, <1>2, <3>1, <3>4, RowIsRow DEF Row, clientVars, DaemonInv, RowInv
      <4> QED BY <3>1, <3>2, <4>1 DEF SeenOf, Witnessed, TenantWasMet
    <3> QED BY <3>3, <3>4
  <2> QED BY <2>1, <2>2
<1> QED BY <1>3, <1>6, <1>9, <1>10 DEF DaemonInv, Grows

LEMMA Handled ==
    ASSUME DaemonInv, NEW p \in RProcs, HandlerStep(p) PROVE DaemonInv' /\ Grows
<1>1. CASE HandleCall(p)
  BY <1>1, Ends DEF HandleCall
<1>2. CASE CheckOwner(p)
  <2>1. SeenOf(p) /\ rq[p].pc \in Looks
    BY <1>2 DEF CheckOwner, DaemonInv, Looks
  <2>2. CASE Row(p).owner = rq[p].user /\ Step(p, "tenant")
    BY <1>2, <2>1, <2>2, Advances DEF CheckOwner, SeenOf, Witnessed
  <2> QED BY <1>2, <2>2, Ends DEF CheckOwner
<1>3. CASE CheckTenant(p)
  <2>1. SeenOf(p) /\ rq[p].pc \in Looks
    BY <1>3 DEF CheckTenant, DaemonInv, Looks
  <2>2. CASE Row(p).tenant \in {NullTenant, rq[p].tenant} /\ Step(p, "write")
    <3>1. /\ TenantWasMet(p)
          /\ rq[p].user # NoUser => rq[p].user \in past[p].owners
      BY <1>3, <2>1, <2>2 DEF CheckTenant, SeenOf, Witnessed, TenantWasMet
    <3> QED BY <1>3, <2>1, <2>2, <3>1, Advances DEF CheckTenant
  <2> QED BY <1>3, <2>2, Ends DEF CheckTenant
<1>4. CASE WriteUpdate(p)
  <2>1. rq[p].pc # "idle" /\ rq[p].body \in Rows
    BY <1>4 DEF WriteUpdate, DaemonInv, RequestInv, Requests
  <2>2. Merged(Row(p), rq[p].body) \in Rows
    BY <2>1, RowIsRow DEF Merged, Rows
  <2> QED BY <1>4, <2>1, <2>2, RowIsRow, Written, Ends DEF WriteUpdate
<1>5. CASE WriteDelete(p)
  <2>1. rq[p].pc # "idle" /\ NoRow \in Rows
    BY <1>5, RowTypes DEF WriteDelete
  <2> QED BY <1>5, <2>1, RowIsRow, Written, Ends DEF WriteDelete
<1>6. CASE WriteCreate(p)
  <2> DEFINE free == {i \in RIds : rows[dbOf[rq[p].ref]][i] = NoRow}
  <2>1. rq[p].pc # "idle" /\ rq[p].body \in Rows
    BY <1>6 DEF WriteCreate, DaemonInv, RequestInv, Requests
  <2>2. free # {} => (CHOOSE i \in free : TRUE) \in RIds
    OBVIOUS
  <2> HIDE DEF Rows, RIds
  <2> QED BY <1>6, <2>1, <2>2, Written, Ends DEF WriteCreate
<1>7. CASE UseDestroyedClient(p)
  <2>1. CASE rq' = [q \in RProcs |-> IdleReq] /\ UNCHANGED <<services, queryRef, clientVars, rows, past>>
    <3>1. Grows
      BY <2>1, ClientStays DEF DaemonInv
    <3>2. IdleReq \in Requests /\ IdleReq.ref = 0 /\ IdleReq.pc = "idle" /\ "idle" \notin Looks
      BY RowTypes DEF IdleReq, Looks
    <3>3. RequestInv' /\ RowInv'
      BY <2>1, <3>1, <3>2 DEF DaemonInv, RequestInv, RowInv, Grows, ClientInv, clientVars
    <3>4. ASSUME NEW q \in RProcs PROVE SeenOf(q)'
      BY <2>1, <3>2 DEF SeenOf
    <3> QED BY <3>1, <3>3, <3>4 DEF DaemonInv, Grows
  <2> QED BY <1>7, <2>1, Ends DEF UseDestroyedClient
<1> QED BY <1>1, <1>2, <1>3, <1>4, <1>5, <1>6, <1>7 DEF HandlerStep

-----------------------------------------------------------------------------
LEMMA RequestsStep == DaemonInv /\ [NextRequests]_requestVars => DaemonInv' /\ (client # 0 => client' # 0)
<1> SUFFICES ASSUME DaemonInv, [NextRequests]_requestVars PROVE DaemonInv' /\ Grows
  BY DEF Grows
<1>1. CASE UNCHANGED <<clientVars, services, queryRef, rq, rows, past>>
  BY <1>1, ClientStays, RefsStay, NoneMoves DEF DaemonInv
<1>2. ASSUME NEW configured \in BOOLEAN, StartServer(configured) PROVE DaemonInv' /\ Grows
  <2>1. UNCHANGED <<rq, rows, past, queryRef>> /\ ClientInv
    BY <1>2 DEF StartServer, DaemonInv
  <2>2. ASSUME NEW ok \in BOOLEAN, ensureClient(ok), services' = IF ok THEN client' ELSE 0
        PROVE  DaemonInv' /\ Grows
    <3>1. Grows /\ (ok => client' \in 1..built')
      BY <2>1, <2>2, ClientEnsured
    <3>2. services' \in 0..built'
      BY <2>2, <3>1, RequestAssumption DEF Grows, ClientInv
    <3> QED BY <2>1, <3>1, <3>2, RefsStay, NoneMoves
  <2>3. CASE services' = 0 /\ UNCHANGED clientVars
    <3>1. Grows
      BY <2>1, <2>3, ClientStays
    <3>2. services' \in 0..built'
      BY <2>3, <3>1 DEF Grows, ClientInv
    <3> QED BY <2>1, <3>1, <3>2, RefsStay, NoneMoves
  <2> QED BY <1>2, <2>2, <2>3 DEF StartServer
<1>3. CASE StoreConfig
  <2>1. UNCHANGED <<services, queryRef, rq, rows, past>>
    BY <1>3 DEF StoreConfig, startVars
  <2> QED BY <1>3, <2>1, ConfigStored, RefsStay, NoneMoves DEF DaemonInv
<1>4. ASSUME NEW d \in Databases, SwitchClient(d) PROVE DaemonInv' /\ Grows
  <2>1. UNCHANGED <<services, queryRef, rq, rows, past, config>> /\ Builds(d) /\ ~mutex /\ mutex' = TRUE
    BY <1>4 DEF SwitchClient, startVars
  <2>2. Grows
    BY <2>1, ClientBuilt DEF DaemonInv
  <2> QED BY <2>1, <2>2, RefsStay, NoneMoves
<1>5. CASE SwitchFails \/ StopServer \/ UNCHANGED requestVars
  BY <1>1, <1>5 DEF SwitchFails, StopServer, requestVars, clientVars
<1> QED BY <1>2, <1>3, <1>4, <1>5, Arrived, Handled DEF NextRequests

(* For any requests, tenants, users, databases and clients: a row that is  *)
(* changed had the route's tenant, or none, and the checked owner at some  *)
(* moment of the request, although checks and write are calls of their     *)
(* own; the configuration names the database in use whenever the mutex is free; and *)
(* once there is a client there is one.                                    *)
THEOREM RequestsStaySafe == SpecRequests => RequestsAreSafe
<1> DEFINE Allowed == \A p \in RProcs :
          rows' # rows /\ rq[p].pc = "write" /\ rq'[p].pc = "idle" =>
              /\ TenantWasMet(p)
              /\ rq[p].user # NoUser => rq[p].user \in past[p].owners
           Replaced == client # 0 => client' # 0
<1>1. DaemonInv => TypeOKRequests /\ ConfigNamesTheClient
  BY DEF DaemonInv, ClientInv, RequestInv, TypeOKRequests
<1>2. DaemonInv => Allowed
  BY DEF DaemonInv, SeenOf, Witnessed, Looks
<1>3. DaemonInv /\ [NextRequests]_requestVars => [Replaced]_requestVars
  BY RequestsStep
<1>4. SpecRequests => []DaemonInv
  BY RequestsInit, RequestsStep, PTL DEF SpecRequests
<1>5. SpecRequests => [][Allowed]_requestVars
  BY <1>2, <1>4, PTL
<1>6. SpecRequests => [][Replaced]_requestVars
  BY <1>3, <1>4, PTL DEF SpecRequests
<1>7. SpecRequests => [](TypeOKRequests /\ ConfigNamesTheClient)
  BY <1>1, <1>4, PTL
<1> QED BY <1>5, <1>6, <1>7, PTL DEF RequestsAreSafe, WritesWereAllowed, ClientsAreOnlyReplaced

HIDE BatchAssumption

(***************************************************************************)
(* AdapterStore                                                            *)
(***************************************************************************)
(***************************************************************************)
(* Ranks                                                                   *)
(***************************************************************************)
(* What is in a page of a list is decided by its rank.                     *)
Rank(S, i) == Cardinality({j \in S : j <= i})

(* Sets of numbers up to a bound are finite.                               *)
LEMMA NumbersAreCounted ==
    ASSUME NEW b \in Nat, NEW S \in SUBSET (1 .. b)
    PROVE  IsFiniteSet(S) /\ Cardinality(S) \in 0 .. b
<1>1. IsFiniteSet(1 .. b) /\ Cardinality(1 .. b) = b
  BY FS_Interval
<1>2. IsFiniteSet(S) /\ Cardinality(S) <= b
  BY <1>1, FS_Subset
<1> QED
  BY <1>2, FS_CardinalityType

(* An injective numbering from 0 below the number of elements meets every  *)
(* number.                                                                 *)
LEMMA NumberingIsOnto ==
    ASSUME NEW S, IsFiniteSet(S), NEW f \in [S -> Nat],
           \A i \in S : f[i] < Cardinality(S),
           \A i, j \in S : f[i] = f[j] => i = j,
           NEW n \in Nat, n < Cardinality(S)
    PROVE  \E i \in S : f[i] = n
<1> DEFINE T == 0 .. Cardinality(S) - 1
<1>1. Cardinality(S) \in Nat
  BY FS_CardinalityType
<1>2. IsFiniteSet(T) /\ Cardinality(T) = Cardinality(S)
  <2>1. PICK m \in Nat : m = Cardinality(S)
    BY <1>1
  <2>2. IsFiniteSet(0 .. m - 1) /\ Cardinality(0 .. m - 1) = m
    BY FS_Interval
  <2> QED
    BY <2>1, <2>2
<1>3. f \in Injection(S, T)
  BY <1>1 DEF Injection, IsInjective
<1>4. f \in Surjection(S, T)
  BY <1>2, <1>3, FS_Injection
<1> QED
  BY <1>1, <1>4 DEF Surjection

(* Within a set of numbers, ranks start at one and grow.                   *)
LEMMA RankGrows ==
    ASSUME NEW b \in Nat, NEW S \in SUBSET (1 .. b)
    PROVE  /\ \A i \in S : Rank(S, i) \in 1 .. Cardinality(S)
           /\ \A i, j \in S : i < j => Rank(S, i) < Rank(S, j)
<1>0. \A x \in S : x \in Nat
  OBVIOUS
<1>1. IsFiniteSet(S) /\ Cardinality(S) \in 0 .. b
  BY NumbersAreCounted
<1>2. ASSUME NEW i \in S
      PROVE  /\ IsFiniteSet({x \in S : x <= i})
             /\ Rank(S, i) \in 1 .. Cardinality(S)
  <2> DEFINE Below == {x \in S : x <= i}
  <2>1. IsFiniteSet(Below) /\ Cardinality(Below) <= Cardinality(S)
    BY <1>1, FS_Subset
  <2>2. i \in Below
    OBVIOUS
  <2>3. Cardinality(Below) \in Nat /\ Cardinality(Below) # 0
    BY <2>1, <2>2, FS_EmptySet, FS_CardinalityType
  <2> QED
    BY <1>1, <2>1, <2>3 DEF Rank
<1>3. ASSUME NEW i \in S, NEW j \in S, i < j PROVE Rank(S, i) < Rank(S, j)
  <2> DEFINE Bi == {x \in S : x <= i}
             Bj == {x \in S : x <= j}
  <2>1. Bi \subseteq Bj /\ j \in Bj /\ j \notin Bi
    <3>1. i \in Nat /\ j \in Nat /\ i < j
      BY <1>0, <1>3
    <3>2. \A x \in S : x <= i => x <= j
      BY <1>0, <3>1
    <3>3. j <= j /\ ~(j <= i)
      BY <3>1
    <3> QED
      BY <3>2, <3>3
  <2>2. IsFiniteSet(Bi) /\ IsFiniteSet(Bj)
    BY <1>1, FS_Subset
  <2>3. Rank(S, i) = Cardinality(Bi) /\ Rank(S, j) = Cardinality(Bj)
    BY DEF Rank
  <2> HIDE DEF Bi, Bj
  <2>4. Cardinality(Bi) <= Cardinality(Bj) /\ Cardinality(Bi) # Cardinality(Bj)
    BY <2>1, <2>2, FS_Subset
  <2>5. Cardinality(Bi) \in Nat /\ Cardinality(Bj) \in Nat
    BY <2>2, FS_CardinalityType
  <2> QED
    BY <2>3, <2>4, <2>5
<1> QED
  BY <1>2, <1>3

(* The first of a nonempty list is one record.                             *)
LEMMA FirstIsOne ==
    ASSUME NEW b \in Nat, NEW S \in SUBSET (1 .. b)
    PROVE  /\ S # {} => Slice(S, 0, 1) # {}
           /\ \A offset \in Nat : \A i, j \in Slice(S, offset, 1) : i = j
           /\ \A offset \in Nat, limit \in Nat : Slice(S, offset, limit) \subseteq S
<1>0. \A x \in S : x \in Nat
  OBVIOUS
<1>1. /\ \A i \in S : Rank(S, i) \in 1 .. Cardinality(S)
      /\ \A i, j \in S : i < j => Rank(S, i) < Rank(S, j)
  BY RankGrows
<1>2. IsFiniteSet(S) /\ Cardinality(S) \in Nat
  BY NumbersAreCounted
<1>3. \A offset \in Nat, limit \in Nat :
         \A i : i \in Slice(S, offset, limit)
                  <=> i \in S /\ offset < Rank(S, i) /\ Rank(S, i) <= offset + limit
  BY DEF Slice, Rank
<1>4. ASSUME S # {} PROVE Slice(S, 0, 1) # {}
  <2> DEFINE f == [i \in S |-> Rank(S, i) - 1]
  <2>1. f \in [S -> Nat] /\ \A i \in S : f[i] < Cardinality(S)
    BY <1>1, <1>2
  <2>2. ASSUME NEW i \in S, NEW j \in S, f[i] = f[j] PROVE i = j
    <3>1. Rank(S, i) = Rank(S, j)
      BY <1>1, <1>2, <2>2
    <3>2. ~(i < j) /\ ~(j < i)
      BY <1>1, <1>2, <3>1
    <3> QED
      BY <1>0, <3>2
  <2>3. 0 < Cardinality(S)
    BY <1>2, <1>4, FS_EmptySet
  <2> HIDE DEF f
  <2>4. PICK i \in S : f[i] = 0
    <3>1. \A i \in S : f[i] < Cardinality(S)
      BY <2>1
    <3>2. \A i, j \in S : f[i] = f[j] => i = j
      BY <2>2
    <3>3. f \in [S -> Nat] /\ IsFiniteSet(S)
      BY <1>2, <2>1
    <3>4. \A n \in Nat : n < Cardinality(S) => \E i \in S : f[i] = n
      BY <3>1, <3>2, <3>3, NumberingIsOnto
    <3> QED
      BY <2>3, <3>4
  <2>5. f[i] = Rank(S, i) - 1 /\ Rank(S, i) \in 1 .. Cardinality(S)
    BY <1>1 DEF f
  <2>6. Rank(S, i) = 1
    BY <1>2, <2>4, <2>5
  <2>7. i \in Slice(S, 0, 1)
    BY <1>3, <2>6
  <2> QED
    BY <2>7
<1>5. ASSUME NEW offset \in Nat, NEW i \in Slice(S, offset, 1), NEW j \in Slice(S, offset, 1)
      PROVE  i = j
  <2>0. /\ i \in S /\ offset < Rank(S, i) /\ Rank(S, i) <= offset + 1
        /\ j \in S /\ offset < Rank(S, j) /\ Rank(S, j) <= offset + 1
    BY <1>3
  <2>1. Rank(S, i) = offset + 1 /\ Rank(S, j) = offset + 1
    <3>1. Rank(S, i) \in 1 .. Cardinality(S) /\ Rank(S, j) \in 1 .. Cardinality(S)
      BY <1>1, <2>0
    <3> QED
      BY <1>2, <2>0, <3>1
  <2>2. ~(i < j) /\ ~(j < i)
    BY <1>1, <2>0, <2>1
  <2> QED
    BY <1>0, <2>0, <2>2
<1> QED
  BY <1>3, <1>4, <1>5

(* Page after page, every element of a list is on exactly one.             *)
LEMMA OnePageEach ==
    ASSUME NEW b \in Nat, NEW S \in SUBSET (1 .. b), NEW i \in S, NEW limit \in 1 .. 2,
           NEW first \in {0, 1}
    PROVE  \E n \in first .. first + b :
              \A pg \in first .. first + b : i \in Slice(S, (pg - first) * limit, limit) <=> pg = n
<1>1. Rank(S, i) \in 1 .. b
  <2>1. Rank(S, i) \in 1 .. Cardinality(S) /\ Cardinality(S) \in 0 .. b
    BY RankGrows, NumbersAreCounted
  <2> QED
    BY <2>1
<1>2. \A pg \in first .. first + b : i \in Slice(S, (pg - first) * limit, limit)
         <=> (pg - first) * limit < Rank(S, i) /\ Rank(S, i) <= (pg - first) * limit + limit
  BY DEF Slice, Rank
<1>3. PICK r \in 1 .. b : r = Rank(S, i)
  BY <1>1
<1>4. CASE limit = 1
  <2>1. \A pg \in first .. first + b : i \in Slice(S, (pg - first) * limit, limit)
           <=> pg - first < r /\ r <= pg - first + 1
    BY <1>2, <1>3, <1>4
  <2>2. first + r - 1 \in first .. first + b
    OBVIOUS
  <2>3. \A pg \in first .. first + b : pg - first < r /\ r <= pg - first + 1 <=> pg = first + r - 1
    OBVIOUS
  <2> QED
    BY <2>1, <2>2, <2>3
<1>5. CASE limit = 2
  <2> DEFINE n == first + (r - 1) \div 2
  <2>1. \A pg \in first .. first + b : i \in Slice(S, (pg - first) * limit, limit)
           <=> (pg - first) * 2 < r /\ r <= (pg - first) * 2 + 2
    BY <1>2, <1>3, <1>5
  <2>2. n \in first .. first + b
    OBVIOUS
  <2>3. \A pg \in first .. first + b : (pg - first) * 2 < r /\ r <= (pg - first) * 2 + 2 <=> pg = n
    OBVIOUS
  <2> HIDE DEF n
  <2> QED
    BY <2>1, <2>2, <2>3
<1> QED
  BY <1>4, <1>5

(***************************************************************************)
(* AdapterStore                                                            *)
(***************************************************************************)
CallAts == {"idle", "put", "readback", "sadd", "srem", "many", "delete", "updEach", "delEach", "found"}
Thens == {"end", "many", "last", "updEach", "delEach"}
(* What a call under way looks like, b records having been made.           *)
CallShapes(b) ==
    [at : CallAts, id : Nat, key : AKeys \cup {AnyKey}, fld : Fields, val : AVals,
     snap : Recs \cup {NoRec}, todo : SUBSET (1 .. b), then : Thens]
(* What a call that has ended may report of itself.                        *)
Reports(b) == [ok : BOOLEAN, n : 0 .. MaxRecs, made : SUBSET (1 .. b), strays : SUBSET AIds, heard : BOOLEAN]
(* The adapters whose findFirst drops the filter.                          *)
Dropping == {"elastic", "surreal"}

(* The table, what the writes that took effect say of it, and the index.   *)
TableOK(t, a, b, x, R, k) ==
    /\ t \in [AIds -> Recs \cup {NoRec}] /\ a \in [AIds -> Recs \cup {NoRec}]
    /\ b \in 0 .. MaxRecs /\ Present(t) \subseteq 1 .. b
    /\ x \subseteq 1 .. b /\ R \subseteq 1 .. b
    /\ \A i \in AIds \ R : t[i] = a[i]
    /\ k \notin Merging => R = {}

(* A record nobody raced for is what its reader holds, and has the key the *)
(* call that found it was looking for; a bulk create counts no more than   *)
(* it made.                                                                *)
CallOK(c, t, b, R, k) ==
    /\ c \in CallShapes(b)
    /\ c.at \in {"put", "readback", "sadd", "srem"} => c.id \in 1 .. b
    /\ c.at = "put" =>
          /\ k \in Merging /\ c.snap \in Recs /\ c.snap # NoRec
          /\ c.then \in {"end", "updEach"}
          /\ k \notin Dropping /\ c.then = "end" => c.key \in {AnyKey, c.snap.key} \/ c.id \in R
          /\ c.id \notin R => t[c.id] = c.snap
    /\ c.at = "found" =>
          /\ c.key \in AKeys
          /\ \A i, j \in c.todo : i = j
          /\ k \notin Dropping => \A i \in c.todo \ R : t[i] # NoRec => c.key \in {AnyKey, t[i].key}
    /\ c.at \in {"found", "delete"} => c.then = "end"
    /\ c.at \in {"many", "sadd"} => c.val <= Cardinality(c.todo)
    /\ c.at = "many" => c.key \in AKeys /\ k # "supabase" /\ c.then = "last"
    /\ c.at = "sadd" =>
          /\ k = "redis" /\ c.id \notin c.todo /\ c.then \in {"end", "many", "last"}
          /\ c.then # "last" => c.todo = {}
          /\ c.then # "end" => c.key \in AKeys
    /\ c.at = "readback" => k \in {"mysql", "sqlite"}
    /\ c.at = "srem" => k = "redis" /\ c.then \in {"end", "delEach"}
    /\ c.at \in {"updEach", "delEach"} \/ c.then \in {"updEach", "delEach"} => k = "redis"

(* What a report may say of the table it was made over.                    *)
ReportOK(r, t, b, R, k) ==
    /\ r \in Reports(b)
    /\ k \notin Dropping => r.strays \subseteq R
    /\ r.heard /\ r.ok /\ r.made # {} => r.n = Cardinality(r.made)
    /\ r.heard /\ ~r.ok /\ k \notin StopsHalfWay =>
          r.made = {} \/ (k = "sqlite" /\ \A i \in r.made : t[i] = NoRec)

(* The inductive invariant: the table, its index, each call and each       *)
(* report agree.                                                           *)
AdaptersCore ==
    /\ kindA \in Adapters /\ opsDone \in 0 .. MaxOps
    /\ TableOK(tbl, ackd, born, idx, raced, kindA)
    /\ acall = [p \in AProcs |-> acall[p]] /\ report = [p \in AProcs |-> report[p]]
    /\ \A p \in AProcs : CallOK(acall[p], tbl, born, raced, kindA)
    /\ \A p \in AProcs : ReportOK(report[p], tbl, born, raced, kindA)
    /\ RecordsAreListed

(* With it, the one SQL transaction is open only inside a bulk call.       *)
AdaptersInv == AdaptersCore /\ (sqlTx => \E p \in AProcs : acall[p].at = "many")

(* What a step does to the records that exist: it leaves one, removes it,  *)
(* changes it but for its key, or it is one of E.                          *)
KeysStay(t, u, b, E, k) ==
    \A i \in 1 .. b :
        \/ u[i] = t[i] \/ u[i] = NoRec
        \/ t[i] # NoRec /\ u[i].key = t[i].key
        \/ i \in E /\ k \in Merging
(* Those are the records raced for, and the ones no other call has found.  *)
Found(c, i) == c.at = "found" /\ i \in c.todo
Unfound(p) == {i \in AIds : \A q \in AProcs \ {p} : ~Found(acall[q], i)}

(* A call stays as it is while the table only gains what others made.      *)
LEMMA CallKept ==
    ASSUME NEW t, NEW u, NEW b \in Nat, NEW b2 \in Nat, b <= b2, NEW R, NEW R2, R \subseteq R2, NEW k,
           NEW c, CallOK(c, t, b, R, k), NEW E, KeysStay(t, u, b, E, k),
           \A i \in E : i \in R2 \/ ~Found(c, i),
           c.at = "put" /\ u[c.id] # t[c.id] => c.id \in R2
    PROVE  CallOK(c, u, b2, R2, k)
<1>1. c \in CallShapes(b2)
  <2>1. 1 .. b \subseteq 1 .. b2
    OBVIOUS
  <2> QED
    BY <2>1 DEF CallOK, CallShapes
<1>2. c.at \in {"put", "readback", "sadd", "srem"} => c.id \in 1 .. b2
  <2>1. 1 .. b \subseteq 1 .. b2
    OBVIOUS
  <2> QED
    BY <2>1 DEF CallOK
<1>3. ASSUME c.at = "put"
      PROVE  /\ k \in Merging /\ c.snap \in Recs /\ c.snap # NoRec
             /\ c.then \in {"end", "updEach"}
             /\ k \notin Dropping /\ c.then = "end" => c.key \in {AnyKey, c.snap.key} \/ c.id \in R2
             /\ c.id \notin R2 => u[c.id] = c.snap
  BY <1>3 DEF CallOK
<1>4. ASSUME c.at = "found"
      PROVE  /\ c.key \in AKeys
             /\ \A i, j \in c.todo : i = j
             /\ k \notin Dropping => \A i \in c.todo \ R2 : u[i] # NoRec => c.key \in {AnyKey, u[i].key}
  <2>1. c.todo \subseteq 1 .. b
    BY DEF CallOK, CallShapes
  <2>2. ASSUME k \notin Dropping, NEW i \in c.todo \ R2, u[i] # NoRec
        PROVE  c.key \in {AnyKey, u[i].key}
    <3>1. i \notin E /\ i \in 1 .. b /\ i \notin R
      BY <1>4, <2>1, <2>2 DEF Found
    <3>2. t[i] # NoRec => c.key \in {AnyKey, t[i].key}
      BY <1>4, <2>2, <3>1 DEF CallOK
    <3>3. u[i] = t[i] \/ (t[i] # NoRec /\ u[i].key = t[i].key)
      BY <2>2, <3>1 DEF KeysStay
    <3> QED
      BY <2>2, <3>2, <3>3
  <2>3. c.key \in AKeys /\ \A i, j \in c.todo : i = j
    BY <1>4 DEF CallOK
  <2> QED
    BY <2>2, <2>3
<1>5. /\ c.at \in {"found", "delete"} => c.then = "end"
      /\ c.at \in {"many", "sadd"} => c.val <= Cardinality(c.todo)
      /\ c.at = "many" => c.key \in AKeys /\ k # "supabase" /\ c.then = "last"
      /\ c.at = "sadd" =>
            /\ k = "redis" /\ c.id \notin c.todo /\ c.then \in {"end", "many", "last"}
            /\ c.then # "last" => c.todo = {}
            /\ c.then # "end" => c.key \in AKeys
      /\ c.at = "readback" => k \in {"mysql", "sqlite"}
      /\ c.at = "srem" => k = "redis" /\ c.then \in {"end", "delEach"}
      /\ c.at \in {"updEach", "delEach"} \/ c.then \in {"updEach", "delEach"} => k = "redis"
  BY DEF CallOK
<1> QED
  BY <1>1, <1>2, <1>3, <1>4, <1>5 DEF CallOK

(* So does a report.                                                       *)
LEMMA ReportKept ==
    ASSUME NEW t, NEW u, NEW b \in Nat, NEW b2 \in Nat, b <= b2, NEW R, NEW R2, R \subseteq R2, NEW k,
           NEW r, ReportOK(r, t, b, R, k), NEW E, KeysStay(t, u, b, E, k)
    PROVE  ReportOK(r, u, b2, R2, k)
<1>1. 1 .. b \subseteq 1 .. b2
  OBVIOUS
<1>2. r \in Reports(b2) /\ r.made \subseteq 1 .. b
  BY <1>1 DEF ReportOK, Reports
<1>3. ASSUME k = "sqlite", NEW i \in r.made, t[i] = NoRec PROVE u[i] = NoRec
  BY <1>2, <1>3 DEF KeysStay, Merging
<1>4. /\ k \notin Dropping => r.strays \subseteq R2
      /\ r.heard /\ r.ok /\ r.made # {} => r.n = Cardinality(r.made)
      /\ r.heard /\ ~r.ok /\ k \notin StopsHalfWay =>
            r.made = {} \/ (k = "sqlite" /\ \A i \in r.made : t[i] = NoRec)
  BY DEF ReportOK
<1> QED
  BY <1>2, <1>3, <1>4 DEF ReportOK

(* The part of a step that is about the table, and about Redis' index.     *)
TableMoves(p) ==
    /\ kindA' = kindA /\ opsDone' \in 0 .. MaxOps
    /\ TableOK(tbl', ackd', born', idx', raced', kindA)
    /\ born <= born' /\ raced \subseteq raced'
    /\ KeysStay(tbl, tbl', born, raced' \cup Unfound(p), kindA)
    /\ \A q \in AProcs \ {p} :
          acall[q].at = "put" /\ tbl'[acall[q].id] # tbl[acall[q].id] => acall[q].id \in raced'
(* What a step may do to the index of Redis.                               *)
IndexMoves(p) == kindA = "redis" =>
    /\ \A i \in Present(tbl') : \/ i \in Present(tbl) /\ (i \in idx => i \in idx')
                                \/ i \in raced' \cup idx'
    /\ acall[p].at = "sadd" => acall[p].id \in idx' \cup raced'

(* Caller p is now in call c and last heard r.                             *)
Moves(p, c, r) ==
    /\ acall' = [acall EXCEPT ![p] = c] /\ report' = [report EXCEPT ![p] = r]
    /\ TableMoves(p)
    /\ CallOK(c, tbl', born', raced', kindA)
    /\ ReportOK(r, tbl', born', raced', kindA)
    /\ kindA = "redis" =>
          /\ \A i \in Present(tbl') : \/ i \in Present(tbl) /\ (i \in idx => i \in idx')
                                      \/ i \in raced' \cup idx'
                                      \/ c.at = "sadd" /\ c.id = i
          /\ acall[p].at = "sadd" => acall[p].id \in idx' \cup raced'

(* A step of one call keeps the invariant if its own call, report and      *)
(* table do.                                                               *)
LEMMA MoveKeepsCore ==
    ASSUME AdaptersCore, NEW p \in AProcs, NEW c, NEW r, Moves(p, c, r)
    PROVE  AdaptersCore'
<1>0. TableMoves(p)
  BY DEF Moves
<1>1. /\ kindA' = kindA /\ kindA' \in Adapters /\ opsDone' \in 0 .. MaxOps
      /\ TableOK(tbl', ackd', born', idx', raced', kindA')
  BY <1>0 DEF AdaptersCore, TableMoves
<1>2. /\ acall' = [q \in AProcs |-> acall'[q]] /\ report' = [q \in AProcs |-> report'[q]]
      /\ acall'[p] = c /\ report'[p] = r
      /\ \A q \in AProcs \ {p} : acall'[q] = acall[q] /\ report'[q] = report[q]
  BY DEF AdaptersCore, Moves
<1>3. born \in Nat /\ born' \in Nat /\ born <= born' /\ raced \subseteq raced'
  BY <1>0 DEF AdaptersCore, TableOK, TableMoves
<1> DEFINE E == raced' \cup Unfound(p)
<1>4. KeysStay(tbl, tbl', born, E, kindA)
  BY <1>0 DEF TableMoves
<1>5. \A q \in AProcs \ {p} : \A i \in E : i \in raced' \/ ~Found(acall[q], i)
  BY DEF Unfound
<1> HIDE DEF E
<1>6. ASSUME NEW q \in AProcs PROVE CallOK(acall'[q], tbl', born', raced', kindA')
  <2>1. CASE q = p
    BY <1>1, <1>2, <2>1 DEF Moves
  <2>2. CASE q # p
    <3>1. CallOK(acall[q], tbl, born, raced, kindA)
      BY DEF AdaptersCore
    <3>2. acall[q].at = "put" /\ tbl'[acall[q].id] # tbl[acall[q].id] => acall[q].id \in raced'
      BY <1>0, <2>2 DEF TableMoves
    <3>3. \A i \in E : i \in raced' \/ ~Found(acall[q], i)
      BY <1>5, <2>2
    <3>4. CallOK(acall[q], tbl', born', raced', kindA)
      BY <1>3, <1>4, <3>1, <3>2, <3>3, CallKept
    <3> QED
      BY <1>1, <1>2, <2>2, <3>4
  <2> QED
    BY <2>1, <2>2
<1>7. ASSUME NEW q \in AProcs PROVE ReportOK(report'[q], tbl', born', raced', kindA')
  <2>1. CASE q = p
    BY <1>1, <1>2, <2>1 DEF Moves
  <2>2. CASE q # p
    <3>1. ReportOK(report[q], tbl, born, raced, kindA)
      BY DEF AdaptersCore
    <3>2. ReportOK(report[q], tbl', born', raced', kindA)
      BY <1>3, <1>4, <3>1, ReportKept
    <3> QED
      BY <1>1, <1>2, <2>2, <3>2
  <2> QED
    BY <2>1, <2>2
<1>8. RecordsAreListed'
  <2> SUFFICES ASSUME kindA = "redis", NEW i \in Present(tbl')
               PROVE  i \in idx' \cup raced' \/ \E q \in AProcs : acall'[q].at = "sadd" /\ acall'[q].id = i
    BY <1>1 DEF RecordsAreListed, Present
  <2>0. /\ \/ i \in Present(tbl) /\ (i \in idx => i \in idx')
           \/ i \in raced' \cup idx'
           \/ c.at = "sadd" /\ c.id = i
        /\ acall[p].at = "sadd" => acall[p].id \in idx' \cup raced'
    BY DEF Moves
  <2>1. CASE c.at = "sadd" /\ c.id = i
    BY <1>2, <2>1
  <2>2. CASE i \in Present(tbl) /\ (i \in idx => i \in idx')
    <3>1. i \in idx' \cup raced' \/ \E q \in AProcs : acall[q].at = "sadd" /\ acall[q].id = i
      BY <1>3, <2>2 DEF AdaptersCore, RecordsAreListed
    <3> QED
      BY <1>2, <2>0, <3>1
  <2> QED
    BY <2>0, <2>1, <2>2
<1> QED
  BY <1>1, <1>2, <1>6, <1>7, <1>8 DEF AdaptersCore

(* The idle call is as it should be.                                       *)
LEMMA IdleIsOK ==
    ASSUME NEW t, NEW b \in Nat, NEW R, NEW k
    PROVE  CallOK(Idle, t, b, R, k) /\ Idle \in CallShapes(b) /\ Idle.todo = {} /\ Idle.val = 0
           /\ Idle.then = "end" /\ Idle.id = 1
<1>1. Idle.at = "idle" /\ Idle.todo = {} /\ Idle.val = 0 /\ Idle.then = "end" /\ Idle.id = 1
  BY DEF Idle
<1>2. Idle \in CallShapes(b)
  BY DEF Idle, CallShapes, CallAts, Thens, Fields, AVals
<1> QED
  BY <1>1, <1>2 DEF CallOK

(* A call that ends with a report over the new table.                      *)
LEMMA AnswerKeeps ==
    ASSUME AdaptersCore, NEW p \in AProcs, NEW said, Answer(p, said),
           TableMoves(p), IndexMoves(p), ReportOK(said, tbl', born', raced', kindA)
    PROVE  AdaptersCore'
<1>1. born' \in Nat
  BY DEF TableMoves, TableOK
<1>2. CallOK(Idle, tbl', born', raced', kindA)
  BY <1>1, IdleIsOK
<1>3. Moves(p, Idle, said)
  BY <1>2 DEF Moves, IndexMoves, Answer
<1> QED
  BY <1>3, MoveKeepsCore

(* What is heard of a write is never more than what it did.                *)
LEMMA HeardReports ==
    ASSUME NEW said, NEW t, NEW b \in Nat, NEW R, NEW k, ReportOK(said, t, b, R, k), NEW s \in Heard(said)
    PROVE  ReportOK(s, t, b, R, k)
<1>1. CASE s = said
  BY <1>1
<1>2. CASE s = Unheard(said)
  <2>1. 0 \in 0 .. MaxRecs /\ said \in Reports(b)
    BY AdapterAssumption DEF AdapterAssumption, ReportOK
  <2>2. Unheard(said) \in Reports(b) /\ Unheard(said).heard = FALSE /\ Unheard(said).strays = said.strays
    BY <2>1 DEF Unheard, Reports
  <2> QED
    BY <1>2, <2>2 DEF ReportOK
<1> QED
  BY <1>1, <1>2 DEF Heard

(* A call that ends with an answer that may be lost.                       *)
LEMMA AnswersKeep ==
    ASSUME AdaptersCore, NEW p \in AProcs, NEW said, Replies(p, said) \/ RemoteReplies(p, said),
           TableMoves(p), IndexMoves(p), ReportOK(said, tbl', born', raced', kindA)
    PROVE  AdaptersCore'
<1>1. born' \in Nat
  BY DEF TableMoves, TableOK
<1>2. CASE Answer(p, said)
  BY <1>2, AnswerKeeps
<1>3. CASE Replies(p, said)
  <2>1. PICK s \in Heard(said) : Answer(p, s)
    BY <1>3 DEF Replies
  <2>2. ReportOK(s, tbl', born', raced', kindA)
    BY <1>1, HeardReports
  <2> QED
    BY <2>1, <2>2, AnswerKeeps
<1> QED
  BY <1>2, <1>3 DEF RemoteReplies

(* A call that goes on over the new table.                                 *)
LEMMA ContinueKeeps ==
    ASSUME AdaptersCore, NEW p \in AProcs, NEW c, Continue(p, c),
           TableMoves(p), c.at = "sadd" \/ IndexMoves(p),
           c.at = "sadd" /\ kindA = "redis" =>
              /\ \A i \in Present(tbl') : (i \in Present(tbl) /\ (i \in idx => i \in idx')) \/ c.id = i
              /\ acall[p].at # "sadd",
           CallOK(c, tbl', born', raced', kindA)
    PROVE  AdaptersCore'
<1>1. born \in Nat /\ born' \in Nat
  BY DEF TableMoves, TableOK, AdaptersCore
<1>2. ReportOK(report[p], tbl, born, raced, kindA) /\ born <= born' /\ raced \subseteq raced'
      /\ KeysStay(tbl, tbl', born, raced' \cup Unfound(p), kindA)
  BY DEF AdaptersCore, TableMoves
<1>3. ReportOK(report[p], tbl', born', raced', kindA)
  BY <1>1, <1>2, ReportKept
<1>4. report' = [report EXCEPT ![p] = report[p]]
  BY DEF Continue, AdaptersCore
<1>5. Moves(p, c, report[p])
  BY <1>3, <1>4 DEF Moves, IndexMoves, Continue
<1> QED
  BY <1>5, MoveKeepsCore

(* The table changes in one of three ways: not at all, by a new record, or *)
(* in the records some write names.                                        *)
LEMMA QuietTable ==
    ASSUME AdaptersCore, NEW p \in AProcs, kindA' = kindA, opsDone' \in 0 .. MaxOps,
           UNCHANGED <<tbl, born, idx, ackd, raced>>
    PROVE  TableMoves(p) /\ (acall[p].at # "sadd" => IndexMoves(p))
<1>1. TableOK(tbl', ackd', born', idx', raced', kindA)
  BY DEF AdaptersCore
<1>2. born <= born' /\ raced \subseteq raced'
  BY DEF AdaptersCore, TableOK
<1>3. KeysStay(tbl, tbl', born, raced' \cup Unfound(p), kindA)
  BY DEF KeysStay
<1> QED
  BY <1>1, <1>2, <1>3 DEF TableMoves, IndexMoves

(* What the invariant says of one call.                                    *)
LEMMA CallsHeld ==
    ASSUME AdaptersCore, NEW q \in AProcs, acall[q].at = "put"
    PROVE  /\ acall[q].id \in 1 .. born /\ acall[q].id \in AIds /\ kindA \in Merging
           /\ 1 .. born \subseteq AIds
<1>1. CallOK(acall[q], tbl, born, raced, kindA) /\ born \in 0 .. MaxRecs
  BY DEF AdaptersCore, TableOK
<1>2. 1 .. born \subseteq AIds
  BY <1>1, AdapterAssumption DEF AdapterAssumption, AIds
<1> QED
  BY <1>1, <1>2 DEF CallOK

(* A record that is inserted under a new number keeps the table and the    *)
(* other calls.                                                            *)
LEMMA InsertTable ==
    ASSUME AdaptersCore, NEW p \in AProcs, kindA' = kindA, opsDone' \in 0 .. MaxOps,
           NEW k \in AKeys, Insert(p, k), idx' \in {idx, idx \cup {born + 1}}
    PROVE  /\ TableMoves(p) /\ born' = born + 1 /\ born + 1 \in AIds /\ born' \in 0 .. MaxRecs
           /\ \A i \in Present(tbl') : i \in Present(tbl) \/ i = born + 1
           /\ acall[p].at # "sadd" /\ idx' = idx \cup {born + 1} => IndexMoves(p)
<1> USE DEF TableOK
<1>1. /\ TableOK(tbl, ackd, born, idx, raced, kindA) /\ born \in Nat /\ MaxRecs \in Nat
      /\ born < MaxRecs /\ born' = born + 1 /\ born + 1 \in AIds /\ born' \in 0 .. MaxRecs
      /\ 1 .. born \subseteq 1 .. born'
  BY AdapterAssumption DEF AdapterAssumption, AdaptersCore, Insert, AIds
<1>2. NewRec(k) \in Recs
  BY DEF NewRec, Recs, AVals
<1>3. /\ tbl' = [tbl EXCEPT ![born + 1] = NewRec(k)]
      /\ ackd' = [i \in AIds |-> IF i = born + 1 THEN tbl'[i] ELSE ackd[i]]
  BY DEF Insert, Ack
<1>4. raced' = raced
  <2>1. \A q \in AProcs : acall[q].at = "put" => acall[q].id # born + 1
    BY <1>1, CallsHeld
  <2> QED
    BY <2>1 DEF Insert, Ack, ReadBy
<1>5. /\ tbl' \in [AIds -> Recs \cup {NoRec}] /\ ackd' \in [AIds -> Recs \cup {NoRec}]
      /\ \A i \in AIds : i # born + 1 => tbl'[i] = tbl[i] /\ ackd'[i] = ackd[i]
      /\ tbl'[born + 1] = ackd'[born + 1]
  BY <1>1, <1>2, <1>3
<1>6. \A i \in Present(tbl') : i \in Present(tbl) \/ i = born + 1
  BY <1>5 DEF Present
<1>7. TableOK(tbl', ackd', born', idx', raced', kindA)
  <2>1. Present(tbl') \subseteq 1 .. born' /\ idx' \subseteq 1 .. born' /\ raced' \subseteq 1 .. born'
    BY <1>1, <1>4, <1>6
  <2> QED
    BY <1>1, <1>4, <1>5, <2>1
<1>8. KeysStay(tbl, tbl', born, raced' \cup Unfound(p), kindA)
  BY <1>1, <1>5 DEF KeysStay, AIds
<1>9. \A q \in AProcs : acall[q].at = "put" => tbl'[acall[q].id] = tbl[acall[q].id]
  BY <1>1, <1>5, CallsHeld
<1> QED
  BY <1>1, <1>4, <1>6, <1>7, <1>8, <1>9 DEF TableMoves, IndexMoves

(* So does a create that replaces the record of that number,               *)
LEMMA ReplaceTable ==
    ASSUME AdaptersCore, NEW p \in AProcs, kindA' = kindA, opsDone' \in 0 .. MaxOps,
           NEW k \in AKeys, NEW i, Replace(p, i, k), idx' \in {idx, idx \cup {i}}
    PROVE  /\ TableMoves(p) /\ i \in 1 .. born' /\ born' \in 0 .. MaxRecs
           /\ \A j \in Present(tbl') : j \in Present(tbl)
           /\ acall[p].at # "sadd" => IndexMoves(p)
<1> USE DEF TableOK
<1>1. /\ TableOK(tbl, ackd, born, idx, raced, kindA) /\ born \in Nat /\ born' = born /\ born \in 0 .. MaxRecs
      /\ i \in 1 .. born /\ i \in AIds /\ i \in Present(tbl) /\ kindA \in Merging
  BY DEF AdaptersCore, Replace, Present
<1>2. NewRec(k) \in Recs
  BY DEF NewRec, Recs, AVals
<1>3. /\ tbl' = [tbl EXCEPT ![i] = NewRec(k)] /\ ackd' = [ackd EXCEPT ![i] = NewRec(k)]
      /\ raced \subseteq raced' /\ \A j \in raced' : j \in raced \/ j = i
  BY DEF Replace
<1>4. /\ raced' \subseteq 1 .. born
      /\ \A q \in AProcs \ {p} : ReadBy(q, i) \/ Found(acall[q], i) => i \in raced'
  <2>1. \A q \in AProcs \ {p} : ReadBy(q, i) \/ Found(acall[q], i) => i \in raced'
    BY DEF Replace, Found
  <2> QED
    BY <1>1, <1>3, <2>1
<1>5. /\ tbl' \in [AIds -> Recs \cup {NoRec}] /\ ackd' \in [AIds -> Recs \cup {NoRec}]
      /\ \A j \in AIds : j # i => tbl'[j] = tbl[j] /\ ackd'[j] = ackd[j]
      /\ tbl'[i] = ackd'[i]
  BY <1>1, <1>2, <1>3
<1>6. \A j \in Present(tbl') : j \in Present(tbl)
  BY <1>1, <1>5 DEF Present
<1>7. TableOK(tbl', ackd', born', idx', raced', kindA)
  <2>1. Present(tbl') \subseteq 1 .. born' /\ raced' \subseteq 1 .. born'
    BY <1>1, <1>4, <1>6
  <2>4. idx' \subseteq 1 .. born'
    BY <1>1
  <2>2. \A j \in AIds \ raced' : tbl'[j] = ackd'[j]
    BY <1>1, <1>3, <1>4, <1>5
  <2>3. born' \in 0 .. MaxRecs /\ (kindA \notin Merging => raced' = {})
    BY <1>1
  <2> QED
    BY <1>5, <2>1, <2>2, <2>3, <2>4
<1>8. KeysStay(tbl, tbl', born, raced' \cup Unfound(p), kindA)
  <2>1. i \in raced' \cup Unfound(p)
    BY <1>1, <1>4 DEF Unfound
  <2>2. 1 .. born \subseteq AIds
    BY <1>1, AdapterAssumption DEF AdapterAssumption, AIds
  <2> QED
    BY <1>1, <1>5, <2>1, <2>2 DEF KeysStay
<1>9. \A q \in AProcs \ {p} :
          acall[q].at = "put" /\ tbl'[acall[q].id] # tbl[acall[q].id] => acall[q].id \in raced'
  <2>1. ASSUME NEW q \in AProcs \ {p}, acall[q].at = "put", tbl'[acall[q].id] # tbl[acall[q].id]
        PROVE  acall[q].id \in raced'
    <3>1. acall[q].id = i
      BY <1>5, <2>1, CallsHeld
    <3> QED
      BY <1>4, <2>1, <3>1 DEF ReadBy
  <2> QED
    BY <2>1
<1>10. raced \subseteq raced' /\ i \in 1 .. born' /\ born' \in 0 .. MaxRecs /\ born <= born'
  BY <1>1, <1>3
<1>11. TableMoves(p)
  BY <1>7, <1>8, <1>9, <1>10 DEF TableMoves
<1>12. acall[p].at # "sadd" => IndexMoves(p)
  BY <1>6 DEF IndexMoves
<1> QED
  BY <1>6, <1>10, <1>11, <1>12

(* and one that does the one or the other.                                 *)
LEMMA StoreTable ==
    ASSUME AdaptersCore, NEW p \in AProcs, kindA' = kindA, opsDone' \in 0 .. MaxOps,
           NEW k \in AKeys, NEW i, PutRecord(p, k, i), idx' \in {idx, idx \cup {i}}
    PROVE  /\ TableMoves(p) /\ i \in 1 .. born' /\ born' \in 0 .. MaxRecs /\ born' \in Nat /\ born' <= MaxRecs
           /\ \A j \in Present(tbl') : j \in Present(tbl) \/ j = i
           /\ acall[p].at # "sadd" /\ idx' = idx \cup {i} => IndexMoves(p)
<1>1. MaxRecs \in Nat /\ born \in Nat
  BY AdapterAssumption DEF AdapterAssumption, AdaptersCore, TableOK
<1>2. CASE i = born + 1 /\ Insert(p, k)
  <2>1. idx' \in {idx, idx \cup {born + 1}} /\ i = born + 1
    BY <1>2
  <2>2. /\ TableMoves(p) /\ born' = born + 1 /\ born + 1 \in AIds /\ born' \in 0 .. MaxRecs
        /\ \A j \in Present(tbl') : j \in Present(tbl) \/ j = born + 1
        /\ acall[p].at # "sadd" /\ idx' = idx \cup {born + 1} => IndexMoves(p)
    BY <1>2, <2>1, InsertTable
  <2> QED
    BY <1>1, <2>1, <2>2
<1>3. CASE Replace(p, i, k)
  <2>1. /\ TableMoves(p) /\ i \in 1 .. born' /\ born' \in 0 .. MaxRecs
        /\ \A j \in Present(tbl') : j \in Present(tbl)
        /\ acall[p].at # "sadd" => IndexMoves(p)
    BY <1>3, ReplaceTable
  <2> QED
    BY <1>1, <2>1
<1> QED
  BY <1>2, <1>3 DEF PutRecord

(* So do records that are overwritten or removed.                          *)
LEMMA WriteTable ==
    ASSUME AdaptersCore, NEW p \in AProcs, kindA' = kindA, opsDone' \in 0 .. MaxOps,
           NEW t \in [AIds -> Recs \cup {NoRec}], NEW S \in SUBSET AIds, Ack(p, t, S), born' = born,
           \A i \in AIds \ S : t[i] = tbl[i],
           \A i \in S : t[i] = NoRec \/ (tbl[i] # NoRec /\ t[i].key = tbl[i].key),
           idx' \subseteq idx, \A i \in idx \ idx' : t[i] = NoRec
    PROVE  TableMoves(p) /\ (acall[p].at # "sadd" => IndexMoves(p))
<1> USE DEF TableOK, ReadBy
<1>1. /\ TableOK(tbl, ackd, born, idx, raced, kindA) /\ born \in Nat /\ 1 .. born \subseteq AIds
  BY AdapterAssumption DEF AdapterAssumption, AdaptersCore, AIds
<1>2. /\ tbl' = t /\ ackd' = [i \in AIds |-> IF i \in S THEN t[i] ELSE ackd[i]]
      /\ raced' = raced \cup {i \in S : \E q \in AProcs \ {p} : acall[q].at = "put" /\ acall[q].id = i}
  BY DEF Ack
<1>3. raced \subseteq raced' /\ raced' \subseteq 1 .. born /\ (kindA \notin Merging => raced' = {})
  BY <1>1, <1>2, CallsHeld
<1>4. ackd' \in [AIds -> Recs \cup {NoRec}] /\ \A i \in AIds \ raced' : tbl'[i] = ackd'[i]
  BY <1>1, <1>2, <1>3
<1>5. Present(tbl') \subseteq Present(tbl)
  BY <1>1, <1>2 DEF Present
<1>6. TableOK(tbl', ackd', born', idx', raced', kindA)
  BY <1>1, <1>2, <1>3, <1>4, <1>5
<1>7. KeysStay(tbl, tbl', born, raced' \cup Unfound(p), kindA)
  BY <1>1, <1>2 DEF KeysStay
<1>8. \A q \in AProcs \ {p} :
          acall[q].at = "put" /\ tbl'[acall[q].id] # tbl[acall[q].id] => acall[q].id \in raced'
  BY <1>2, CallsHeld
<1>9. \A i \in Present(tbl') : i \in Present(tbl) /\ (i \in idx => i \in idx')
  BY <1>2, <1>5 DEF Present
<1> QED
  BY <1>1, <1>3, <1>6, <1>7, <1>8, <1>9 DEF TableMoves, IndexMoves

(* A step of a call other than RedisIndex.                                 *)
Steady(p) == kindA' = kindA /\ opsDone' \in 0 .. MaxOps /\ acall[p].at # "sadd"

(* The reports that claim no record.                                       *)
LEMMA PlainReports ==
    ASSUME NEW t, NEW b \in Nat, NEW R, NEW k
    PROVE  ReportOK(Said(FALSE, 0, {}), t, b, R, k) /\ ReportOK(Said(TRUE, 0, {}), t, b, R, k)
<1>1. 0 \in 0 .. MaxRecs
  BY AdapterAssumption DEF AdapterAssumption
<1>2. Said(FALSE, 0, {}) \in Reports(b) /\ Said(TRUE, 0, {}) \in Reports(b)
  BY <1>1 DEF Said, Reports
<1> QED
  BY <1>2 DEF ReportOK, Said

(* The report of a write that changed one record.                          *)
LEMMA WrittenReport ==
    ASSUME NEW t, NEW b \in Nat, NEW R, NEW k, NEW X \in SUBSET AIds, k \notin Dropping => X \subseteq R,
           NEW n \in 0 .. MaxRecs
    PROVE  ReportOK([Said(TRUE, n, {}) EXCEPT !.strays = X], t, b, R, k)
<1>1. [Said(TRUE, n, {}) EXCEPT !.strays = X] \in Reports(b)
  BY DEF Said, Reports
<1> QED
  BY <1>1 DEF ReportOK, Said

(* The report of a bulk write that counts what it changed.                 *)
LEMMA CountedReport ==
    ASSUME NEW t, NEW b \in Nat, NEW R, NEW k, NEW S \in SUBSET (1 .. b), b <= MaxRecs,
           NEW n, n = Cardinality(S)
    PROVE  ReportOK(Said(TRUE, n, S), t, b, R, k)
<1>1. n \in 0 .. MaxRecs
  <2>1. n \in 0 .. b
    BY NumbersAreCounted
  <2> QED
    BY <2>1, AdapterAssumption DEF AdapterAssumption
<1>2. Said(TRUE, n, S) \in Reports(b)
  BY <1>1 DEF Said, Reports
<1> QED
  BY <1>2 DEF ReportOK, Said

(* A call that is refused changes nothing,                                 *)
LEMMA RefusalKeeps ==
    ASSUME AdaptersCore, NEW p \in AProcs, Steady(p), Refuse(p)
    PROVE  AdaptersCore'
<1>0. Answer(p, Said(FALSE, 0, {})) /\ UNCHANGED <<tbl, born, idx, ackd, raced>>
  BY DEF Refuse
<1>1. TableMoves(p) /\ IndexMoves(p)
  BY <1>0, QuietTable DEF Steady
<1>2. born' \in Nat
  <2>1. born \in 0 .. MaxRecs
    BY DEF AdaptersCore, TableOK
  <2> QED
    BY <1>0, <2>1
<1>3. ReportOK(Said(FALSE, 0, {}), tbl', born', raced', kindA)
  BY <1>2, PlainReports
<1> QED
  BY <1>0, <1>1, <1>3, AnswerKeeps

(* and one that goes on over an unchanged table only has to be sound.      *)
LEMMA QuietContinue ==
    ASSUME AdaptersCore, NEW p \in AProcs, Steady(p), NEW c, Continue(p, c), c.at # "sadd",
           UNCHANGED <<tbl, born, idx, ackd, raced>>, CallOK(c, tbl, born, raced, kindA)
    PROVE  AdaptersCore'
<1>1. TableMoves(p) /\ IndexMoves(p)
  BY QuietTable DEF Steady
<1>2. CallOK(c, tbl', born', raced', kindA)
  OBVIOUS
<1> QED
  BY <1>1, <1>2, ContinueKeeps

(* create in one statement.                                                *)
LEMMA CreateRecordKeeps ==
    ASSUME AdaptersCore, NEW p \in AProcs, Steady(p), NEW k \in AKeys, CreateRecord(p, k)
    PROVE  AdaptersCore'
<1>1. ASSUME NEW i \in AIds, PutRecord(p, k, i), idx' = idx \cup {i}, Replies(p, Said(TRUE, 1, {i}))
      PROVE  AdaptersCore'
  <2>1. TableMoves(p) /\ IndexMoves(p) /\ i \in 1 .. born' /\ born' \in Nat /\ born' <= MaxRecs
    BY <1>1, StoreTable DEF Steady
  <2>2. Cardinality({i}) = 1 /\ {i} \in SUBSET (1 .. born')
    BY <2>1, FS_Singleton
  <2>3. ReportOK(Said(TRUE, 1, {i}), tbl', born', raced', kindA)
    BY <2>1, <2>2, CountedReport
  <2> QED
    BY <1>1, <2>1, <2>3, AnswersKeep
<1>2. CASE Refuse(p)
  BY <1>2, RefusalKeeps
<1> QED
  BY <1>1, <1>2 DEF CreateRecord

(* create that reads back what it inserted.                                *)
LEMMA InsertToReadBackKeeps ==
    ASSUME AdaptersCore, NEW p \in AProcs, Steady(p), NEW k \in AKeys, kindA \in {"mysql", "sqlite"},
           InsertToReadBack(p, k)
    PROVE  AdaptersCore'
<1> DEFINE c == [Idle EXCEPT !.at = "readback", !.id = born + 1]
<1>1. CASE Insert(p, k) /\ idx' = idx \cup {born'} /\ Continue(p, c)
  <2>1. born' = born + 1
    BY <1>1 DEF Insert
  <2>2. idx' \in {idx, idx \cup {born + 1}} /\ idx' = idx \cup {born + 1}
    BY <1>1, <2>1
  <2>3. TableMoves(p) /\ IndexMoves(p) /\ born + 1 \in AIds /\ born' \in 0 .. MaxRecs
    BY <1>1, <2>2, InsertTable DEF Steady
  <2>4. born + 1 \in Nat /\ born + 1 \in 1 .. born'
    BY <2>1, <2>3 DEF AIds
  <2>5. c.at = "readback" /\ c.id = born + 1 /\ c.then = "end" /\ c \in CallShapes(born')
    BY <2>4 DEF Idle, CallShapes, CallAts, Thens, Fields, AVals
  <2> HIDE DEF c
  <2>6. CallOK(c, tbl', born', raced', kindA)
    BY <2>4, <2>5 DEF CallOK
  <2> QED
    BY <1>1, <2>3, <2>5, <2>6, ContinueKeeps
<1>2. CASE Refuse(p)
  BY <1>2, RefusalKeeps
<1> QED
  BY <1>1, <1>2 DEF InsertToReadBack

(* A call that goes on keeps what it was asked.                            *)
LEMMA GoingIsSteady ==
    ASSUME AdaptersCore, NEW p \in AProcs, NEW at, at # "sadd", Going(p, at), UNCHANGED adapterRest
    PROVE  Steady(p)
BY DEF Going, Steady, adapterRest, AdaptersCore

(* The answer to a create that reads back what it inserted.                *)
LEMMA ReadBackKeeps ==
    ASSUME AdaptersCore, NEW p \in AProcs, ReadBack(p)
    PROVE  AdaptersCore'
<1> DEFINE i == acall[p].id
<1>1. Steady(p) /\ UNCHANGED <<tbl, born, idx, ackd, raced>> /\ acall[p].at = "readback"
  BY DEF ReadBack, Steady, Going, adapterRest, AdaptersCore
<1>2. TableMoves(p) /\ IndexMoves(p)
  BY <1>1, QuietTable DEF Steady
<1>3. i \in 1 .. born /\ kindA \in {"mysql", "sqlite"}
  BY <1>1 DEF AdaptersCore, CallOK
<1>4. born \in Nat /\ born <= MaxRecs /\ 0 \in 0 .. MaxRecs
  <2>1. born \in 0 .. MaxRecs
    BY DEF AdaptersCore, TableOK
  <2> QED
    BY <2>1, AdapterAssumption DEF AdapterAssumption
<1>5. CASE Replies(p, Said(TRUE, 1, {i}))
  <2>1. Cardinality({i}) = 1 /\ {i} \in SUBSET (1 .. born)
    BY <1>3, FS_Singleton
  <2>2. ReportOK(Said(TRUE, 1, {i}), tbl, born, raced, kindA)
    BY <1>4, <2>1, CountedReport
  <2> QED
    BY <1>1, <1>2, <1>5, <2>2, AnswersKeep
<1>6. CASE tbl[i] = NoRec /\ Answer(p, Said(FALSE, 0, {i}))
  <2> DEFINE said == Said(FALSE, 0, {i})
  <2>1. said \in Reports(born) /\ said.ok = FALSE /\ said.made = {i} /\ said.strays = {}
    BY <1>3, <1>4 DEF Said, Reports
  <2>2. kindA = "mysql" => kindA \in StopsHalfWay
    BY DEF StopsHalfWay
  <2>3. Answer(p, said)
    BY <1>6
  <2> HIDE DEF said
  <2>4. ReportOK(said, tbl, born, raced, kindA)
    BY <1>3, <1>6, <2>1, <2>2 DEF ReportOK
  <2> QED
    BY <1>1, <1>2, <2>3, <2>4, AnswerKeeps
<1> QED
  BY <1>5, <1>6 DEF ReadBack

(***************************************************************************)
(* Redis                                                                   *)
(***************************************************************************)
(* SET, by a call that will add the record to the index.                   *)
LEMMA RedisSetKeeps ==
    ASSUME AdaptersCore, NEW p \in AProcs, Steady(p), NEW k \in AKeys, NEW c \in CallShapes(born),
           c.then \in {"end", "many", "last"}, c.then # "last" => c.todo = {}, c.then # "end" => c.key \in AKeys,
           c.val <= Cardinality(c.todo), RedisSet(p, k, c)
    PROVE  AdaptersCore'
<1>1. PICK i \in AIds \ c.todo : PutRecord(p, k, i) /\ Continue(p, [c EXCEPT !.at = "sadd", !.id = i])
  BY DEF RedisSet
<1>2. idx' = idx /\ kindA = "redis" /\ acall[p].at # "sadd"
  BY DEF RedisSet, Steady
<1>3. /\ TableMoves(p) /\ i \in 1 .. born' /\ born' \in Nat
      /\ \A j \in Present(tbl') : j \in Present(tbl) \/ j = i
  BY <1>1, <1>2, StoreTable DEF Steady
<1> DEFINE d == [c EXCEPT !.at = "sadd", !.id = i]
<1>4. d.at = "sadd" /\ d.id = i /\ d.todo = c.todo /\ d.val = c.val /\ d.then = c.then /\ d.key = c.key
      /\ d \in CallShapes(born')
  <2>1. 1 .. born \subseteq 1 .. born' /\ i \in Nat
    BY <1>3 DEF TableMoves, AdaptersCore, TableOK
  <2>2. d \in CallShapes(born)
    BY <2>1 DEF CallShapes, CallAts
  <2>3. d.at = "sadd" /\ d.id = i /\ d.todo = c.todo /\ d.val = c.val /\ d.then = c.then /\ d.key = c.key
    BY DEF CallShapes
  <2> HIDE DEF d
  <2> QED
    BY <2>1, <2>2, <2>3 DEF CallShapes
<1>5. Continue(p, d)
  BY <1>1
<1> HIDE DEF d
<1>6. CallOK(d, tbl', born', raced', kindA)
  BY <1>1, <1>2, <1>3, <1>4 DEF CallOK
<1>7. \A j \in Present(tbl') : (j \in Present(tbl) /\ (j \in idx => j \in idx')) \/ d.id = j
  BY <1>2, <1>3, <1>4
<1> QED
  BY <1>2, <1>3, <1>4, <1>5, <1>6, <1>7, ContinueKeeps

(* SADD, or its failure, changes nothing else.                             *)
LEMMA RedisIndexTable ==
    ASSUME AdaptersCore, NEW p \in AProcs, kindA' = kindA, opsDone' = opsDone, tbl' = tbl, ackd' = ackd,
           born' = born, acall[p].at = "sadd",
           \/ idx' = idx \cup {acall[p].id} /\ raced' = raced
           \/ idx' = idx /\ raced' = raced \cup {acall[p].id}
    PROVE  /\ TableMoves(p) /\ IndexMoves(p) /\ acall[p].id \in 1 .. born /\ kindA = "redis"
           /\ born \in Nat /\ born <= MaxRecs /\ born \in 0 .. MaxRecs
<1>1. acall[p].id \in 1 .. born /\ kindA = "redis" /\ born \in 0 .. MaxRecs /\ born \in Nat /\ born <= MaxRecs
  BY AdapterAssumption DEF AdapterAssumption, AdaptersCore, TableOK, CallOK
<1>2. TableOK(tbl', ackd', born', idx', raced', kindA)
  BY <1>1 DEF AdaptersCore, TableOK, Merging
<1>3. KeysStay(tbl, tbl', born, raced' \cup Unfound(p), kindA)
  BY DEF KeysStay
<1>4. TableMoves(p)
  BY <1>1, <1>2, <1>3 DEF TableMoves, AdaptersCore
<1>5. IndexMoves(p)
  BY DEF IndexMoves, Present
<1> QED
  BY <1>1, <1>4, <1>5

(* What a bulk create counts is what it heard of.                          *)
LEMMA ReportedCounts ==
    ASSUME NEW c, NEW i, NEW heard \in BOOLEAN, NEW t, NEW b \in Nat, b <= MaxRecs, NEW R, NEW k, NEW b0 \in Nat,
           c \in CallShapes(b0), c.todo \subseteq 1 .. b, i \in 1 .. b, i \notin c.todo,
           c.val <= Cardinality(c.todo)
    PROVE  ReportOK(Reported(c, i, heard), t, b, R, k)
<1> DEFINE S == c.todo \cup {i}
           r == Reported(c, i, heard)
           n == c.val + (IF heard THEN 1 ELSE 0)
<1>1. S \in SUBSET (1 .. b) /\ c.val \in Nat /\ Cardinality(c.todo) \in 0 .. b
  <2>1. Cardinality(c.todo) \in 0 .. b
    BY NumbersAreCounted
  <2> QED
    BY <2>1 DEF CallShapes, AVals
<1>2. Cardinality(S) = Cardinality(c.todo) + 1 /\ Cardinality(S) \in 0 .. b
  <2>1. IsFiniteSet(c.todo)
    BY NumbersAreCounted
  <2> QED
    BY <1>1, <2>1, FS_AddElement, NumbersAreCounted
<1>3. n \in 0 .. MaxRecs /\ (heard /\ c.val = Cardinality(c.todo) => n = Cardinality(S))
  BY <1>1, <1>2, AdapterAssumption DEF AdapterAssumption
<1> HIDE DEF S, n
<1>4. /\ r.ok = (heard \/ c.then = "last") /\ r.n = n /\ r.made = S /\ r.strays = {}
      /\ r.heard = (heard /\ c.val = Cardinality(c.todo)) /\ r \in Reports(b)
  BY <1>1, <1>3 DEF Reported, Said, Reports, S, n
<1> HIDE DEF r
<1>5. ReportOK(r, t, b, R, k)
  BY <1>3, <1>4 DEF ReportOK
<1> QED
  BY <1>5 DEF r

LEMMA RedisIndexKeeps ==
    ASSUME AdaptersCore, NEW p \in AProcs, RedisIndex(p)
    PROVE  AdaptersCore'
<1> DEFINE c == acall[p]
<1>1. PICK heard \in BOOLEAN :
         /\ \/ heard /\ idx' = idx \cup {c.id} /\ UNCHANGED raced
            \/ raced' = raced \cup {c.id} /\ UNCHANGED idx
         /\ IF c.then = "many"
            THEN Continue(p, [c EXCEPT !.at = "many", !.then = "last", !.id = 1, !.todo = {c.id},
                                       !.val = IF heard THEN 1 ELSE 0])
            ELSE Answer(p, Reported(c, c.id, heard))
  BY DEF RedisIndex
<1>2. /\ kindA' = kindA /\ opsDone' = opsDone /\ tbl' = tbl /\ ackd' = ackd /\ born' = born
      /\ c.at = "sadd"
  BY DEF RedisIndex, Going, adapterRest
<1>3. /\ TableMoves(p) /\ IndexMoves(p) /\ c.id \in 1 .. born /\ kindA = "redis"
      /\ born \in Nat /\ born <= MaxRecs /\ born \in 0 .. MaxRecs
  BY <1>1, <1>2, RedisIndexTable
<1>4. /\ c \in CallShapes(born) /\ c.todo \subseteq 1 .. born /\ c.id \notin c.todo
      /\ c.val <= Cardinality(c.todo) /\ (c.then # "end" => c.key \in AKeys)
  BY <1>2 DEF AdaptersCore, CallOK, CallShapes
<1>5. CASE c.then # "many"
  <2>1. ReportOK(Reported(c, c.id, heard), tbl', born', raced', kindA)
    BY <1>2, <1>3, <1>4, ReportedCounts
  <2> QED
    BY <1>1, <1>3, <1>5, <2>1, AnswerKeeps
<1>6. CASE c.then = "many"
  <2> DEFINE n == IF heard THEN 1 ELSE 0
             d == [c EXCEPT !.at = "many", !.then = "last", !.id = 1, !.todo = {c.id}, !.val = n]
  <2>1. Cardinality({c.id}) = 1
    BY FS_Singleton
  <2>2. n \in AVals /\ n <= 1
    BY DEF AVals
  <2>3. Continue(p, d)
    BY <1>1, <1>6
  <2> HIDE DEF n
  <2>4. d \in CallShapes(born') /\ d.at = "many" /\ d.then = "last" /\ d.todo = {c.id} /\ d.val = n /\ d.key \in AKeys
    BY <1>2, <1>3, <1>4, <1>6, <2>2 DEF CallShapes, CallAts, Thens
  <2> HIDE DEF d
  <2>5. CallOK(d, tbl', born', raced', kindA)
    BY <1>3, <2>1, <2>2, <2>4 DEF CallOK
  <2> QED
    BY <1>3, <2>3, <2>4, <2>5, ContinueKeeps
<1> QED
  BY <1>5, <1>6

(* An update of one record, on behalf of which something is said.          *)
LEMMA FieldIsSet ==
    ASSUME NEW r \in Recs, NEW f \in Fields, NEW v \in AVals
    PROVE  [r EXCEPT ![f] = v] \in Recs /\ [r EXCEPT ![f] = v].key = r.key
BY DEF Recs, Fields, AVals

(* An update that reports what it changed.                                 *)
LEMMA UpdateSayingKeeps ==
    ASSUME AdaptersCore, NEW p \in AProcs, Steady(p), NEW i \in 1 .. born,
           NEW f \in Fields, NEW v \in AVals, NEW said, UpdateSaying(p, i, f, v, said),
           tbl[i] # NoRec => ReportOK(said, tbl, born, raced, kindA)
    PROVE  AdaptersCore'
<1>1. CASE /\ tbl[i] # NoRec /\ Replies(p, said) /\ Ack(p, SetField(i, f, v), {i})
           /\ born' = born /\ idx' = idx
  <2> DEFINE t == SetField(i, f, v)
  <2>1. i \in AIds /\ tbl \in [AIds -> Recs \cup {NoRec}] /\ tbl[i] \in Recs /\ born \in Nat
    BY <1>1, AdapterAssumption DEF AdapterAssumption, AdaptersCore, TableOK, AIds
  <2>2. [tbl[i] EXCEPT ![f] = v] \in Recs /\ [tbl[i] EXCEPT ![f] = v].key = tbl[i].key
    BY <2>1, FieldIsSet
  <2>3. t = [tbl EXCEPT ![i] = [tbl[i] EXCEPT ![f] = v]]
    BY DEF SetField
  <2>4. t \in [AIds -> Recs \cup {NoRec}] /\ t[i].key = tbl[i].key /\ \A j \in AIds \ {i} : t[j] = tbl[j]
    BY <2>1, <2>2, <2>3
  <2> HIDE DEF t
  <2>5. /\ Ack(p, t, {i}) /\ {i} \in SUBSET AIds
        /\ \A j \in {i} : t[j] = NoRec \/ (tbl[j] # NoRec /\ t[j].key = tbl[j].key)
        /\ idx' \subseteq idx /\ \A j \in idx \ idx' : t[j] = NoRec
    BY <1>1, <2>1, <2>4 DEF t
  <2>6. TableMoves(p) /\ IndexMoves(p)
    BY <1>1, <2>4, <2>5, WriteTable DEF Steady
  <2>7. /\ KeysStay(tbl, tbl', born, raced' \cup Unfound(p), kindA) /\ raced \subseteq raced'
        /\ ReportOK(said, tbl, born, raced, kindA)
    BY <1>1, <2>6 DEF TableMoves
  <2>8. ReportOK(said, tbl', born', raced', kindA)
    BY <1>1, <2>1, <2>7, ReportKept
  <2> QED
    BY <1>1, <2>6, <2>8, AnswersKeep
<1>2. CASE Refuse(p)
  BY <1>2, RefusalKeeps
<1> QED
  BY <1>1, <1>2 DEF UpdateSaying, Matched

(* update in one statement.                                                *)
LEMMA UpdateRecordKeeps ==
    ASSUME AdaptersCore, NEW p \in AProcs, Steady(p), NEW i \in 1 .. born,
           NEW f \in Fields, NEW v \in AVals, UpdateRecord(p, i, f, v)
    PROVE  AdaptersCore'
<1>1. born \in Nat /\ 1 \in 0 .. MaxRecs
  BY AdapterAssumption DEF AdapterAssumption, AdaptersCore, TableOK
<1>2. ReportOK(Said(TRUE, 1, {}), tbl, born, raced, kindA)
  <2>1. Said(TRUE, 1, {}) \in Reports(born)
    BY <1>1 DEF Said, Reports
  <2> QED
    BY <2>1 DEF ReportOK, Said
<1> QED
  BY <1>2, UpdateSayingKeeps DEF UpdateRecord

(* A remove, of a record and maybe its place in the index.                 *)
LEMMA RemovalTable ==
    ASSUME AdaptersCore, NEW p \in AProcs, Steady(p), NEW i \in 1 .. born,
           Ack(p, [tbl EXCEPT ![i] = NoRec], {i}), idx' \in {idx, idx \ {i}}, born' = born
    PROVE  TableMoves(p) /\ IndexMoves(p)
<1> DEFINE t == [tbl EXCEPT ![i] = NoRec]
<1>1. i \in AIds /\ tbl \in [AIds -> Recs \cup {NoRec}] /\ born \in Nat /\ 0 \in 0 .. MaxRecs
  BY AdapterAssumption DEF AdapterAssumption, AdaptersCore, TableOK, AIds
<1>2. t \in [AIds -> Recs \cup {NoRec}] /\ t[i] = NoRec /\ \A j \in AIds \ {i} : t[j] = tbl[j]
  BY <1>1
<1>3. Ack(p, t, {i})
  OBVIOUS
<1> HIDE DEF t
<1>4. {i} \in SUBSET AIds /\ \A j \in {i} : t[j] = NoRec \/ (tbl[j] # NoRec /\ t[j].key = tbl[j].key)
  <2>1. {i} \in SUBSET AIds
    BY <1>1
  <2>2. \A j \in {i} : j = i
    OBVIOUS
  <2> QED
    BY <1>2, <2>1, <2>2
<1>5. idx' \subseteq idx /\ \A j \in idx \ idx' : t[j] = NoRec
  <2>1. CASE idx' = idx
    BY <2>1
  <2>2. CASE idx' = idx \ {i}
    BY <1>2, <2>2
  <2> QED
    BY <2>1, <2>2
<1> QED
  BY <1>2, <1>3, <1>4, <1>5, WriteTable DEF Steady

(* remove by number.                                                       *)
LEMMA RemoveRecordKeeps ==
    ASSUME AdaptersCore, NEW p \in AProcs, Steady(p), NEW i \in 1 .. born, RemoveRecord(p, i)
    PROVE  AdaptersCore'
<1>1. CASE /\ RemoteReplies(p, Said(TRUE, 0, {})) /\ Ack(p, [tbl EXCEPT ![i] = NoRec], {i})
           /\ idx' = idx \ {i} /\ born' = born
  <2>1. TableMoves(p) /\ IndexMoves(p)
    BY <1>1, RemovalTable
  <2>2. born' \in Nat
    BY <1>1 DEF AdaptersCore, TableOK
  <2>3. ReportOK(Said(TRUE, 0, {}), tbl', born', raced', kindA)
    BY <2>2, PlainReports
  <2> QED
    BY <1>1, <2>1, <2>3, AnswersKeep
<1>2. CASE Refuse(p)
  BY <1>2, RefusalKeeps
<1> QED
  BY <1>1, <1>2 DEF RemoveRecord

(* Redis removes the record,                                               *)
LEMMA RedisDelKeeps ==
    ASSUME AdaptersCore, NEW p \in AProcs, Steady(p), kindA = "redis", NEW i \in 1 .. born,
           NEW c \in CallShapes(born), c.then \in {"end", "delEach"}, RedisDel(p, i, c)
    PROVE  AdaptersCore'
<1> DEFINE d == [c EXCEPT !.at = "srem", !.id = i]
<1>1. Continue(p, d) /\ Ack(p, [tbl EXCEPT ![i] = NoRec], {i}) /\ born' = born /\ idx' = idx
  BY DEF RedisDel
<1>2. TableMoves(p) /\ IndexMoves(p)
  BY <1>1, RemovalTable
<1>3. d \in CallShapes(born') /\ d.at = "srem" /\ d.id = i /\ d.then = c.then
  <2>1. i \in Nat
    BY DEF AdaptersCore, TableOK
  <2> QED
    BY <1>1, <2>1 DEF CallShapes, CallAts
<1> HIDE DEF d
<1>4. CallOK(d, tbl', born', raced', kindA)
  BY <1>1, <1>3 DEF CallOK
<1> QED
  BY <1>1, <1>2, <1>3, <1>4, ContinueKeeps

(* and a call that is one of many goes on with the next.                   *)
LEMMA EndsKeep ==
    ASSUME AdaptersCore, NEW p \in AProcs, NEW said, EndsOrResumes(p, said),
           acall[p].then \in {"end", "updEach", "delEach"},
           TableMoves(p), IndexMoves(p),
           acall[p].then = "end" => ReportOK(said, tbl', born', raced', kindA)
    PROVE  AdaptersCore'
<1> DEFINE c == acall[p]
           d == Resumed(c)
<1>1. CASE c.then = "end"
  BY <1>1, AnswerKeeps DEF EndsOrResumes
<1>2. CASE c.then # "end"
  <2>1. c \in CallShapes(born) /\ born \in Nat /\ born' \in Nat /\ born <= born' /\ Continue(p, d)
        /\ kindA = "redis"
    BY <1>2 DEF EndsOrResumes, AdaptersCore, CallOK, TableOK, TableMoves
  <2>2. 1 .. born \subseteq 1 .. born'
    BY <2>1
  <2>3. d \in CallShapes(born') /\ d.at \in {"updEach", "delEach"} /\ d.then = "end"
    BY <1>2, <2>1, <2>2 DEF Resumed, CallShapes, CallAts, Thens
  <2> HIDE DEF d
  <2>4. CallOK(d, tbl', born', raced', kindA)
    BY <2>1, <2>3 DEF CallOK
  <2> QED
    BY <2>1, <2>3, <2>4, ContinueKeeps
<1> QED
  BY <1>1, <1>2

(* then takes the number out of the index, in a command of its own.        *)
LEMMA RedisUnindexKeeps ==
    ASSUME AdaptersCore, NEW p \in AProcs, RedisUnindex(p)
    PROVE  AdaptersCore'
<1> DEFINE i == acall[p].id
           said == Said(TRUE, 0, {})
<1>1. /\ kindA' = kindA /\ opsDone' = opsDone /\ tbl' = tbl /\ ackd' = ackd /\ born' = born
      /\ acall[p].at = "srem"
  BY DEF RedisUnindex, Going, adapterRest
<1>2. /\ i \in 1 .. born /\ kindA = "redis" /\ born \in 0 .. MaxRecs /\ born \in Nat
      /\ acall[p].then \in {"end", "updEach", "delEach"} /\ Steady(p)
  BY <1>1 DEF AdaptersCore, TableOK, CallOK, Steady
<1>3. ReportOK(said, tbl', born', raced', kindA)
  BY <1>1, <1>2, PlainReports
<1> HIDE DEF said
<1>4. CASE /\ idx' = idx \ {i} /\ raced' = raced \cup ({i} \cap Present(tbl)) /\ EndsOrResumes(p, said)
  <2>1. TableOK(tbl', ackd', born', idx', raced', kindA)
    BY <1>1, <1>2, <1>4 DEF AdaptersCore, TableOK, Merging
  <2>2. KeysStay(tbl, tbl', born, raced' \cup Unfound(p), kindA)
    BY <1>1 DEF KeysStay
  <2>3. TableMoves(p)
    BY <1>1, <1>2, <1>4, <2>1, <2>2 DEF TableMoves, AdaptersCore
  <2>4. IndexMoves(p)
    BY <1>1, <1>4 DEF IndexMoves, Present
  <2> QED
    BY <1>2, <1>3, <1>4, <2>3, <2>4, EndsKeep
<1>5. CASE UNCHANGED <<idx, raced>> /\ \E s \in Heard(said) : EndsOrResumes(p, s)
  <2>1. PICK s \in Heard(said) : EndsOrResumes(p, s)
    BY <1>5
  <2>2. TableMoves(p) /\ IndexMoves(p)
    BY <1>1, <1>2, <1>5, QuietTable DEF Steady
  <2>3. ReportOK(s, tbl', born', raced', kindA)
    BY <1>1, <1>2, <1>3, HeardReports
  <2> QED
    BY <1>2, <2>1, <2>2, <2>3, EndsKeep
<1> QED
  BY <1>4, <1>5 DEF RedisUnindex, said

(***************************************************************************)
(* Read, merge, put                                                        *)
(***************************************************************************)
(* A call that has read the record it is going to change.                  *)
LEMMA HoldsTheReadKeeps ==
    ASSUME AdaptersCore, NEW p \in AProcs, Steady(p), NEW i \in 1 .. born, kindA \in Merging,
           NEW c \in CallShapes(born), c.then \in {"end", "updEach"}, tbl[i] # NoRec,
           c.then = "updEach" => kindA = "redis",
           c.then = "end" /\ kindA \notin Dropping => c.key \in {AnyKey, tbl[i].key} \/ i \in raced,
           Continue(p, HoldsTheRead(c, i)), UNCHANGED <<tbl, born, idx, ackd, raced>>
    PROVE  AdaptersCore'
<1> DEFINE d == HoldsTheRead(c, i)
<1>1. i \in AIds /\ i \in Nat /\ tbl[i] \in Recs /\ born \in Nat
  BY AdapterAssumption DEF AdapterAssumption, AdaptersCore, TableOK, AIds
<1>2. d \in CallShapes(born) /\ d.at = "put" /\ d.id = i /\ d.snap = tbl[i] /\ d.key = c.key /\ d.then = c.then
  BY <1>1 DEF HoldsTheRead, CallShapes, CallAts
<1> HIDE DEF d
<1>3. CallOK(d, tbl, born, raced, kindA)
  BY <1>1, <1>2 DEF CallOK
<1> QED
  BY <1>2, <1>3, QuietContinue DEF d

LEMMA ReadToMergeKeeps ==
    ASSUME AdaptersCore, NEW p \in AProcs, Steady(p), NEW i \in 1 .. born, kindA \in Merging,
           NEW f \in Fields, NEW v \in AVals, NEW k \in AKeys \cup {AnyKey}, ReadToMerge(p, k, i, f, v),
           tbl[i] # NoRec /\ kindA \notin Dropping => k \in {AnyKey, tbl[i].key} \/ i \in raced
    PROVE  AdaptersCore'
<1> DEFINE c == [Idle EXCEPT !.key = k, !.fld = f, !.val = v]
<1>1. CASE tbl[i] # NoRec /\ Continue(p, HoldsTheRead(c, i)) /\ UNCHANGED <<tbl, born, idx, ackd, raced>>
  <2>1. born \in Nat
    BY DEF AdaptersCore, TableOK
  <2>2. Idle \in CallShapes(born) /\ Idle.then = "end"
    BY <2>1, IdleIsOK
  <2>3. c \in CallShapes(born)
    BY <2>2 DEF CallShapes
  <2>4. c.then = "end" /\ c.key = k
    BY <2>2 DEF CallShapes
  <2> HIDE DEF c
  <2> QED
    BY <1>1, <2>3, <2>4, HoldsTheReadKeeps
<1>2. CASE Refuse(p)
  BY <1>2, RefusalKeeps
<1> QED
  BY <1>1, <1>2 DEF ReadToMerge

(* The stores that merge a read record and put it back whole.              *)
LEMMA PutMergedKeeps ==
    ASSUME AdaptersCore, NEW p \in AProcs, PutMerged(p)
    PROVE  AdaptersCore'
<1> DEFINE c == acall[p]
           merged == [c.snap EXCEPT ![c.fld] = c.val]
           strays == {c.id} \ Hits([tbl EXCEPT ![c.id] = c.snap], c.key)
<1>1. /\ Steady(p) /\ born' = born /\ idx' = idx /\ c.at = "put"
      /\ tbl' = [tbl EXCEPT ![c.id] = merged]
      /\ ackd' = [ackd EXCEPT ![c.id] = IF ackd[c.id] = NoRec THEN NoRec ELSE [ackd[c.id] EXCEPT ![c.fld] = c.val]]
      /\ raced' = raced \cup (IF \E q \in AProcs \ {p} : acall[q].at = "put" /\ acall[q].id = c.id
                              THEN {c.id} ELSE {})
      /\ \E s \in Heard([Said(TRUE, 1, {}) EXCEPT !.strays = strays]) : EndsOrResumes(p, s)
  BY DEF PutMerged, Going, Steady, adapterRest, AdaptersCore, ReadBy
<1>2. /\ c.id \in 1 .. born /\ c.id \in AIds /\ kindA \in Merging
      /\ c.snap \in Recs /\ c.snap # NoRec /\ c.fld \in Fields /\ c.val \in AVals
      /\ c.then \in {"end", "updEach"}
      /\ kindA \notin Dropping /\ c.then = "end" => c.key \in {AnyKey, c.snap.key} \/ c.id \in raced
      /\ c.id \notin raced => tbl[c.id] = c.snap
  BY <1>1, CallsHeld DEF AdaptersCore, CallOK, CallShapes
<1>3. merged \in Recs /\ merged.key = c.snap.key
  BY <1>2, FieldIsSet
<1>4. ackd[c.id] # NoRec => [ackd[c.id] EXCEPT ![c.fld] = c.val] \in Recs
  BY <1>2, FieldIsSet DEF AdaptersCore, TableOK
<1>5. TableOK(tbl, ackd, born, idx, raced, kindA) /\ born \in Nat /\ 1 \in 0 .. MaxRecs
  BY <1>2, AdapterAssumption DEF AdapterAssumption, AdaptersCore, TableOK
<1>6. /\ tbl'[c.id] = merged /\ \A j \in AIds \ {c.id} : tbl'[j] = tbl[j] /\ ackd'[j] = ackd[j]
      /\ tbl' \in [AIds -> Recs \cup {NoRec}] /\ ackd' \in [AIds -> Recs \cup {NoRec}]
      /\ ackd[c.id] # NoRec => ackd'[c.id] = [ackd[c.id] EXCEPT ![c.fld] = c.val]
  BY <1>1, <1>2, <1>3, <1>4, <1>5 DEF TableOK
<1>7. TableOK(tbl', ackd', born', idx', raced', kindA)
  <2>1. ASSUME c.id \notin raced' PROVE tbl'[c.id] = ackd'[c.id]
    <3>1. c.id \notin raced /\ ackd[c.id] = c.snap
      BY <1>1, <1>2, <1>5, <2>1 DEF TableOK
    <3> QED
      BY <1>2, <1>6, <3>1
  <2>2. \A i \in AIds \ raced' : tbl'[i] = ackd'[i]
    BY <1>1, <1>5, <1>6, <2>1 DEF TableOK
  <2>3. Present(tbl') \subseteq 1 .. born /\ raced' \subseteq 1 .. born
    BY <1>1, <1>2, <1>5, <1>6 DEF TableOK, Present
  <2> HIDE DEF c
  <2> QED
    BY <1>1, <1>2, <1>5, <1>6, <2>2, <2>3 DEF TableOK
<1>8. KeysStay(tbl, tbl', born, raced' \cup Unfound(p), kindA)
  <2>1. 1 .. born \subseteq AIds
    BY <1>1, CallsHeld
  <2>2. c.id \notin raced => tbl[c.id] # NoRec /\ tbl'[c.id].key = tbl[c.id].key
    BY <1>2, <1>3, <1>6
  <2>3. raced \subseteq raced'
    BY <1>1
  <2> HIDE DEF c
  <2> QED
    BY <1>2, <1>6, <2>1, <2>2, <2>3 DEF KeysStay
<1>9. TableMoves(p)
  <2>1. \A q \in AProcs \ {p} :
          acall[q].at = "put" /\ tbl'[acall[q].id] # tbl[acall[q].id] => acall[q].id \in raced'
    BY <1>1, <1>6, CallsHeld
  <2>2. born <= born' /\ raced \subseteq raced' /\ kindA' = kindA /\ opsDone' \in 0 .. MaxOps
    BY <1>1, <1>5 DEF Steady
  <2> QED
    BY <1>7, <1>8, <2>1, <2>2 DEF TableMoves
<1>10. IndexMoves(p)
  <2>1. \A i \in Present(tbl') : i \in Present(tbl) \/ i = c.id
    BY <1>6 DEF Present
  <2>2. c.id \in Present(tbl) \/ c.id \in raced
    BY <1>2 DEF Present
  <2> QED
    BY <1>1, <2>1, <2>2 DEF IndexMoves
<1>11. strays \in SUBSET AIds /\ (kindA \notin Dropping /\ c.then = "end" => strays \subseteq raced')
  <2> DEFINE t == [tbl EXCEPT ![c.id] = c.snap]
  <2>1. t[c.id] = c.snap
    BY <1>2, <1>5 DEF TableOK
  <2>2. c.key \in {AnyKey, c.snap.key} => c.id \in Hits(t, c.key)
    BY <1>2, <2>1 DEF Hits, Present
  <2>3. raced \subseteq raced'
    BY <1>1
  <2> QED
    BY <1>2, <2>2, <2>3
<1>12. born' \in Nat
  BY <1>1, <1>5
<1> HIDE DEF strays
<1>13. PICK s \in Heard([Said(TRUE, 1, {}) EXCEPT !.strays = strays]) : EndsOrResumes(p, s)
  BY <1>1
<1>14. ASSUME c.then = "end" PROVE ReportOK(s, tbl', born', raced', kindA)
  <2>1. ReportOK([Said(TRUE, 1, {}) EXCEPT !.strays = strays], tbl', born', raced', kindA)
    BY <1>5, <1>11, <1>12, <1>14, WrittenReport
  <2> QED
    BY <1>12, <2>1, HeardReports
<1> QED
  BY <1>2, <1>9, <1>10, <1>13, <1>14, EndsKeep

(* A later call of an operation that fails and changes nothing.            *)
LEMMA LaterCallFailsKeeps ==
    ASSUME AdaptersCore, NEW p \in AProcs, LaterCallFails(p)
    PROVE  AdaptersCore'
<1>1. /\ Steady(p) /\ acall[p].at \in {"put", "delete", "found"} /\ EndsOrResumes(p, Said(FALSE, 0, {}))
      /\ UNCHANGED <<tbl, born, idx, ackd, raced>>
  BY DEF LaterCallFails, Steady, adapterRest, AdaptersCore
<1>2. acall[p].then \in {"end", "updEach"} /\ born \in Nat
  BY <1>1 DEF AdaptersCore, CallOK, TableOK
<1>3. TableMoves(p) /\ IndexMoves(p)
  BY <1>1, QuietTable DEF Steady
<1>4. ReportOK(Said(FALSE, 0, {}), tbl', born', raced', kindA)
  BY <1>1, <1>2, PlainReports
<1> QED
  BY <1>1, <1>2, <1>3, <1>4, EndsKeep

(***************************************************************************)
(* The bulk operations                                                     *)
(***************************************************************************)
(* A bulk create between its two records.                                  *)
LEMMA ManyCall ==
    ASSUME NEW k, NEW l \in AKeys, NEW b \in Nat
    PROVE  LET c == TwoRecords(k, l)
           IN  /\ c \in CallShapes(b) /\ c.at = "many" /\ c.key = l /\ c.then = "last" /\ c.id = 1
               /\ c.todo = {} /\ c.val = 0
<1>1. Idle \in CallShapes(b) /\ Idle.todo = {} /\ Idle.val = 0 /\ Idle.id = 1
  BY IdleIsOK
<1> QED
  BY <1>1 DEF TwoRecords, CallShapes, CallAts, Thens

LEMMA ManyCallIsOK ==
    ASSUME NEW b \in Nat, NEW c \in CallShapes(b), c.at = "many", c.key \in AKeys, c.then = "last",
           c.val <= Cardinality(c.todo), kindA # "supabase", NEW t, NEW R
    PROVE  CallOK(c, t, b, R, kindA)
BY DEF CallOK

(* The first record of a bulk create.                                      *)
LEMMA InsertFirstKeeps ==
    ASSUME AdaptersCore, NEW p \in AProcs, Steady(p), NEW k \in AKeys, NEW l \in AKeys,
           kindA # "supabase", InsertFirst(p, k, l)
    PROVE  AdaptersCore'
<1>1. ASSUME NEW i \in AIds, PutRecord(p, k, i), idx' = idx \cup {i},
             \/ Continue(p, [TwoRecords(k, l) EXCEPT !.todo = {i}, !.val = 1])
             \/ AFaults /\ Answer(p, Unheard(Said(TRUE, 1, {i})))
             \/ Continue(p, [TwoRecords(k, l) EXCEPT !.todo = {i}])
      PROVE  AdaptersCore'
  <2>1. TableMoves(p) /\ IndexMoves(p) /\ i \in 1 .. born' /\ born' \in Nat /\ born' <= MaxRecs
    BY <1>1, StoreTable DEF Steady
  <2>2. Cardinality({i}) = 1 /\ {i} \in SUBSET (1 .. born')
    BY <2>1, FS_Singleton
  <2>3. /\ TwoRecords(k, l) \in CallShapes(born') /\ TwoRecords(k, l).at = "many"
        /\ TwoRecords(k, l).key = l /\ TwoRecords(k, l).then = "last" /\ TwoRecords(k, l).val = 0
    BY <2>1, ManyCall
  <2>4. ASSUME NEW c \in CallShapes(born'), c.at = "many", c.key = l, c.then = "last", c.val <= 1, c.todo = {i},
               Continue(p, c)
        PROVE  AdaptersCore'
    <3>1. CallOK(c, tbl', born', raced', kindA)
      BY <2>1, <2>2, <2>4, ManyCallIsOK
    <3> QED
      BY <2>1, <2>4, <3>1, ContinueKeeps
  <2>5. CASE Continue(p, [TwoRecords(k, l) EXCEPT !.todo = {i}, !.val = 1])
    <3> DEFINE c == [TwoRecords(k, l) EXCEPT !.todo = {i}, !.val = 1]
    <3>1. 1 \in AVals
      BY DEF AVals
    <3>2. c \in CallShapes(born') /\ c.at = "many" /\ c.key = l /\ c.then = "last" /\ c.val = 1 /\ c.todo = {i}
      BY <2>2, <2>3, <3>1 DEF CallShapes
    <3>3. Continue(p, c) /\ c.val <= 1
      BY <2>5, <3>2
    <3> HIDE DEF c
    <3> QED
      BY <2>4, <3>2, <3>3
  <2>6. CASE Continue(p, [TwoRecords(k, l) EXCEPT !.todo = {i}])
    <3> DEFINE c == [TwoRecords(k, l) EXCEPT !.todo = {i}]
    <3>1. c \in CallShapes(born') /\ c.at = "many" /\ c.key = l /\ c.then = "last" /\ c.val = 0 /\ c.todo = {i}
      BY <2>2, <2>3 DEF CallShapes
    <3>2. Continue(p, c) /\ c.val <= 1
      BY <2>6, <3>1
    <3> HIDE DEF c
    <3> QED
      BY <2>4, <3>1, <3>2
  <2>7. CASE AFaults /\ Answer(p, Unheard(Said(TRUE, 1, {i})))
    <3>1. ReportOK(Said(TRUE, 1, {i}), tbl', born', raced', kindA)
      BY <2>1, <2>2, CountedReport
    <3>2. Unheard(Said(TRUE, 1, {i})) \in Heard(Said(TRUE, 1, {i}))
      BY <2>7 DEF Heard
    <3>3. ReportOK(Unheard(Said(TRUE, 1, {i})), tbl', born', raced', kindA)
      BY <2>1, <3>1, <3>2, HeardReports
    <3> QED
      BY <2>1, <2>7, <3>3, AnswerKeeps
  <2> QED
    BY <1>1, <2>5, <2>6, <2>7
<1>2. CASE Refuse(p)
  BY <1>2, RefusalKeeps
<1>3. CASE Continue(p, TwoRecords(k, l)) /\ UNCHANGED <<tbl, born, idx, ackd, raced>>
  <2>1. born \in Nat /\ Cardinality({}) = 0
    BY FS_EmptySet DEF AdaptersCore, TableOK
  <2> DEFINE c == TwoRecords(k, l)
  <2>2. c \in CallShapes(born) /\ c.at = "many" /\ c.key = l /\ c.then = "last" /\ c.val = 0 /\ c.todo = {}
    BY <2>1, ManyCall
  <2>3. Continue(p, c)
    BY <1>3
  <2> HIDE DEF c
  <2>4. CallOK(c, tbl, born, raced, kindA)
    BY <2>1, <2>2, ManyCallIsOK
  <2> QED
    BY <1>3, <2>2, <2>3, <2>4, QuietContinue
<1> QED
  BY <1>1, <1>2, <1>3 DEF InsertFirst

(* and the first of Redis.                                                 *)
LEMMA RedisCreateManyKeeps ==
    ASSUME AdaptersCore, NEW p \in AProcs, Steady(p), NEW k \in AKeys, NEW l \in AKeys, RedisCreateMany(p, k, l)
    PROVE  AdaptersCore'
<1> DEFINE c == TwoRecords(k, l)
           d == [c EXCEPT !.then = "many"]
<1>1. born \in Nat /\ Cardinality({}) = 0 /\ kindA # "supabase"
  BY FS_EmptySet DEF AdaptersCore, TableOK, RedisCreateMany
<1>2. c \in CallShapes(born) /\ c.at = "many" /\ c.key = l /\ c.then = "last" /\ c.val = 0 /\ c.todo = {}
  BY <1>1, ManyCall
<1>3. CASE RedisSet(p, k, d)
  <2>1. d \in CallShapes(born) /\ d.then = "many" /\ d.key = l /\ d.val = 0 /\ d.todo = {}
    <3> HIDE DEF c
    <3> QED
      BY <1>2 DEF CallShapes, Thens
  <2> HIDE DEF d
  <2> QED
    BY <1>1, <1>3, <2>1, RedisSetKeeps
<1>4. CASE Continue(p, c) /\ UNCHANGED <<tbl, born, idx, ackd, raced>>
  <2> HIDE DEF c
  <2>1. CallOK(c, tbl, born, raced, kindA)
    BY <1>1, <1>2, ManyCallIsOK
  <2> QED
    BY <1>2, <1>4, <2>1, QuietContinue
<1> QED
  BY <1>3, <1>4 DEF RedisCreateMany

(* The second record of a createMany.                                      *)
LEMMA InsertSecondKeeps ==
    ASSUME AdaptersCore, NEW p \in AProcs, InsertSecond(p)
    PROVE  AdaptersCore'
<1> DEFINE c == acall[p]
<1>1. Steady(p) /\ c.at = "many"
  BY DEF InsertSecond, Going, Steady, AdaptersCore
<1>2. /\ c.key \in AKeys /\ c.then = "last" /\ c.val <= Cardinality(c.todo) /\ c \in CallShapes(born)
      /\ c.todo \in SUBSET (1 .. born) /\ c.val \in Nat /\ born \in Nat /\ born \in 0 .. MaxRecs /\ MaxRecs \in Nat
  BY <1>1, AdapterAssumption DEF AdapterAssumption, AdaptersCore, TableOK, CallOK, CallShapes, AVals
<1>3. ASSUME NEW i \in AIds \ c.todo, PutRecord(p, c.key, i), idx' = idx \cup {i},
             NEW said \in Finished(c, i), Answer(p, said)
      PROVE  AdaptersCore'
  <2>1. /\ TableMoves(p) /\ IndexMoves(p) /\ i \in 1 .. born' /\ born' \in Nat /\ born' <= MaxRecs
    BY <1>1, <1>2, <1>3, StoreTable DEF Steady
  <2>2. c.todo \subseteq 1 .. born'
    BY <1>2, <2>1 DEF TableMoves
  <2>3. ASSUME NEW heard \in BOOLEAN PROVE ReportOK(Reported(c, i, heard), tbl', born', raced', kindA)
    BY <1>2, <1>3, <2>1, <2>2, ReportedCounts
  <2>4. \/ said = Reported(c, i, TRUE) \/ said = Reported(c, i, FALSE)
        \/ said \in Heard(Reported(c, i, TRUE))
    BY DEF Finished, Heard
  <2>5. ReportOK(said, tbl', born', raced', kindA)
    BY <2>1, <2>3, <2>4, HeardReports
  <2> QED
    BY <1>3, <2>1, <2>5, AnswerKeeps
<1>4. CASE RedisSet(p, c.key, c)
  BY <1>1, <1>2, <1>4, RedisSetKeeps
<1>5. CASE Answer(p, Ended(c)) /\ UNCHANGED <<tbl, born, idx, ackd, raced>>
  <2>1. TableMoves(p) /\ IndexMoves(p)
    BY <1>1, <1>5, QuietTable DEF Steady
  <2>2. Cardinality(c.todo) \in 0 .. born
    BY <1>2, NumbersAreCounted
  <2>3. CASE kindA \in StopsHalfWay
    <3> DEFINE r == Said(FALSE, 0, c.todo)
    <3>1. r \in Reports(born) /\ r.ok = FALSE /\ r.strays = {} /\ Ended(c) = r
      BY <1>2, <2>3 DEF Said, Reports, Ended
    <3> HIDE DEF r
    <3>2. ReportOK(r, tbl, born, raced, kindA)
      BY <2>3, <3>1 DEF ReportOK
    <3> QED
      BY <1>5, <2>1, <3>1, <3>2, AnswerKeeps
  <2>4. CASE kindA \notin StopsHalfWay
    <3> DEFINE whole == (c.val = Cardinality(c.todo))
               r == [Said(TRUE, c.val, c.todo) EXCEPT !.heard = whole]
    <3>0. c.val \in 0 .. MaxRecs
      BY <1>2, <2>2
    <3>1. r \in Reports(born) /\ r.ok = TRUE /\ r.strays = {} /\ r.n = c.val /\ r.made = c.todo /\ r.heard = whole
      BY <1>2, <3>0 DEF Said, Reports
    <3>2. Ended(c) = r
      BY <2>4 DEF Ended
    <3> HIDE DEF r
    <3>3. ReportOK(r, tbl, born, raced, kindA)
      BY <3>1 DEF ReportOK
    <3> QED
      BY <1>5, <2>1, <3>2, <3>3, AnswerKeeps
  <2> QED
    BY <2>3, <2>4
<1> QED
  BY <1>3, <1>4, <1>5 DEF InsertSecond

(* Two records in one statement.                                           *)
LEMMA SupabaseCreateManyKeeps ==
    ASSUME AdaptersCore, NEW p \in AProcs, Steady(p), NEW k \in AKeys, NEW l \in AKeys,
           SupabaseCreateMany(p, k, l)
    PROVE  AdaptersCore'
<1>1. CASE /\ born + 2 <= MaxRecs /\ born' = born + 2 /\ idx' = idx \cup {born + 1, born + 2}
           /\ Replies(p, Said(TRUE, 2, {born + 1, born + 2}))
           /\ Ack(p, [tbl EXCEPT ![born + 1] = NewRec(k), ![born + 2] = NewRec(l)], {born + 1, born + 2})
  <2> DEFINE new == {born + 1, born + 2}
             t == [tbl EXCEPT ![born + 1] = NewRec(k), ![born + 2] = NewRec(l)]
  <2>1. /\ TableOK(tbl, ackd, born, idx, raced, kindA) /\ born \in Nat /\ MaxRecs \in Nat
        /\ new \subseteq AIds /\ new \subseteq 1 .. born' /\ 1 .. born \subseteq 1 .. born'
        /\ born' \in 0 .. MaxRecs /\ born' \in Nat /\ \A i \in 1 .. born : i \notin new
        /\ 1 .. born \subseteq AIds
    BY <1>1, AdapterAssumption DEF AdapterAssumption, AdaptersCore, TableOK, AIds
  <2>2. NewRec(k) \in Recs /\ NewRec(l) \in Recs
    BY DEF NewRec, Recs, AVals
  <2>3. t \in [AIds -> Recs \cup {NoRec}] /\ \A i \in AIds \ new : t[i] = tbl[i]
    BY <2>1, <2>2 DEF TableOK
  <2> HIDE DEF t
  <2>4. /\ tbl' = t /\ ackd' = [i \in AIds |-> IF i \in new THEN t[i] ELSE ackd[i]]
        /\ raced' = raced \cup {i \in new : \E q \in AProcs \ {p} : acall[q].at = "put" /\ acall[q].id = i}
    BY <1>1 DEF Ack, ReadBy, t
  <2> HIDE DEF new
  <2>5. raced' = raced
    <3>1. \A q \in AProcs : acall[q].at = "put" => acall[q].id \notin new
      BY <2>1, CallsHeld
    <3> QED
      BY <2>4, <3>1
  <2>6. /\ ackd' \in [AIds -> Recs \cup {NoRec}]
        /\ \A i \in AIds \ raced' : tbl'[i] = ackd'[i]
    BY <2>1, <2>3, <2>4, <2>5 DEF TableOK
  <2>7. \A i \in Present(tbl') : i \in Present(tbl) \/ i \in new
    BY <2>3, <2>4 DEF Present
  <2>8. idx' = idx \cup new
    BY <1>1 DEF new
  <2>9. Present(tbl') \subseteq 1 .. born' /\ idx' \subseteq 1 .. born' /\ raced' \subseteq 1 .. born'
    BY <2>1, <2>5, <2>7, <2>8 DEF TableOK
  <2>10. TableOK(tbl', ackd', born', idx', raced', kindA)
    BY <2>1, <2>3, <2>4, <2>5, <2>6, <2>9 DEF TableOK
  <2>11. KeysStay(tbl, tbl', born, raced' \cup Unfound(p), kindA)
    BY <2>1, <2>3, <2>4 DEF KeysStay
  <2>12. \A q \in AProcs : acall[q].at = "put" => tbl'[acall[q].id] = tbl[acall[q].id]
    BY <2>1, <2>3, <2>4, CallsHeld
  <2>13. TableMoves(p)
    BY <1>1, <2>1, <2>5, <2>10, <2>11, <2>12 DEF TableMoves, Steady
  <2>14. IndexMoves(p)
    BY <2>7, <2>8 DEF IndexMoves, Steady
  <2>15. Cardinality(new) = 2
    <3>1. IsFiniteSet({born + 1}) /\ Cardinality({born + 1}) = 1
      BY FS_Singleton
    <3>2. new = {born + 1} \cup {born + 2} /\ born + 2 \notin {born + 1}
      BY <2>1 DEF new
    <3> QED
      BY <3>1, <3>2, FS_AddElement
  <2>16. new \in SUBSET (1 .. born') /\ born' <= MaxRecs
    BY <2>1
  <2>17. ReportOK(Said(TRUE, 2, new), tbl', born', raced', kindA)
    BY <2>1, <2>15, <2>16, CountedReport
  <2>18. Replies(p, Said(TRUE, 2, new))
    BY <1>1 DEF new
  <2> QED
    BY <2>13, <2>14, <2>17, <2>18, AnswersKeep
<1>2. CASE Refuse(p)
  BY <1>2, RefusalKeeps
<1> QED
  BY <1>1, <1>2 DEF SupabaseCreateMany

(* One statement that writes what its filter matches.                      *)
LEMMA HitsAreBorn ==
    ASSUME AdaptersCore, NEW k
    PROVE  /\ Hits(tbl, k) \in SUBSET (1 .. born) /\ Hits(tbl, k) \in SUBSET AIds
           /\ \A i \in Hits(tbl, k) : tbl[i] \in Recs /\ tbl[i] # NoRec /\ k \in {AnyKey, tbl[i].key}
           /\ Cardinality(Hits(tbl, k)) \in 0 .. MaxRecs
<1>1. /\ Hits(tbl, k) \in SUBSET (1 .. born) /\ Hits(tbl, k) \in SUBSET AIds
      /\ \A i \in Hits(tbl, k) : tbl[i] \in Recs /\ tbl[i] # NoRec /\ k \in {AnyKey, tbl[i].key}
  BY DEF AdaptersCore, TableOK, Hits, Present
<1>2. Cardinality(Hits(tbl, k)) \in 0 .. MaxRecs
  BY <1>1, NumbersAreCounted, AdapterAssumption DEF AdapterAssumption, AIds
<1> QED
  BY <1>1, <1>2

(* What a bulk write leaves of the table.                                  *)
LEMMA UpdatedOrDeleted ==
    ASSUME AdaptersCore, NEW S \in SUBSET AIds, NEW f \in Fields, NEW v \in AVals,
           \A i \in S : tbl[i] # NoRec,
           NEW t, t \in {Updated(S, f, v), Deleted(S)}
    PROVE  /\ t \in [AIds -> Recs \cup {NoRec}]
           /\ \A i \in AIds \ S : t[i] = tbl[i]
           /\ \A i \in S : t[i] = NoRec \/ (tbl[i] # NoRec /\ t[i].key = tbl[i].key)
<1>1. tbl \in [AIds -> Recs \cup {NoRec}]
  BY DEF AdaptersCore, TableOK
<1>2. CASE t = Updated(S, f, v)
  <2>1. \A i \in S : tbl[i] \in Recs
    BY <1>1
  <2>2. \A i \in S : [tbl[i] EXCEPT ![f] = v] \in Recs /\ [tbl[i] EXCEPT ![f] = v].key = tbl[i].key
    BY <2>1, FieldIsSet
  <2>3. t = [i \in AIds |-> IF i \in S THEN [tbl[i] EXCEPT ![f] = v] ELSE tbl[i]]
    BY <1>2 DEF Updated
  <2> QED
    BY <1>1, <2>2, <2>3
<1>3. CASE t = Deleted(S)
  <2>1. t = [i \in AIds |-> IF i \in S THEN NoRec ELSE tbl[i]]
    BY <1>3 DEF Deleted
  <2> QED
    BY <1>1, <2>1
<1> QED
  BY <1>2, <1>3

(* A bulk write of the records that match.                                 *)
LEMMA WriteHitsKeeps ==
    ASSUME AdaptersCore, NEW p \in AProcs, Steady(p), NEW k, NEW f \in Fields, NEW v \in AVals,
           NEW t, t \in {Updated(Hits(tbl, k), f, v), Deleted(Hits(tbl, k))},
           WriteHits(p, k, Hits(tbl, k), t)
    PROVE  AdaptersCore'
<1> DEFINE S == Hits(tbl, k)
<1>1. /\ S \in SUBSET AIds /\ Cardinality(S) \in 0 .. MaxRecs
      /\ \A i \in S : tbl[i] # NoRec
  BY HitsAreBorn
<1>2. /\ RemoteReplies(p, [Said(TRUE, Cardinality(S), {}) EXCEPT !.strays = S \ S])
      /\ Ack(p, t, S) /\ born' = born /\ idx' = idx
  BY DEF WriteHits
<1>3. t \in {Updated(S, f, v), Deleted(S)}
  OBVIOUS
<1> HIDE DEF S
<1>4. /\ t \in [AIds -> Recs \cup {NoRec}]
      /\ \A i \in AIds \ S : t[i] = tbl[i]
      /\ \A i \in S : t[i] = NoRec \/ (tbl[i] # NoRec /\ t[i].key = tbl[i].key)
  BY <1>1, <1>3, UpdatedOrDeleted
<1>5. idx' \subseteq idx /\ \A i \in idx \ idx' : t[i] = NoRec
  BY <1>2
<1>6. TableMoves(p) /\ IndexMoves(p)
  BY <1>1, <1>2, <1>4, <1>5, WriteTable DEF Steady
<1>7. born' \in Nat /\ S \ S \subseteq raced' /\ S \ S \in SUBSET AIds
  BY <1>2 DEF AdaptersCore, TableOK
<1>8. ReportOK([Said(TRUE, Cardinality(S), {}) EXCEPT !.strays = S \ S], tbl', born', raced', kindA)
  BY <1>1, <1>7, WrittenReport
<1> QED
  BY <1>2, <1>6, <1>8, AnswersKeep

(* Supabase lists, then deletes.                                           *)
LEMMA ListingCall ==
    ASSUME NEW b \in Nat, NEW c \in CallShapes(b), c.at \in {"delete", "updEach", "delEach"},
           c.at = "delete" => c.then = "end", NEW t, NEW R, NEW k,
           c.at # "delete" \/ c.then \in {"updEach", "delEach"} => k = "redis"
    PROVE  CallOK(c, t, b, R, k)
BY DEF CallOK

(* Supabase counts what it is about to delete,                             *)
LEMMA SupabaseCountKeeps ==
    ASSUME AdaptersCore, NEW p \in AProcs, Steady(p), NEW k \in AKeys \cup {AnyKey}, SupabaseCount(p, k)
    PROVE  AdaptersCore'
<1>1. PICK counted \in {Hits(tbl, k)} \cup (IF AFaults THEN {{}} ELSE {}) :
         Continue(p, [Idle EXCEPT !.at = "delete", !.key = k, !.todo = counted])
  BY DEF SupabaseCount
<1>2. UNCHANGED <<tbl, born, idx, ackd, raced>>
  BY DEF SupabaseCount
<1> DEFINE c == [Idle EXCEPT !.at = "delete", !.key = k, !.todo = counted]
<1>3. born \in Nat /\ counted \in SUBSET (1 .. born)
  BY HitsAreBorn DEF AdaptersCore, TableOK
<1>4. Idle \in CallShapes(born) /\ Idle.then = "end"
  BY <1>3, IdleIsOK
<1>5. c \in CallShapes(born) /\ c.at = "delete" /\ c.then = "end"
  BY <1>3, <1>4 DEF CallShapes, CallAts
<1>6. Continue(p, c)
  BY <1>1
<1> HIDE DEF c
<1>7. CallOK(c, tbl, born, raced, kindA)
  BY <1>3, <1>5, ListingCall
<1> QED
  BY <1>2, <1>5, <1>6, <1>7, QuietContinue

(* and deletes what matches by then.                                       *)
LEMMA SupabaseDeleteManyKeeps ==
    ASSUME AdaptersCore, NEW p \in AProcs, SupabaseDeleteMany(p)
    PROVE  AdaptersCore'
<1> DEFINE c == acall[p]
           S == Hits(tbl, c.key)
           t == Deleted(S)
<1>1. /\ Steady(p) /\ Replies(p, Said(TRUE, Cardinality(c.todo), {})) /\ Ack(p, t, S)
      /\ born' = born /\ idx' = idx
  BY DEF SupabaseDeleteMany, Going, Steady, adapterRest, AdaptersCore
<1>2. /\ S \in SUBSET AIds /\ \A i \in S : tbl[i] # NoRec
  BY HitsAreBorn
<1>3. "x" \in Fields /\ 0 \in AVals /\ t \in {Updated(S, "x", 0), Deleted(S)}
  BY DEF Fields, AVals
<1> HIDE DEF S, t
<1>4. /\ t \in [AIds -> Recs \cup {NoRec}]
      /\ \A i \in AIds \ S : t[i] = tbl[i]
      /\ \A i \in S : t[i] = NoRec \/ (tbl[i] # NoRec /\ t[i].key = tbl[i].key)
  BY <1>2, <1>3, UpdatedOrDeleted
<1>5. idx' \subseteq idx /\ \A i \in idx \ idx' : t[i] = NoRec
  BY <1>1
<1>6. TableMoves(p) /\ IndexMoves(p)
  BY <1>1, <1>2, <1>4, <1>5, WriteTable DEF Steady
<1>7. Cardinality(c.todo) \in 0 .. MaxRecs
  <2>1. c.todo \in SUBSET (1 .. born) /\ born \in Nat /\ born \in 0 .. MaxRecs
    BY DEF AdaptersCore, TableOK, CallOK, CallShapes
  <2>2. Cardinality(c.todo) \in 0 .. born
    BY <2>1, NumbersAreCounted
  <2> QED
    BY <2>1, <2>2, AdapterAssumption DEF AdapterAssumption
<1>8. ReportOK(Said(TRUE, Cardinality(c.todo), {}), tbl', born', raced', kindA)
  <2>1. Said(TRUE, Cardinality(c.todo), {}) \in Reports(born')
    BY <1>7 DEF Said, Reports
  <2> QED
    BY <2>1 DEF ReportOK, Said
<1> QED
  BY <1>1, <1>6, <1>8, AnswersKeep

(* Redis lists a page, then writes record after record.                    *)
LEMMA PagesAreBorn ==
    ASSUME AdaptersCore, NEW k
    PROVE  /\ RedisBulkList(k) \in SUBSET (1 .. born)
           /\ AFindFirst(tbl, k) \in SUBSET (1 .. born)
           /\ \A i, j \in AFindFirst(tbl, k) : i = j
           /\ kindA \notin Dropping => \A i \in AFindFirst(tbl, k) : k \in {AnyKey, tbl[i].key}
           /\ \A i \in AFindFirst(tbl, k) : tbl[i] # NoRec
<1>1. /\ born \in Nat /\ Hits(tbl, k) \in SUBSET (1 .. born) /\ Hits(tbl, AnyKey) \in SUBSET (1 .. born)
      /\ \A i \in Hits(tbl, k) : k \in {AnyKey, tbl[i].key} /\ tbl[i] # NoRec
      /\ \A i \in Hits(tbl, AnyKey) : tbl[i] # NoRec
  BY HitsAreBorn DEF AdaptersCore, TableOK
<1>2. Hits(tbl, k) \cap idx \in SUBSET (1 .. born)
  BY <1>1
<1>3. DefaultPage * DefaultLimit \in Nat /\ DefaultLimit \in Nat /\ DefaultPage * 1 = 1
      /\ Before(1, 1) = 0
  BY AdapterAssumption DEF AdapterAssumption, DefaultPage, Before
<1>4. RedisBulkList(k) \in SUBSET (1 .. born)
  <2>1. Slice(Hits(tbl, k) \cap idx, DefaultPage * DefaultLimit, DefaultLimit) \subseteq Hits(tbl, k) \cap idx
    BY <1>1, <1>2, <1>3, FirstIsOne
  <2> QED
    BY <1>2, <2>1 DEF RedisBulkList, RedisList
<1>5. ASSUME NEW S \in SUBSET (1 .. born), NEW o \in Nat
      PROVE  Slice(S, o, 1) \in SUBSET S /\ \A i, j \in Slice(S, o, 1) : i = j
  <2>1. 1 \in Nat
    OBVIOUS
  <2> QED
    BY <1>1, <2>1, FirstIsOne
<1>6. \/ AFindFirst(tbl, k) = {}
      \/ AFindFirst(tbl, k) = Slice(Hits(tbl, k), 0, 1)
      \/ AFindFirst(tbl, k) = Slice(Hits(tbl, k) \cap idx, 1, 1)
      \/ kindA \in Dropping /\ AFindFirst(tbl, k) = Slice(Hits(tbl, AnyKey), 1, 1)
  <2>1. CASE kindA \in {"sql", "mysql", "sqlite", "mongo"}
    BY <2>1 DEF AFindFirst, SqlFindFirst, SqliteFindFirst, MongoFindFirst
  <2>2. CASE kindA = "supabase"
    BY <1>3, <2>2 DEF AFindFirst, SupabaseFindFirst, SupabaseList
  <2>3. CASE kindA = "redis"
    BY <1>3, <2>3 DEF AFindFirst, RedisFindFirst, RedisList
  <2>4. CASE kindA = "elastic"
    BY <1>3, <2>4 DEF AFindFirst, ElasticFindFirst, ElasticList, Dropping
  <2>5. CASE kindA = "surreal"
    BY <1>3, <2>5 DEF AFindFirst, SurrealFindFirst, SurrealList, Dropping
  <2>6. CASE kindA \notin {"sql", "mysql", "sqlite", "mongo", "supabase", "redis", "elastic", "surreal"}
    BY <2>6 DEF AFindFirst
  <2> QED
    BY <2>1, <2>2, <2>3, <2>4, <2>5, <2>6
<1>7. 0 \in Nat /\ 1 \in Nat
  OBVIOUS
<1> HIDE DEF Slice
<1>8. CASE AFindFirst(tbl, k) = {}
  BY <1>4, <1>8
<1>9. CASE AFindFirst(tbl, k) = Slice(Hits(tbl, k), 0, 1)
  <2>1. /\ Slice(Hits(tbl, k), 0, 1) \in SUBSET Hits(tbl, k)
        /\ \A i, j \in Slice(Hits(tbl, k), 0, 1) : i = j
    BY <1>1, <1>5, <1>7
  <2> QED
    BY <1>1, <1>4, <1>9, <2>1
<1>10. CASE AFindFirst(tbl, k) = Slice(Hits(tbl, k) \cap idx, 1, 1)
  <2>1. /\ Slice(Hits(tbl, k) \cap idx, 1, 1) \in SUBSET (Hits(tbl, k) \cap idx)
        /\ \A i, j \in Slice(Hits(tbl, k) \cap idx, 1, 1) : i = j
    BY <1>2, <1>5, <1>7
  <2> QED
    BY <1>1, <1>4, <1>10, <2>1
<1>11. CASE kindA \in Dropping /\ AFindFirst(tbl, k) = Slice(Hits(tbl, AnyKey), 1, 1)
  BY <1>1, <1>4, <1>5, <1>7, <1>11
<1> QED
  BY <1>6, <1>8, <1>9, <1>10, <1>11

(* Redis lists the records to write,                                       *)
LEMMA RedisManyKeeps ==
    ASSUME AdaptersCore, NEW p \in AProcs, Steady(p), NEW k \in AKeys \cup {AnyKey},
           NEW f \in Fields, NEW v \in AVals, RedisUpdateMany(p, k, f, v) \/ RedisDeleteMany(p, k)
    PROVE  AdaptersCore'
<1> DEFINE upd == [Idle EXCEPT !.at = "updEach", !.key = k, !.fld = f, !.val = v, !.todo = RedisBulkList(k)]
           del == [Idle EXCEPT !.at = "delEach", !.key = k, !.todo = RedisBulkList(k)]
<1>1. UNCHANGED <<tbl, born, idx, ackd, raced>> /\ (Continue(p, upd) \/ Continue(p, del))
  BY DEF RedisUpdateMany, RedisDeleteMany
<1>0. kindA = "redis"
  BY DEF RedisUpdateMany, RedisDeleteMany
<1>2. born \in Nat /\ RedisBulkList(k) \in SUBSET (1 .. born)
  BY PagesAreBorn DEF AdaptersCore, TableOK
<1>3. Idle \in CallShapes(born)
  BY <1>2, IdleIsOK
<1>4. upd \in CallShapes(born) /\ upd.at = "updEach"
  BY <1>2, <1>3 DEF CallShapes, CallAts
<1>5. del \in CallShapes(born) /\ del.at = "delEach"
  BY <1>2, <1>3 DEF CallShapes, CallAts
<1> HIDE DEF upd, del
<1>6. CallOK(upd, tbl, born, raced, kindA)
  BY <1>0, <1>2, <1>4, ListingCall
<1>7. CallOK(del, tbl, born, raced, kindA)
  BY <1>0, <1>2, <1>5, ListingCall
<1>8. CASE Continue(p, upd)
  BY <1>1, <1>4, <1>6, <1>8, QuietContinue
<1>9. CASE Continue(p, del)
  BY <1>1, <1>5, <1>7, <1>9, QuietContinue
<1> QED
  BY <1>1, <1>8, <1>9

(* and writes them one by one.                                             *)
LEMMA RedisEachKeeps ==
    ASSUME AdaptersCore, NEW p \in AProcs, RedisEach(p)
    PROVE  AdaptersCore'
<1> DEFINE c == acall[p]
           Rest(i) == [c EXCEPT !.todo = c.todo \ {i}, !.then = c.at]
<1>1. Steady(p) /\ c.at \in {"updEach", "delEach"}
  BY DEF RedisEach, Steady, adapterRest, AdaptersCore
<1>2. /\ c \in CallShapes(born) /\ c.todo \subseteq 1 .. born /\ born \in Nat
      /\ 1 .. born \subseteq AIds
  BY AdapterAssumption DEF AdapterAssumption, AdaptersCore, TableOK, CallOK, CallShapes, AIds
<1>8. kindA = "redis"
  BY <1>1 DEF AdaptersCore, CallOK
<1>3. CASE Answer(p, Said(TRUE, 0, {})) /\ UNCHANGED <<tbl, born, idx, ackd, raced>>
  <2>1. TableMoves(p) /\ IndexMoves(p)
    BY <1>1, <1>3, QuietTable DEF Steady
  <2>2. born' \in Nat
    BY <1>2, <1>3
  <2>3. ReportOK(Said(TRUE, 0, {}), tbl', born', raced', kindA)
    BY <2>2, PlainReports
  <2> QED
    BY <1>3, <2>1, <2>3, AnswerKeeps
<1>4. ASSUME NEW i \in c.todo, Continue(p, [c EXCEPT !.todo = c.todo \ {i}]),
             UNCHANGED <<tbl, born, idx, ackd, raced>>
      PROVE  AdaptersCore'
  <2> DEFINE d == [c EXCEPT !.todo = c.todo \ {i}]
  <2>1. d \in CallShapes(born) /\ d.at = c.at /\ Continue(p, d)
    BY <1>2, <1>4 DEF CallShapes
  <2> HIDE DEF d
  <2>2. CallOK(d, tbl, born, raced, kindA)
    BY <1>1, <1>2, <1>8, <2>1, ListingCall
  <2> QED
    BY <1>1, <1>4, <2>1, <2>2, QuietContinue
<1>5. ASSUME NEW i \in c.todo PROVE Rest(i) \in CallShapes(born) /\ Rest(i).then = c.at
  BY <1>1, <1>2 DEF CallShapes, Thens
<1>6. ASSUME NEW i \in c.todo, tbl[i] # NoRec, c.at = "updEach", kindA = "redis",
             Continue(p, HoldsTheRead(Rest(i), i)), UNCHANGED <<tbl, born, idx, ackd, raced>>
      PROVE  AdaptersCore'
  <2>1. i \in 1 .. born /\ kindA \in Merging /\ Rest(i) \in CallShapes(born) /\ Rest(i).then = "updEach"
    BY <1>2, <1>5, <1>6 DEF Merging
  <2> HIDE DEF Rest
  <2> QED
    BY <1>1, <1>6, <2>1, HoldsTheReadKeeps
<1>7. ASSUME NEW i \in c.todo, c.at = "delEach", kindA = "redis", RedisDel(p, i, Rest(i))
      PROVE  AdaptersCore'
  <2>1. i \in 1 .. born /\ Rest(i) \in CallShapes(born) /\ Rest(i).then = "delEach"
    BY <1>2, <1>5, <1>7
  <2> HIDE DEF Rest
  <2> QED
    BY <1>1, <1>7, <2>1, RedisDelKeeps
<1> QED
  BY <1>1, <1>3, <1>4, <1>6, <1>7, <1>8 DEF RedisEach

(***************************************************************************)
(* Upserts                                                                 *)
(***************************************************************************)
LEMMA FindKeeps ==
    ASSUME AdaptersCore, NEW p \in AProcs, Steady(p), NEW k \in AKeys,
           NEW f \in Fields, NEW v \in AVals, Find(p, k, f, v)
    PROVE  AdaptersCore'
<1>1. PICK found \in {AFindFirst(tbl, k)} \cup (IF AFaults THEN {{}} ELSE {}) :
         Continue(p, [Idle EXCEPT !.at = "found", !.key = k, !.fld = f, !.val = v, !.todo = found])
  BY DEF Find
<1> DEFINE c == [Idle EXCEPT !.at = "found", !.key = k, !.fld = f, !.val = v, !.todo = found]
<1>2. UNCHANGED <<tbl, born, idx, ackd, raced>> /\ Continue(p, c)
  BY <1>1 DEF Find
<1>3. found = AFindFirst(tbl, k) \/ found = {}
  OBVIOUS
<1>4. /\ born \in Nat /\ found \in SUBSET (1 .. born)
      /\ \A i, j \in found : i = j
      /\ kindA \notin Dropping => \A i \in found : k \in {AnyKey, tbl[i].key}
  BY <1>3, PagesAreBorn DEF AdaptersCore, TableOK
<1>5. Idle \in CallShapes(born) /\ Idle.then = "end"
  BY <1>4, IdleIsOK
<1>6. c \in CallShapes(born) /\ c.at = "found" /\ c.key = k /\ c.todo = found /\ c.then = "end"
  BY <1>4, <1>5 DEF CallShapes, CallAts
<1> HIDE DEF c
<1>7. CallOK(c, tbl, born, raced, kindA)
  BY <1>4, <1>6 DEF CallOK
<1> QED
  BY <1>2, <1>6, <1>7, QuietContinue

(* An upsert that inserts or overwrites.                                   *)
LEMMA UpsertWritesKeeps ==
    ASSUME AdaptersCore, NEW p \in AProcs, UpsertWrites(p)
    PROVE  AdaptersCore'
<1> DEFINE c == acall[p]
           said == [Said(TRUE, 1, {}) EXCEPT !.strays = c.todo \ Hits(tbl, c.key)]
<1>1. Steady(p) /\ c.at = "found"
  BY DEF UpsertWrites, Going, Steady, adapterRest, AdaptersCore
<1>2. /\ c.key \in AKeys /\ c.todo \in SUBSET (1 .. born) /\ c.todo \in SUBSET AIds
      /\ c.fld \in Fields /\ c.val \in AVals /\ born \in Nat /\ 1 .. born \subseteq AIds
      /\ \A i, j \in c.todo : i = j
      /\ kindA \notin Dropping => \A i \in c.todo \ raced : tbl[i] # NoRec => c.key \in {AnyKey, tbl[i].key}
      /\ kindA \notin Merging => raced = {}
  BY <1>1, AdapterAssumption DEF AdapterAssumption, AdaptersCore, TableOK, CallOK, CallShapes, AIds
<1>3. CASE CreateRecord(p, c.key)
  BY <1>1, <1>2, <1>3, CreateRecordKeeps
<1>4. CASE kindA \in {"mysql", "sqlite"} /\ InsertToReadBack(p, c.key)
  BY <1>1, <1>2, <1>4, InsertToReadBackKeeps
<1>5. CASE RedisSet(p, c.key, Idle)
  <2>1. Idle \in CallShapes(born) /\ Idle.then = "end" /\ Idle.todo = {} /\ Idle.val = 0 /\ Cardinality({}) = 0
    BY <1>2, IdleIsOK, FS_EmptySet
  <2>2. /\ Idle.then \in {"end", "many", "last"} /\ (Idle.then # "last" => Idle.todo = {})
        /\ (Idle.then # "end" => Idle.key \in AKeys) /\ Idle.val <= Cardinality(Idle.todo)
    BY <2>1
  <2>3. c.key \in AKeys
    BY <1>2
  <2> HIDE DEF c
  <2> QED
    BY <1>1, <1>5, <2>1, <2>2, <2>3, RedisSetKeeps
<1>6. ASSUME NEW i \in c.todo, kindA \notin Merging, UpdateSaying(p, i, c.fld, c.val, said)
      PROVE  AdaptersCore'
  <2>1. ASSUME tbl[i] # NoRec PROVE ReportOK(said, tbl, born, raced, kindA)
    <3>1. kindA \notin Dropping => i \in Hits(tbl, c.key)
      BY <1>2, <1>6, <2>1 DEF Hits, Present
    <3>2. c.todo \ Hits(tbl, c.key) \in SUBSET AIds
          /\ (kindA \notin Dropping => c.todo \ Hits(tbl, c.key) \subseteq raced)
      BY <1>2, <3>1
    <3>3. 1 \in 0 .. MaxRecs
      BY <1>2, AdapterAssumption DEF AdapterAssumption, AIds
    <3> QED
      BY <1>2, <3>2, <3>3, WrittenReport
  <2> HIDE DEF said
  <2> QED
    BY <1>1, <1>2, <1>6, <2>1, UpdateSayingKeeps
<1>7. ASSUME NEW i \in c.todo, kindA \in Merging, ReadToMerge(p, c.key, i, c.fld, c.val)
      PROVE  AdaptersCore'
  <2>1. tbl[i] # NoRec /\ kindA \notin Dropping => c.key \in {AnyKey, tbl[i].key} \/ i \in raced
    BY <1>2
  <2> QED
    BY <1>1, <1>2, <1>7, <2>1, ReadToMergeKeeps
<1> QED
  BY <1>3, <1>4, <1>5, <1>6, <1>7 DEF UpsertWrites

(* An upsert over MongoDB, a single command.                               *)
LEMMA MongoUpsertKeeps ==
    ASSUME AdaptersCore, NEW p \in AProcs, Steady(p), NEW k \in AKeys,
           NEW f \in Fields, NEW v \in AVals, NEW shared, MongoUpsert(p, k, f, v, shared)
    PROVE  AdaptersCore'
<1>1. CASE Refuse(p)
  BY <1>1, RefusalKeeps
<1>2. CASE CreateRecord(p, k)
  BY <1>2, CreateRecordKeeps
<1>3. ASSUME NEW i \in Hits(tbl, k), UpdateRecord(p, i, f, v) PROVE AdaptersCore'
  <2>1. i \in 1 .. born
    BY HitsAreBorn
  <2> QED
    BY <1>3, <2>1, UpdateRecordKeeps
<1> QED
  BY <1>1, <1>2, <1>3 DEF MongoUpsert

(***************************************************************************)
(* Every step                                                              *)
(***************************************************************************)
LEMMA RedisCreateKeeps ==
    ASSUME AdaptersCore, NEW p \in AProcs, Steady(p), NEW k \in AKeys, RedisCreate(p, k)
    PROVE  AdaptersCore'
<1>1. born \in Nat
  BY DEF AdaptersCore, TableOK
<1>2. Idle \in CallShapes(born) /\ Idle.then = "end" /\ Idle.todo = {} /\ Idle.val = 0 /\ Cardinality({}) = 0
  BY <1>1, IdleIsOK, FS_EmptySet
<1> QED
  BY <1>2, RedisSetKeeps DEF RedisCreate

LEMMA StartKeyedKeeps ==
    ASSUME AdaptersCore, NEW p \in AProcs, Steady(p), NEW k \in AKeys, StartKeyed(p, k)
    PROVE  AdaptersCore'
<1>1. CASE MysqlCreate(p, k) \/ SqliteCreate(p, k)
  BY <1>1, InsertToReadBackKeeps DEF MysqlCreate, SqliteCreate
<1>2. CASE RedisCreate(p, k)
  BY <1>2, RedisCreateKeeps
<1> QED
  BY <1>1, <1>2, CreateRecordKeeps
     DEF StartKeyed, SqlCreate, MongoCreate, SupabaseCreate, ElasticCreate, SurrealCreate, SupabaseUpsert

(* A call with a filter begins.                                            *)
LEMMA StartFilteredKeeps ==
    ASSUME AdaptersCore, NEW p \in AProcs, Steady(p), NEW k \in AKeys \cup {AnyKey}, StartFiltered(p, k)
    PROVE  AdaptersCore'
<1> DEFINE S == Hits(tbl, k)
<1>1. "x" \in Fields /\ 0 \in AVals
  BY DEF Fields, AVals
<1>2. ASSUME WriteHits(p, k, S, Deleted(S)) PROVE AdaptersCore'
  <2>1. Deleted(S) \in {Updated(S, "x", 0), Deleted(S)}
    OBVIOUS
  <2> QED
    BY <1>1, <1>2, <2>1, WriteHitsKeeps
<1>3. ASSUME NEW f \in Fields, NEW v \in AVals, WriteHits(p, k, S, Updated(S, f, v)) PROVE AdaptersCore'
  <2>1. Updated(S, f, v) \in {Updated(S, f, v), Deleted(S)}
    OBVIOUS
  <2> QED
    BY <1>3, <2>1, WriteHitsKeeps
<1>4. CASE SqlDeleteMany(p, k) \/ SqliteDeleteMany(p, k) \/ MongoDeleteMany(p, k)
  BY <1>2, <1>4 DEF SqlDeleteMany, SqliteDeleteMany, MongoDeleteMany
<1>5. CASE SupabaseCount(p, k)
  BY <1>5, SupabaseCountKeeps
<1>6. CASE RedisDeleteMany(p, k)
  BY <1>1, <1>6, RedisManyKeeps
<1>7. CASE ElasticUpdateMany(p, k) \/ ElasticDeleteMany(p, k)
  BY <1>7, RefusalKeeps DEF ElasticUpdateMany, ElasticDeleteMany
<1>8. ASSUME NEW f \in Fields, NEW v \in AVals,
             \/ SqlUpdateMany(p, k, f, v) \/ SqliteUpdateMany(p, k, f, v) \/ MongoUpdateMany(p, k, f, v)
             \/ SupabaseUpdateMany(p, k, f, v)
      PROVE  AdaptersCore'
  BY <1>3, <1>8 DEF SqlUpdateMany, SqliteUpdateMany, MongoUpdateMany, SupabaseUpdateMany
<1>9. ASSUME NEW f \in Fields, NEW v \in AVals, RedisUpdateMany(p, k, f, v) PROVE AdaptersCore'
  BY <1>9, RedisManyKeeps
<1> QED
  BY <1>4, <1>5, <1>6, <1>7, <1>8, <1>9 DEF StartFiltered

(* An upsert begins.                                                       *)
LEMMA StartUpsertKeeps ==
    ASSUME AdaptersCore, NEW p \in AProcs, Steady(p), NEW k \in AKeys, NEW f \in Fields, NEW v \in AVals,
           StartUpsert(p, k, f, v)
    PROVE  AdaptersCore'
BY FindKeeps, MongoUpsertKeeps
   DEF StartUpsert, SqlUpsert, SqliteUpsert, RedisUpsert, ElasticUpsert, SurrealUpsert

(* A call by number begins.                                                *)
LEMMA StartByIdKeeps ==
    ASSUME AdaptersCore, NEW p \in AProcs, Steady(p), NEW i \in 1 .. born, StartById(p, i)
    PROVE  AdaptersCore'
<1>1. ASSUME \/ SqlRemove(p, i) \/ SqliteRemove(p, i) \/ MongoRemove(p, i) \/ ElasticRemove(p, i)
             \/ SurrealRemove(p, i) \/ SupabaseRemove(p, i)
      PROVE  AdaptersCore'
  BY <1>1, RemoveRecordKeeps
     DEF SqlRemove, SqliteRemove, MongoRemove, ElasticRemove, SurrealRemove, SupabaseRemove
<1>2. ASSUME NEW f \in Fields, NEW v \in AVals,
             \/ SqlUpdate(p, i, f, v) \/ SqliteUpdate(p, i, f, v) \/ MongoUpdate(p, i, f, v)
             \/ SurrealUpdate(p, i, f, v) \/ SupabaseUpdate(p, i, f, v) \/ MysqlUpdate(p, i, f, v)
      PROVE  AdaptersCore'
  BY <1>2, UpdateRecordKeeps
     DEF SqlUpdate, MysqlUpdate, SqliteUpdate, MongoUpdate, SurrealUpdate, SupabaseUpdate
<1>3. ASSUME NEW f \in Fields, NEW v \in AVals, RedisUpdate(p, i, f, v) \/ ElasticUpdate(p, i, f, v)
      PROVE  AdaptersCore'
  <2>1. kindA \in Merging /\ ReadToMerge(p, AnyKey, i, f, v)
    BY <1>3 DEF RedisUpdate, ElasticUpdate, Merging
  <2>2. AnyKey \in AKeys \cup {AnyKey} /\ AnyKey \in {AnyKey, tbl[i].key}
    OBVIOUS
  <2> QED
    BY <2>1, <2>2, ReadToMergeKeeps
<1>4. CASE RedisRemove(p, i)
  <2>1. born \in Nat
    BY DEF AdaptersCore, TableOK
  <2>2. Idle \in CallShapes(born) /\ Idle.then = "end"
    BY <2>1, IdleIsOK
  <2> QED
    BY <1>4, <2>2, RedisDelKeeps, RefusalKeeps DEF RedisRemove
<1> QED
  BY <1>1, <1>2, <1>3, <1>4 DEF StartById

(* A bulk create begins.                                                   *)
LEMMA StartManyKeeps ==
    ASSUME AdaptersCore, NEW p \in AProcs, Steady(p), NEW k \in AKeys, NEW l \in AKeys, StartMany(p, k, l)
    PROVE  AdaptersCore'
<1>1. CASE SupabaseCreateMany(p, k, l)
  BY <1>1, SupabaseCreateManyKeeps
<1>2. CASE RedisCreateMany(p, k, l)
  BY <1>2, RedisCreateManyKeeps
<1> QED
  BY <1>1, <1>2, InsertFirstKeeps
     DEF StartMany, SqlCreateMany, MysqlCreateMany, MongoCreateMany, SqliteCreateMany, SurrealCreateMany,
         ElasticCreateMany

(* Every step keeps the invariant.                                         *)
LEMMA AdaptersCoreStep == AdaptersCore /\ [NextAdapters]_adapterVars => AdaptersCore'
<1> SUFFICES ASSUME AdaptersCore, [NextAdapters]_adapterVars PROVE AdaptersCore'
  OBVIOUS
<1>1. CASE UNCHANGED adapterVars
  BY <1>1 DEF adapterVars, AdaptersCore, RecordsAreListed, Present
<1>2. ASSUME NEW p \in AProcs, Starting(p), kindA' = kindA PROVE Steady(p)
  BY <1>2, AdapterAssumption DEF AdapterAssumption, Starting, Steady, AdaptersCore
<1>3. ASSUME NEW p \in AProcs, Starting(p), UNCHANGED adapterRest,
             \/ \E k \in AKeys : StartKeyed(p, k)
             \/ \E k \in AKeys \cup {AnyKey} : StartFiltered(p, k)
             \/ \E k \in AKeys, f \in Fields, v \in AVals : StartUpsert(p, k, f, v)
             \/ \E i \in 1 .. born : StartById(p, i)
             \/ SurrealBulkRefused(p) \/ CassandraRefuses(p) \/ CallFails(p)
      PROVE  AdaptersCore'
  <2>1. Steady(p)
    BY <1>2, <1>3 DEF adapterRest
  <2>2. CASE SurrealBulkRefused(p) \/ CassandraRefuses(p) \/ CallFails(p)
    BY <2>1, <2>2, RefusalKeeps DEF SurrealBulkRefused, CassandraRefuses, CallFails
  <2> QED
    BY <1>3, <2>1, <2>2, StartKeyedKeeps, StartFilteredKeeps, StartUpsertKeeps, StartByIdKeeps
<1>4. ASSUME NEW p \in AProcs, Starting(p), UNCHANGED kindA,
             \/ \E k, l \in AKeys : StartMany(p, k, l)
             \/ SqlCreateManyRefused(p)
      PROVE  AdaptersCore'
  <2>1. Steady(p)
    BY <1>2, <1>4
  <2>2. CASE SqlCreateManyRefused(p)
    BY <2>1, <2>2, RefusalKeeps DEF SqlCreateManyRefused
  <2> QED
    BY <1>4, <2>1, <2>2, StartManyKeeps
<1>5. ASSUME NEW p \in AProcs,
             \/ PutMerged(p) \/ ReadBack(p) \/ RedisIndex(p) \/ RedisUnindex(p) \/ InsertSecond(p)
             \/ SupabaseDeleteMany(p) \/ RedisEach(p) \/ UpsertWrites(p) \/ LaterCallFails(p)
      PROVE  AdaptersCore'
  BY <1>5, PutMergedKeeps, ReadBackKeeps, RedisIndexKeeps, RedisUnindexKeeps, InsertSecondKeeps,
     SupabaseDeleteManyKeeps, RedisEachKeeps, UpsertWritesKeeps, LaterCallFailsKeeps
<1> QED
  BY <1>1, <1>3, <1>4, <1>5 DEF NextAdapters

(* Only one caller moves in a step.                                        *)
OnlyMoves(p) == \A q \in AProcs \ {p} : acall'[q] = acall[q]

(* A step of one call leaves the calls of the others.                      *)
LEMMA CallsOfOthersStay ==
    ASSUME AdaptersCore, NEW p \in AProcs
    PROVE  /\ \A said : Answer(p, said) => OnlyMoves(p)
           /\ \A c : Continue(p, c) => OnlyMoves(p) /\ acall'[p] = c
BY DEF AdaptersCore, Answer, Continue, OnlyMoves

(* Nor does an answer, however it is given.                                *)
LEMMA AnswersMoveOne ==
    ASSUME AdaptersCore, NEW p \in AProcs
    PROVE  /\ Refuse(p) => OnlyMoves(p)
           /\ \A said : Answer(p, said) \/ Replies(p, said) \/ RemoteReplies(p, said) => OnlyMoves(p)
           /\ \A said : EndsOrResumes(p, said) => OnlyMoves(p)
           /\ \A c : Continue(p, c) => OnlyMoves(p)
           /\ \A k : CreateRecord(p, k) \/ InsertToReadBack(p, k) => OnlyMoves(p)
           /\ \A k, c : RedisSet(p, k, c) => OnlyMoves(p)
           /\ \A i, c : RedisDel(p, i, c) => OnlyMoves(p)
           /\ \A i, f, v, said : UpdateSaying(p, i, f, v, said) => OnlyMoves(p)
           /\ \A k, i, f, v : ReadToMerge(p, k, i, f, v) => OnlyMoves(p)
           /\ \A k, S, t : WriteHits(p, k, S, t) => OnlyMoves(p)
<1>1. \A said : Answer(p, said) => OnlyMoves(p)
  BY CallsOfOthersStay
<1>2. \A c : Continue(p, c) => OnlyMoves(p)
  BY CallsOfOthersStay
<1>3. \A said : Replies(p, said) => OnlyMoves(p)
  BY <1>1 DEF Replies
<1>4. \A said : RemoteReplies(p, said) => OnlyMoves(p)
  BY <1>1, <1>3 DEF RemoteReplies
<1>5. Refuse(p) => OnlyMoves(p)
  BY <1>1 DEF Refuse
<1>6. \A said : EndsOrResumes(p, said) => OnlyMoves(p)
  BY <1>1, <1>2 DEF EndsOrResumes
<1>7. \A k : CreateRecord(p, k) \/ InsertToReadBack(p, k) => OnlyMoves(p)
  BY <1>2, <1>3, <1>5 DEF CreateRecord, InsertToReadBack
<1>8. \A k, c : RedisSet(p, k, c) => OnlyMoves(p)
  BY <1>2 DEF RedisSet
<1>9. \A i, c : RedisDel(p, i, c) => OnlyMoves(p)
  BY <1>2 DEF RedisDel
<1>10. \A i, f, v, said : UpdateSaying(p, i, f, v, said) => OnlyMoves(p)
  BY <1>3, <1>5 DEF UpdateSaying
<1>11. \A k, i, f, v : ReadToMerge(p, k, i, f, v) => OnlyMoves(p)
  BY <1>2, <1>5 DEF ReadToMerge
<1>12. \A k, S, t : WriteHits(p, k, S, t) => OnlyMoves(p)
  BY <1>4 DEF WriteHits
<1> QED
  BY <1>1, <1>2, <1>3, <1>4, <1>5, <1>6, <1>7, <1>8, <1>9, <1>10, <1>11, <1>12

(* Which calls the requests that begin move,                               *)
LEMMA StartsMoveOne ==
    ASSUME AdaptersCore, NEW p \in AProcs,
           \/ \E k \in AKeys : StartKeyed(p, k)
           \/ \E k \in AKeys \cup {AnyKey} : StartFiltered(p, k)
           \/ \E k \in AKeys, f \in Fields, v \in AVals : StartUpsert(p, k, f, v)
           \/ \E i \in 1 .. born : StartById(p, i)
           \/ SurrealBulkRefused(p) \/ CassandraRefuses(p) \/ CallFails(p)
    PROVE  OnlyMoves(p)
<1>1. ASSUME NEW k \in AKeys, StartKeyed(p, k) PROVE OnlyMoves(p)
  BY <1>1, AnswersMoveOne
     DEF StartKeyed, SqlCreate, MongoCreate, SupabaseCreate, ElasticCreate, SurrealCreate, MysqlCreate,
         SqliteCreate, SupabaseUpsert, RedisCreate
<1>2. ASSUME NEW k \in AKeys \cup {AnyKey}, StartFiltered(p, k) PROVE OnlyMoves(p)
  BY <1>2, AnswersMoveOne
     DEF StartFiltered, SqlDeleteMany, SqliteDeleteMany, MongoDeleteMany, SupabaseCount, RedisDeleteMany,
         ElasticUpdateMany, ElasticDeleteMany, SqlUpdateMany, SqliteUpdateMany, MongoUpdateMany,
         SupabaseUpdateMany, RedisUpdateMany
<1>3. ASSUME NEW k \in AKeys, NEW f \in Fields, NEW v \in AVals, StartUpsert(p, k, f, v)
      PROVE  OnlyMoves(p)
  BY <1>3, AnswersMoveOne
     DEF StartUpsert, SqlUpsert, SqliteUpsert, RedisUpsert, ElasticUpsert, SurrealUpsert, Find, MongoUpsert,
         UpdateRecord
<1>4. ASSUME NEW i \in 1 .. born, StartById(p, i) PROVE OnlyMoves(p)
  BY <1>4, AnswersMoveOne
     DEF StartById, SqlRemove, SqliteRemove, MongoRemove, ElasticRemove, SurrealRemove, SupabaseRemove,
         RedisRemove, RemoveRecord, SqlUpdate, SqliteUpdate, MongoUpdate, SurrealUpdate, SupabaseUpdate,
         RedisUpdate, ElasticUpdate, MysqlUpdate, UpdateRecord
<1>5. ASSUME SurrealBulkRefused(p) \/ CassandraRefuses(p) \/ CallFails(p) PROVE OnlyMoves(p)
  BY <1>5, AnswersMoveOne DEF SurrealBulkRefused, CassandraRefuses, CallFails
<1> QED
  BY <1>1, <1>2, <1>3, <1>4, <1>5

(* where a bulk create goes after its first record,                        *)
LEMMA InsertFirstGoesOn ==
    ASSUME AdaptersCore, NEW p \in AProcs, NEW k, NEW l, InsertFirst(p, k, l)
    PROVE  OnlyMoves(p)
BY AnswersMoveOne DEF InsertFirst

(* which calls the steps of a bulk create move,                            *)
LEMMA ManyMovesOne ==
    ASSUME AdaptersCore, NEW p \in AProcs, NEW k, NEW l, StartMany(p, k, l)
    PROVE  OnlyMoves(p) /\ (sqlTx' => sqlTx \/ acall'[p].at = "many")
<1>1. CASE SqlCreateMany(p, k, l)
  BY <1>1, InsertFirstGoesOn DEF SqlCreateMany
<1>2. CASE SupabaseCreateMany(p, k, l)
  BY <1>2, AnswersMoveOne DEF SupabaseCreateMany
<1>3. CASE UNCHANGED sqlTx /\ InsertFirst(p, k, l)
  BY <1>3, InsertFirstGoesOn
<1>4. CASE RedisCreateMany(p, k, l)
  BY <1>4, AnswersMoveOne DEF RedisCreateMany
<1> QED
  BY <1>1, <1>2, <1>3, <1>4
     DEF StartMany, MysqlCreateMany, MongoCreateMany, SqliteCreateMany, SurrealCreateMany, ElasticCreateMany

(* and which calls all the other steps move.                               *)
LEMMA GoingsMoveOne ==
    ASSUME AdaptersCore, NEW p \in AProcs,
           \/ PutMerged(p) \/ ReadBack(p) \/ RedisIndex(p) \/ RedisUnindex(p) \/ InsertSecond(p)
           \/ SupabaseDeleteMany(p) \/ RedisEach(p) \/ UpsertWrites(p) \/ LaterCallFails(p)
    PROVE  OnlyMoves(p) /\ (sqlTx' => sqlTx /\ acall[p].at # "many")
<1>1. CASE PutMerged(p)
  BY <1>1, AnswersMoveOne DEF PutMerged, Going, adapterRest
<1>2. CASE ReadBack(p)
  BY <1>2, AnswersMoveOne DEF ReadBack, Going, adapterRest
<1>3. CASE RedisIndex(p)
  BY <1>3, AnswersMoveOne DEF RedisIndex, Going, adapterRest
<1>4. CASE InsertSecond(p)
  BY <1>4, AnswersMoveOne DEF InsertSecond
<1>5. CASE SupabaseDeleteMany(p)
  BY <1>5, AnswersMoveOne DEF SupabaseDeleteMany, Going, adapterRest
<1>6. CASE RedisEach(p)
  BY <1>6, AnswersMoveOne DEF RedisEach, adapterRest
<1>7. CASE UpsertWrites(p)
  BY <1>7, AnswersMoveOne DEF UpsertWrites, Going, adapterRest
<1>8. CASE RedisUnindex(p)
  BY <1>8, AnswersMoveOne DEF RedisUnindex, Going, adapterRest
<1>9. CASE LaterCallFails(p)
  BY <1>9, AnswersMoveOne DEF LaterCallFails, adapterRest
<1> QED
  BY <1>1, <1>2, <1>3, <1>4, <1>5, <1>6, <1>7, <1>8, <1>9

(* The open transaction stays one of a bulk call.                          *)
LEMMA AdaptersStep == AdaptersInv /\ [NextAdapters]_adapterVars => AdaptersInv'
<1> SUFFICES ASSUME AdaptersInv, [NextAdapters]_adapterVars PROVE AdaptersInv'
  OBVIOUS
<1>1. AdaptersCore /\ AdaptersCore'
  BY AdaptersCoreStep DEF AdaptersInv
<1>2. ASSUME NEW p \in AProcs, OnlyMoves(p),
             sqlTx' => (sqlTx /\ acall[p].at # "many") \/ acall'[p].at = "many"
      PROVE  sqlTx' => \E q \in AProcs : acall'[q].at = "many"
  BY <1>2 DEF AdaptersInv, OnlyMoves
<1>3. sqlTx' => \E q \in AProcs : acall'[q].at = "many"
  <2>1. CASE UNCHANGED adapterVars
    BY <2>1 DEF adapterVars, AdaptersInv
  <2>2. ASSUME NEW p \in AProcs, Starting(p), UNCHANGED adapterRest,
               \/ \E k \in AKeys : StartKeyed(p, k)
               \/ \E k \in AKeys \cup {AnyKey} : StartFiltered(p, k)
               \/ \E k \in AKeys, f \in Fields, v \in AVals : StartUpsert(p, k, f, v)
               \/ \E i \in 1 .. born : StartById(p, i)
               \/ SurrealBulkRefused(p) \/ CassandraRefuses(p) \/ CallFails(p)
        PROVE  sqlTx' => \E q \in AProcs : acall'[q].at = "many"
    BY <1>1, <1>2, <2>2, StartsMoveOne DEF Starting, adapterRest
  <2>3. ASSUME NEW p \in AProcs, Starting(p), NEW k \in AKeys, NEW l \in AKeys, StartMany(p, k, l)
        PROVE  sqlTx' => \E q \in AProcs : acall'[q].at = "many"
    BY <1>1, <1>2, <2>3, ManyMovesOne DEF Starting
  <2>4. ASSUME NEW p \in AProcs, Starting(p), SqlCreateManyRefused(p)
        PROVE  sqlTx' => \E q \in AProcs : acall'[q].at = "many"
    BY <1>1, <1>2, <2>4, AnswersMoveOne DEF Starting, SqlCreateManyRefused
  <2>5. ASSUME NEW p \in AProcs,
               \/ PutMerged(p) \/ ReadBack(p) \/ RedisIndex(p) \/ RedisUnindex(p) \/ InsertSecond(p)
               \/ SupabaseDeleteMany(p) \/ RedisEach(p) \/ UpsertWrites(p) \/ LaterCallFails(p)
        PROVE  sqlTx' => \E q \in AProcs : acall'[q].at = "many"
    BY <1>1, <1>2, <2>5, GoingsMoveOne
  <2> QED
    BY <2>1, <2>2, <2>3, <2>4, <2>5 DEF NextAdapters
<1> QED
  BY <1>1, <1>3 DEF AdaptersInv

(* The invariant holds at first.                                           *)
LEMMA AdaptersStart == InitAdapters => AdaptersInv
<1> SUFFICES ASSUME InitAdapters PROVE AdaptersInv
  OBVIOUS
<1> USE AdapterAssumption DEF AdapterAssumption
<1>1. PICK rs \in {<<>>} \cup (AKeys \X AKeys) :
          tbl = [i \in AIds |-> IF rs # <<>> /\ i \in {1, 2} /\ (i = 1 \/ rs[1] # rs[2])
                                THEN [key |-> rs[i], x |-> 0, y |-> 0] ELSE NoRec]
  BY DEF InitAdapters
<1>2. \A k : [key |-> k, x |-> 0, y |-> 0] # NoRec
  BY DEF NoRec
<1>3. tbl \in [AIds -> Recs \cup {NoRec}]
  BY <1>1 DEF Recs, AVals
<1>4. Present(tbl) \subseteq 1 .. born /\ born \in 0 .. MaxRecs
  <2>1. Present(tbl) \subseteq 1 .. MaxRecs /\ Present(tbl) \subseteq {1, 2} /\ (2 \in Present(tbl) => 1 \in Present(tbl))
    BY <1>1, <1>2 DEF Present, AIds
  <2>2. born \in 0 .. MaxRecs /\ IsFiniteSet(Present(tbl)) /\ born = Cardinality(Present(tbl))
    BY <2>1, NumbersAreCounted DEF InitAdapters
  <2>3. CASE Present(tbl) = {}
    BY <2>2, <2>3
  <2>4. CASE Present(tbl) = {1}
    BY <2>2, <2>4, FS_Singleton
  <2>5. CASE Present(tbl) = {1, 2}
    <3>1. Cardinality({1, 2}) = 2
      <4>1. Cardinality({1} \cup {2}) = 2
        <5>1. IsFiniteSet({1}) /\ Cardinality({1}) = 1
          BY FS_Singleton
        <5>2. 2 \notin {1}
          OBVIOUS
        <5>3. Cardinality({1} \cup {2}) = Cardinality({1}) + 1
          BY <5>1, <5>2, FS_AddElement
        <5> QED
          BY <5>1, <5>3
      <4>2. {1} \cup {2} = {1, 2}
        OBVIOUS
      <4> QED
        BY <4>1, <4>2
    <3> QED
      BY <2>2, <2>5, <3>1
  <2>6. Present(tbl) = {} \/ Present(tbl) = {1} \/ Present(tbl) = {1, 2}
    BY <2>1
  <2> QED
    BY <2>2, <2>3, <2>4, <2>5, <2>6
<1>5. TableOK(tbl, ackd, born, idx, raced, kindA)
  BY <1>3, <1>4 DEF TableOK, InitAdapters
<1>6. /\ acall = [p \in AProcs |-> acall[p]] /\ report = [p \in AProcs |-> report[p]]
      /\ \A p \in AProcs : acall[p] = Idle /\ report[p] = Said(TRUE, 0, {})
  BY DEF InitAdapters
<1>7. born \in Nat
  BY <1>4
<1>8. \A p \in AProcs : CallOK(acall[p], tbl, born, raced, kindA)
  <2>1. CallOK(Idle, tbl, born, raced, kindA)
    BY <1>7, IdleIsOK
  <2> QED
    BY <1>6, <2>1
<1>10. ASSUME NEW p \in AProcs PROVE ReportOK(report[p], tbl, born, raced, kindA)
  <2>1. ReportOK(Said(TRUE, 0, {}), tbl, born, raced, kindA)
    BY <1>7, PlainReports
  <2> QED
    BY <1>6, <2>1
<1>11. RecordsAreListed
  BY DEF RecordsAreListed, InitAdapters
<1>12. kindA \in Adapters /\ opsDone \in 0 .. MaxOps /\ sqlTx = FALSE
  BY DEF InitAdapters
<1> QED
  BY <1>5, <1>6, <1>8, <1>10, <1>11, <1>12 DEF AdaptersInv, AdaptersCore

(***************************************************************************)
(* What the invariant gives                                                *)
(***************************************************************************)
LEMMA PagesAddUp == AdaptersCore => PagesPartition
<1> SUFFICES ASSUME AdaptersCore, kindA # "cassandra", NEW k \in AKeys \cup {AnyKey}, NEW limit \in 1 .. 2
             PROVE  LET first == IF kindA \in Shifted THEN 0 ELSE 1
                        seen  == IF kindA = "redis" THEN Hits(tbl, k) \cap idx ELSE Hits(tbl, k)
                    IN  \A i \in seen :
                          Cardinality({pg \in first .. first + MaxRecs : i \in AList(tbl, k, pg, limit)}) = 1
  BY DEF PagesPartition
<1> DEFINE first == IF kindA \in Shifted THEN 0 ELSE 1
           seen  == IF kindA = "redis" THEN Hits(tbl, k) \cap idx ELSE Hits(tbl, k)
<1>1. kindA \in Uniform \cup Shifted
  BY AdapterAssumption DEF AdapterAssumption, AdaptersCore
<1>2. seen \in SUBSET (1 .. MaxRecs) /\ MaxRecs \in Nat /\ first \in {0, 1}
  BY HitsAreBorn, AdapterAssumption DEF AdapterAssumption, AIds
<1>3. ASSUME NEW pg \in first .. first + MaxRecs
      PROVE  AList(tbl, k, pg, limit) = Slice(seen, (pg - first) * limit, limit)
  <2>1. CASE kindA \in Shifted
    <3>1. first = 0 /\ pg - first = pg
      BY <1>2, <2>1
    <3> QED
      BY <2>1, <3>1 DEF Shifted, AList, ElasticList, SurrealList, RedisList
  <2>2. CASE kindA \in Uniform
    <3>1. first = 1 /\ kindA # "redis"
      BY <2>2 DEF Uniform, Shifted
    <3>2. Before(pg, limit) = (pg - first) * limit
      BY <1>2, <3>1 DEF Before
    <3> QED
      BY <2>2, <3>1, <3>2 DEF Uniform, AList, SqlList, SqliteList, MongoList, SupabaseList
  <2> QED
    BY <1>1, <2>1, <2>2
<1> HIDE DEF first, seen
<1>4. ASSUME NEW i \in seen
      PROVE  Cardinality({pg \in first .. first + MaxRecs : i \in AList(tbl, k, pg, limit)}) = 1
  <2>1. PICK n \in first .. first + MaxRecs :
           \A pg \in first .. first + MaxRecs : i \in Slice(seen, (pg - first) * limit, limit) <=> pg = n
    BY <1>2, OnePageEach
  <2>2. {pg \in first .. first + MaxRecs : i \in AList(tbl, k, pg, limit)} = {n}
    BY <1>3, <2>1
  <2> QED
    BY <2>2, FS_Singleton
<1> QED
  BY <1>4 DEF first, seen

(* findFirst finds a record whenever one matches.                          *)
LEMMA FirstIsFound == AdaptersCore => FindFirstFinds
<1> SUFFICES ASSUME AdaptersCore, kindA \in Uniform, NEW k \in AKeys
             PROVE  /\ AFindFirst(tbl, k) \subseteq Hits(tbl, k)
                    /\ AFindFirst(tbl, k) = {} <=> Hits(tbl, k) = {}
  BY DEF FindFirstFinds
<1>1. Before(1, 1) = 0
  BY DEF Before
<1>2. AFindFirst(tbl, k) = Slice(Hits(tbl, k), 0, 1)
  BY <1>1 DEF Uniform, AFindFirst, SqlFindFirst, SqliteFindFirst, MongoFindFirst, SupabaseFindFirst, SupabaseList
<1>3. born \in Nat /\ Hits(tbl, k) \in SUBSET (1 .. born)
  BY HitsAreBorn DEF AdaptersCore, TableOK
<1>4. Hits(tbl, k) # {} => Slice(Hits(tbl, k), 0, 1) # {}
  BY <1>3, FirstIsOne
<1>5. Slice(Hits(tbl, k), 0, 1) \subseteq Hits(tbl, k)
  BY DEF Slice
<1> QED
  BY <1>2, <1>4, <1>5

(* The invariant implies what is promised.                                 *)
LEMMA AdaptersInvGives == AdaptersInv => AdaptersKeepRecords
<1> SUFFICES ASSUME AdaptersInv PROVE AdaptersKeepRecords
  OBVIOUS
<1>1. AdaptersCore
  BY DEF AdaptersInv
<1>2. TypeOKAdapters
  BY DEF TypeOKAdapters, AdaptersInv, AdaptersCore, TableOK, CallOK, CallShapes, ReportOK, Reports
<1>3. WritesAreNotLost
  BY DEF WritesAreNotLost, AdaptersInv, AdaptersCore, TableOK
<1>4. WritesOnlyMatches
  BY DEF WritesOnlyMatches, AdaptersInv, AdaptersCore, ReportOK, Dropping
<1>5. CreatedIsCounted
  BY DEF CreatedIsCounted, AdaptersInv, AdaptersCore, ReportOK
<1> QED
  BY <1>1, <1>2, <1>3, <1>4, <1>5, PagesAddUp, FirstIsFound DEF AdaptersKeepRecords, AdaptersCore

(* What users of the adapters rely on holds of every behaviour, for every  *)
(* adapter and any number of calls, records and pages.                     *)
THEOREM AdaptersStayTrue == SpecAdapters => []AdaptersKeepRecords
<1>1. InitAdapters => AdaptersInv
  BY AdaptersStart
<1>2. AdaptersInv /\ [NextAdapters]_adapterVars => AdaptersInv'
  BY AdaptersStep
<1>3. AdaptersInv => AdaptersKeepRecords
  BY AdaptersInvGives
<1> QED
  BY <1>1, <1>2, <1>3, PTL DEF SpecAdapters

(***************************************************************************)
(* BlobStores                                                              *)
(***************************************************************************)
(* Keys are in a strict order, finite in number.                           *)
LEMMA KeysAreOrdered ==
    /\ \A j \in BlobKeys : j \in BlobFiles /\ ~Less(j, j) /\ ~Less(j, NoKey) /\ j # NoKey /\ Less(NoKey, j)
    /\ \A j, k \in BlobKeys : j = k \/ Less(j, k) \/ Less(k, j)
    /\ \A j, k \in BlobKeys : ~(Less(j, k) /\ Less(k, j))
    /\ \A i, j, k \in BlobKeys : Less(i, j) /\ Less(j, k) => Less(i, k)
<1>1. \A j \in BlobKeys : /\ j = <<j[1], j[2]>> /\ j[1] \in 1 .. Stems /\ j[2] \in {0, 1}
  BY BlobAssumption DEF BlobAssumption, BlobKeys
<1> QED
  BY <1>1 DEF Less, NoKey, BlobFiles

(* The temporary file of a blob is another file, and no listing shows it.  *)
LEMMA TempFilesAreHidden ==
    \A k \in BlobKeys : TempOf(k) \in BlobFiles /\ TempOf(k) # k /\ Hidden(TempOf(k))
<1>1. \A j \in BlobKeys : /\ j = <<j[1], j[2]>> /\ j[1] \in 1 .. Stems /\ j[2] \in {0, 1}
  BY BlobAssumption DEF BlobAssumption, BlobKeys
<1> QED
  BY <1>1 DEF TempOf, BlobFiles, Hidden

(* The keys are finite in number.                                          *)
LEMMA KeysAreFinite == IsFiniteSet(BlobKeys)
<1>1. Stems \in Nat
  BY BlobAssumption DEF BlobAssumption
<1>2. IsFiniteSet(1 .. Stems)
  BY <1>1, FS_Interval
<1>3. IsFiniteSet({0}) /\ IsFiniteSet({<<1, 1>>})
  BY FS_Singleton, ZenonT(30)
<1>4. IsFiniteSet((1 .. Stems) \X {0})
  BY <1>2, <1>3, FS_Product
<1> QED
  BY <1>3, <1>4, FS_Union DEF BlobKeys

(* What is before k in a listing.                                          *)
Below(keys, k) == {j \in keys : Less(j, k)}

(* Places in a listing are numbered from 0 and grow with the keys.         *)
LEMMA PlacesGrow ==
    ASSUME NEW keys \in SUBSET BlobKeys
    PROVE  /\ IsFiniteSet(keys) /\ Cardinality(keys) \in Nat
           /\ \A k \in keys : Cardinality(Below(keys, k)) \in Nat
                              /\ Cardinality(Below(keys, k)) < Cardinality(keys)
           /\ \A j, k \in keys : Less(j, k) => Cardinality(Below(keys, j)) < Cardinality(Below(keys, k))
<1>1. IsFiniteSet(keys) /\ Cardinality(keys) \in Nat
  BY KeysAreFinite, FS_Subset, FS_CardinalityType
<1>2. ASSUME NEW S \in SUBSET keys, NEW T \in SUBSET S, NEW x \in S, x \notin T
      PROVE  Cardinality(T) \in Nat /\ Cardinality(S) \in Nat /\ Cardinality(T) < Cardinality(S)
  <2>1. IsFiniteSet(S) /\ IsFiniteSet(T)
    BY <1>1, FS_Subset
  <2>2. Cardinality(S) \in Nat /\ Cardinality(T) \in Nat
    BY <2>1, FS_CardinalityType
  <2>3. Cardinality(T) <= Cardinality(S) /\ Cardinality(S) # Cardinality(T)
    BY <1>2, <2>1, FS_Subset
  <2> QED
    BY <2>2, <2>3
<1>3. ASSUME NEW k \in keys
      PROVE  Cardinality(Below(keys, k)) \in Nat /\ Cardinality(Below(keys, k)) < Cardinality(keys)
  <2>1. Below(keys, k) \in SUBSET keys /\ k \notin Below(keys, k)
    BY KeysAreOrdered DEF Below
  <2>2. keys \in SUBSET keys
    OBVIOUS
  <2> QED
    BY <1>2, <2>1, <2>2
<1>4. ASSUME NEW j \in keys, NEW k \in keys, Less(j, k)
      PROVE  Cardinality(Below(keys, j)) < Cardinality(Below(keys, k))
  <2>1. Below(keys, k) \in SUBSET keys /\ Below(keys, j) \in SUBSET Below(keys, k)
        /\ j \in Below(keys, k) /\ j \notin Below(keys, j)
    BY <1>4, KeysAreOrdered DEF Below
  <2> QED
    BY <1>2, <2>1
<1> QED
  BY <1>1, <1>3, <1>4

(* A page without a next one is the last, and the others end where the     *)
(* next one starts.                                                        *)
LEMMA PagesMeet ==
    ASSUME NEW keys \in SUBSET BlobKeys
    PROVE  /\ FirstOf(keys) \subseteq keys /\ NextToken(keys) \subseteq keys
           /\ NextToken(keys) = {} => FirstOf(keys) = keys
           /\ \A t \in NextToken(keys), k \in keys : k \in FirstOf(keys) <=> Less(k, t)
<1> DEFINE f == [k \in keys |-> Cardinality(Below(keys, k))]
<1>1. /\ IsFiniteSet(keys) /\ Cardinality(keys) \in Nat
      /\ \A k \in keys : f[k] \in Nat /\ f[k] < Cardinality(keys)
      /\ \A j, k \in keys : Less(j, k) => f[j] < f[k]
  BY PlacesGrow
<1>2. /\ f \in [keys -> Nat]
      /\ \A k \in keys : /\ k \in FirstOf(keys) <=> f[k] < PageSize
                         /\ k \in NextToken(keys) <=> f[k] = PageSize
      /\ FirstOf(keys) \subseteq keys /\ NextToken(keys) \subseteq keys
  BY <1>1 DEF FirstOf, NextToken, Below
<1>3. PageSize \in Nat
  BY BlobAssumption DEF BlobAssumption
<1> HIDE DEF f
<1>4. \A j, k \in keys : f[j] = f[k] => j = k
  <2> SUFFICES ASSUME NEW j \in keys, NEW k \in keys, f[j] = f[k] PROVE j = k
    OBVIOUS
  <2>1. ~Less(j, k) /\ ~Less(k, j)
    BY <1>1
  <2> QED
    BY <2>1, KeysAreOrdered
<1>5. ASSUME NextToken(keys) = {}, NEW k \in keys PROVE f[k] < PageSize
  <2>1. SUFFICES ASSUME PageSize < Cardinality(keys) PROVE FALSE
    BY <1>1, <1>3
  <2>2. \A i \in keys : f[i] < Cardinality(keys)
    BY <1>1
  <2>3. \E i \in keys : f[i] = PageSize
    BY <1>1, <1>2, <1>3, <1>4, <2>1, <2>2, NumberingIsOnto
  <2> QED
    BY <1>2, <1>5, <2>3
<1>6. ASSUME NEW t \in NextToken(keys), NEW k \in keys PROVE k \in FirstOf(keys) <=> Less(k, t)
  <2>1. t \in keys /\ f[t] = PageSize
    BY <1>2
  <2>2. Less(k, t) => f[k] < PageSize
    BY <1>1, <2>1
  <2>3. Less(t, k) \/ k = t => ~(f[k] < PageSize)
    BY <1>1, <1>3, <2>1
  <2>4. k = t \/ Less(k, t) \/ Less(t, k)
    BY <2>1, KeysAreOrdered
  <2> QED
    BY <1>2, <2>2, <2>3, <2>4
<1> QED
  BY <1>2, <1>5, <1>6

(***************************************************************************)
(* The inductive invariant: what a request holds agrees with what is       *)
(* stored, unless the key was written meanwhile.                           *)
(***************************************************************************)
BlobPcs == {"idle", "created", "sent", "walked", "counted", "upload", "put", "rename", "head", "delete",
            "copy", "copying", "meta", "walk", "count"}
(* What a request looks like.                                              *)
ReqShapes ==
    [pc : BlobPcs, key : BlobKeys \cup {NoKey}, body : Contents, over : BOOLEAN, got : Contents,
     raced : BOOLEAN, prior : Contents, token : BlobKeys \cup {NoKey}, seen : SUBSET BlobKeys,
     stable : SUBSET BlobKeys, tokens : SUBSET BlobKeys, twice : BOOLEAN, n : Nat]

(* The requests that hold the lock, and where a request knows its key.     *)
LockPcs == {"rename", "copying"}
(* Where a request holds a key.                                            *)
KeyedPcs == {"upload", "put", "rename", "head", "delete", "copy", "copying", "meta"}

(* Under way, a walk has seen what is before its token, and what was there *)
(* all along still is.                                                     *)
Passed(r, k) == Less(k, r.token)
WalkOK(r, F, B) ==
    /\ \A k \in r.stable : F[k] # NoBlob \/ (B = "fs" /\ Hidden(k))
    /\ B = "s3" => /\ \A k \in r.stable : Passed(r, k) => k \in r.seen
                   /\ \A k \in r.seen : Passed(r, k)
    /\ B = "fs" => /\ \A k \in r.stable : Passed(r, k) \/ k = r.token => k \in r.seen \cup r.tokens \/ Hidden(k)
                   /\ \A k \in r.seen : Passed(r, k)

(* A request r over the files F of backend B, the keys D being dirty.      *)
ReqOK(r, F, D, B) ==
    /\ r \in ReqShapes
    /\ r.pc \in LockPcs => B = "fs"
    /\ r.pc = "put" => B = "s3"
    /\ r.pc \in KeyedPcs => r.key \in BlobKeys
    /\ r.pc = "copy" => r.token \in BlobKeys
    /\ r.pc \in {"upload", "put", "rename"} => r.body \in 1 .. MaxUploads
    /\ r.pc = "rename" => ({TempOf(r.key)} \cap BlobKeys \subseteq D) /\ (~r.over => F[r.key] = NoBlob)
    /\ r.pc = "put" /\ ~r.over /\ ~r.raced => F[r.key] = NoBlob
    /\ r.pc \in {"copy", "copying"} => r.over
    /\ r.pc = "created" /\ ~r.over /\ r.prior # NoBlob => B = "s3" /\ r.raced
    /\ r.pc = "meta" /\ B # "fs" /\ ~r.raced => r.got = F[r.key] \/ (B = "s3" /\ r.got = PlainType)
    /\ r.pc = "sent" => /\ B # "fs" /\ ~r.raced => r.got = r.body \/ (B = "s3" /\ r.got = PlainType)
                        /\ r.body = Torn => r.stable = {}
    /\ r.pc = "walk" => WalkOK(r, F, B)
    /\ r.pc = "walked" => r.stable \ r.seen \subseteq
            IF B = "fs" THEN r.tokens \cup {k \in BlobKeys : Hidden(k)} ELSE {}
    /\ r.twice => B = "memory"
    /\ r.pc = "count" /\ B = "s3" /\ ~r.raced =>
            r.n = Cardinality({k \in BlobKeys : F[k] # NoBlob /\ Passed(r, k)})
    /\ r.pc = "counted" /\ ~r.raced => r.n = Cardinality(r.stable)

(* The files F hold what was acknowledged, A, but for the dirty keys D.    *)
StoreOK(F, A, D) ==
    /\ F \in [BlobFiles -> Contents] /\ A \in [BlobKeys -> Contents] /\ D \subseteq BlobKeys
    /\ \A k \in BlobKeys \ D : F[k] = A[k]
    /\ \A k \in BlobKeys : F[k] = Torn => k \in D

(* The inductive invariant.                                                *)
BlobsInv ==
    /\ backend \in Backends /\ uploads \in 0 .. MaxUploads /\ bops \in 0 .. MaxBlobOps
    /\ StoreOK(bfiles, backed, bdirty)
    /\ breq = [p \in BProcs |-> breq[p]]
    /\ \A p \in BProcs : ReqOK(breq[p], bfiles, bdirty, backend) /\ (breq[p].pc \in LockPcs <=> block = p)

(* A request under way is told that k was written.                         *)
Told(r, k, present) ==
    IF r.pc \in Answered THEN r
    ELSE [r EXCEPT !.raced = r.raced \/ r.key = k \/ r.pc = "count",
                   !.stable = IF present THEN r.stable ELSE r.stable \ {k}]

(* F is G but for k, which is empty only if nothing is said to be present, *)
(* and for the temporary files of the filesystem.                          *)
Rewritten(F, G, k, present, B) ==
    /\ \A j \in BlobKeys \ {k} : G[j] = F[j] \/ (B = "fs" /\ Hidden(j))
    /\ k \in BlobKeys /\ G[k] = NoBlob => ~present

(* A request that is told of a write is right about the files after it.    *)
LEMMA ToldIsOK ==
    ASSUME NEW F, NEW G, NEW D, NEW E, NEW B, NEW k, NEW present \in BOOLEAN,
           NEW r, ReqOK(r, F, D, B), r.pc \notin LockPcs, Rewritten(F, G, k, present, B)
    PROVE  ReqOK(Told(r, k, present), G, E, B) /\ Told(r, k, present).pc = r.pc
<1> DEFINE t == Told(r, k, present)
<1>1. CASE r.pc \in Answered
  BY <1>1 DEF Told, ReqOK, Answered
<1>2. CASE r.pc \notin Answered
  <2>1. r \in ReqShapes
    BY DEF ReqOK
  <2>2. t = [r EXCEPT !.raced = r.raced \/ r.key = k \/ r.pc = "count",
                      !.stable = IF present THEN r.stable ELSE r.stable \ {k}]
    BY <1>2 DEF Told
  <2>3. /\ t.pc = r.pc /\ t.key = r.key /\ t.body = r.body /\ t.over = r.over /\ t.got = r.got
        /\ t.prior = r.prior /\ t.token = r.token /\ t.seen = r.seen /\ t.tokens = r.tokens
        /\ t.twice = r.twice /\ t.n = r.n
        /\ t.raced <=> r.raced \/ r.key = k \/ r.pc = "count"
        /\ t.stable = IF present THEN r.stable ELSE r.stable \ {k}
    BY <2>1, <2>2 DEF ReqShapes
  <2>4. t \in ReqShapes
    <3>1. (r.raced \/ r.key = k \/ r.pc = "count") \in BOOLEAN
      OBVIOUS
    <3>2. (IF present THEN r.stable ELSE r.stable \ {k}) \in SUBSET BlobKeys
      BY <2>1 DEF ReqShapes
    <3> QED
      BY <2>1, <2>2, <3>1, <3>2 DEF ReqShapes
  <2> HIDE DEF t
  <2>5. r.pc \in BlobPcs /\ r.pc \notin {"created", "sent", "walked", "counted", "rename"}
    BY <1>2, <2>1 DEF ReqShapes, Answered, LockPcs
  <2>6. ASSUME r.pc = "walk" PROVE WalkOK(t, G, B)
    <3>1. WalkOK(r, F, B) /\ r.stable \subseteq BlobKeys
      BY <2>1, <2>6 DEF ReqOK, ReqShapes
    <3>2. \A j \in t.stable : j \in r.stable /\ (G[j] # NoBlob \/ (B = "fs" /\ Hidden(j)))
      BY <2>3, <3>1 DEF WalkOK, Rewritten
    <3> QED
      BY <2>3, <3>1, <3>2 DEF WalkOK, Passed
  <2>7. ASSUME r.pc = "put", ~r.over, ~t.raced PROVE G[r.key] = NoBlob
    <3>1. F[r.key] = NoBlob /\ r.key \in BlobKeys /\ B = "s3" /\ r.key # k
      BY <2>3, <2>7 DEF ReqOK, KeyedPcs
    <3> QED
      BY <3>1 DEF Rewritten
  <2>8. ASSUME r.pc = "meta", B # "fs", ~t.raced PROVE r.got = G[r.key] \/ (B = "s3" /\ r.got = PlainType)
    <3>1. (r.got = F[r.key] \/ (B = "s3" /\ r.got = PlainType)) /\ r.key \in BlobKeys /\ r.key # k
      BY <2>3, <2>8 DEF ReqOK, KeyedPcs
    <3> QED
      BY <2>8, <3>1 DEF Rewritten
  <2>9. r.pc = "count" => t.raced
    BY <2>3
  <2>10. ReqOK(t, G, E, B)
    <3>1. t.pc \in LockPcs => B = "fs"
      BY <2>3
    <3> QED
      BY <2>3, <2>4, <2>5, <2>6, <2>7, <2>8, <2>9, <3>1 DEF ReqOK
  <2> QED
    BY <2>3, <2>10 DEF t
<1> QED
  BY <1>1, <1>2

(* A request that is not told: only temporary files changed.               *)
LEMMA UntoldIsOK ==
    ASSUME NEW F, NEW G, NEW D, NEW E, NEW B, NEW r, ReqOK(r, F, D, B), r.pc \notin LockPcs,
           \A j \in BlobKeys : G[j] = F[j] \/ (B = "fs" /\ Hidden(j))
    PROVE  ReqOK(r, G, E, B)
<1>1. r \in ReqShapes /\ r.pc # "rename"
  BY DEF ReqOK, LockPcs
<1>2. ASSUME r.pc = "walk" PROVE WalkOK(r, G, B)
  <2>1. WalkOK(r, F, B) /\ r.stable \subseteq BlobKeys
    BY <1>1, <1>2 DEF ReqOK, ReqShapes
  <2> QED
    BY <2>1 DEF WalkOK
<1>3. ASSUME r.pc = "put" \/ (r.pc = "meta" /\ B # "fs") PROVE G[r.key] = F[r.key]
  BY <1>3 DEF ReqOK, KeyedPcs
<1>4. ASSUME B = "s3"
      PROVE  {k \in BlobKeys : G[k] # NoBlob /\ Passed(r, k)} = {k \in BlobKeys : F[k] # NoBlob /\ Passed(r, k)}
  BY <1>4
<1> QED
  BY <1>1, <1>2, <1>3, <1>4 DEF ReqOK

(* So is a request that has ended.                                         *)
LEMMA IdleBlobIsOK ==
    /\ IdleBlob \in ReqShapes /\ NoBlob \in Contents /\ Torn \in Contents
    /\ \A F, D, B : ReqOK(IdleBlob, F, D, B)
    /\ IdleBlob.pc \notin LockPcs
<1>1. MaxUploads \in Nat \ {0}
  BY BlobAssumption DEF BlobAssumption
<1>2. NoBlob \in Contents /\ Torn \in Contents
  BY <1>1 DEF Contents, Torn, NoBlob
<1>3. IdleBlob \in ReqShapes
  BY <1>2 DEF IdleBlob, ReqShapes, BlobPcs
<1>4. IdleBlob.pc = "idle" /\ ~IdleBlob.twice
  BY DEF IdleBlob
<1> QED
  BY <1>2, <1>3, <1>4 DEF ReqOK, LockPcs, KeyedPcs

(* A step of p that writes nothing.                                        *)
LEMMA QuietKeeps ==
    ASSUME BlobsInv, NEW p \in BProcs, NEW r, breq' = [breq EXCEPT ![p] = r],
           UNCHANGED <<backend, bfiles, block, backed, bdirty>>,
           uploads' \in 0 .. MaxUploads, bops' \in 0 .. MaxBlobOps,
           ReqOK(r, bfiles, bdirty, backend), r.pc \in LockPcs <=> breq[p].pc \in LockPcs
    PROVE  BlobsInv'
<1>1. /\ breq'[p] = r /\ \A q \in BProcs \ {p} : breq'[q] = breq[q]
      /\ breq' = [q \in BProcs |-> breq'[q]]
  BY DEF BlobsInv
<1>2. \A q \in BProcs : /\ ReqOK(breq'[q], bfiles, bdirty, backend)
                        /\ breq'[q].pc \in LockPcs <=> block = q
  BY <1>1 DEF BlobsInv
<1> QED
  BY <1>1, <1>2 DEF BlobsInv

(* A step of p that writes k.                                              *)
LEMMA WriteKeeps ==
    ASSUME BlobsInv, NEW p \in BProcs, NEW r, NEW k, NEW present \in BOOLEAN,
           breq' = [Touch(breq, k, present) EXCEPT ![p] = r],
           UNCHANGED <<backend, uploads, bops>>,
           StoreOK(bfiles', backed', bdirty'), Rewritten(bfiles, bfiles', k, present, backend),
           \A q \in BProcs \ {p} : block # q /\ block' # q,
           ReqOK(r, bfiles', bdirty', backend), r.pc \in LockPcs <=> block' = p
    PROVE  BlobsInv'
<1>1. \A q \in BProcs : Touch(breq, k, present)[q] = Told(breq[q], k, present)
  BY DEF Touch, Told, Free
<1>2. /\ breq'[p] = r /\ \A q \in BProcs \ {p} : breq'[q] = Told(breq[q], k, present)
      /\ breq' = [q \in BProcs |-> breq'[q]]
  BY <1>1 DEF Touch
<1>3. ASSUME NEW q \in BProcs \ {p}
      PROVE  ReqOK(breq'[q], bfiles', bdirty', backend) /\ breq'[q].pc \notin LockPcs
  <2>1. ReqOK(breq[q], bfiles, bdirty, backend) /\ breq[q].pc \notin LockPcs
    BY DEF BlobsInv
  <2>2. ReqOK(Told(breq[q], k, present), bfiles', bdirty', backend)
        /\ Told(breq[q], k, present).pc = breq[q].pc
    BY <2>1, ToldIsOK
  <2> QED
    BY <1>2, <2>1, <2>2
<1>4. \A q \in BProcs : /\ ReqOK(breq'[q], bfiles', bdirty', backend')
                        /\ breq'[q].pc \in LockPcs <=> block' = q
  BY <1>2, <1>3
<1> QED
  BY <1>2, <1>4 DEF BlobsInv

(* The end of a request that fails, and of a temporary file it made.       *)
LEMMA FailureKeeps ==
    ASSUME BlobsInv, NEW p \in BProcs, Done(p), block = p, block' = "free",
           UNCHANGED <<backend, uploads, bops>>, StoreOK(bfiles', backed', bdirty'),
           \A j \in BlobKeys : bfiles'[j] = bfiles[j] \/ (backend = "fs" /\ Hidden(j))
    PROVE  BlobsInv'
<1>1. /\ breq'[p] = IdleBlob /\ \A q \in BProcs \ {p} : breq'[q] = breq[q]
      /\ breq' = [q \in BProcs |-> breq'[q]]
  BY DEF BlobsInv, Done
<1>2. "free" \notin BProcs
  BY BlobAssumption DEF BlobAssumption
<1>3. ASSUME NEW q \in BProcs \ {p}
      PROVE  ReqOK(breq'[q], bfiles', bdirty', backend) /\ breq'[q].pc \notin LockPcs
  <2>1. ReqOK(breq[q], bfiles, bdirty, backend) /\ breq[q].pc \notin LockPcs
    BY DEF BlobsInv
  <2>2. ReqOK(breq[q], bfiles', bdirty', backend)
    BY <2>1, UntoldIsOK
  <2> QED
    BY <1>1, <2>1, <2>2
<1>4. ReqOK(breq'[p], bfiles', bdirty', backend) /\ breq'[p].pc \notin LockPcs
  BY <1>1, IdleBlobIsOK
<1>5. \A q \in BProcs : /\ ReqOK(breq'[q], bfiles', bdirty', backend')
                        /\ breq'[q].pc \in LockPcs <=> block' = q
  BY <1>2, <1>3, <1>4
<1> QED
  BY <1>1, <1>5 DEF BlobsInv

(* No other request is in the middle of a write to files.                  *)
LEMMA LockIsOne ==
    ASSUME BlobsInv
    PROVE  /\ "free" \notin BProcs
           /\ \A q \in BProcs : breq[q].pc \in LockPcs => block = q /\ backend = "fs"
           /\ \A q \in BProcs : block = q => breq[q].pc \in LockPcs /\ backend = "fs"
BY BlobAssumption DEF BlobAssumption, BlobsInv, ReqOK

(* A step of p that only reads.                                            *)
LEMMA ReadKeeps ==
    ASSUME BlobsInv, NEW p \in BProcs, NEW r, breq' = [breq EXCEPT ![p] = r],
           UNCHANGED <<bfiles, bops>>, Quiet, breq[p].pc \notin LockPcs,
           ReqOK(r, bfiles, bdirty, backend), r.pc \notin LockPcs
    PROVE  BlobsInv'
<1>1. UNCHANGED <<backend, bfiles, block, backed, bdirty>> /\ uploads' \in 0 .. MaxUploads
      /\ bops' \in 0 .. MaxBlobOps
  BY DEF Quiet, BlobsInv
<1> QED
  BY <1>1, QuietKeeps

(* A request that ends without a write.                                    *)
LEMMA DoneKeeps ==
    ASSUME BlobsInv, NEW p \in BProcs, breq[p].pc \notin LockPcs, Done(p), UNCHANGED <<bfiles, bops>>, Quiet
    PROVE  BlobsInv'
BY ReadKeeps, IdleBlobIsOK DEF Done

(* A request that lands a content and is acknowledged.                     *)
LEMMA LandKeeps ==
    ASSUME BlobsInv, NEW p \in BProcs, NEW k \in BlobKeys, NEW v \in Contents,
           NEW step \in {"created", "idle"}, Land(p, k, v, step), UNCHANGED <<backend, uploads, bops>>,
           \A q \in BProcs \ {p} : block # q, \A q \in BProcs : block' # q,
           step = "created" /\ ~breq[p].over => bfiles[k] = NoBlob \/ (backend = "s3" /\ breq[p].raced)
    PROVE  BlobsInv'
<1> DEFINE r == [IdleBlob EXCEPT !.pc = step, !.over = breq[p].over, !.raced = breq[p].raced,
                                 !.prior = IF breq[p].over THEN NoBlob ELSE bfiles[k]]
<1>1. breq[p] \in ReqShapes /\ k \in BlobFiles /\ bfiles[k] \in Contents
  BY KeysAreOrdered DEF BlobsInv, ReqOK, StoreOK
<1>2. /\ r \in ReqShapes /\ r.pc = step /\ r.over = breq[p].over /\ r.raced = breq[p].raced
      /\ ~r.twice /\ r.prior = IF breq[p].over THEN NoBlob ELSE bfiles[k]
  <2>1. IdleBlob \in ReqShapes /\ NoBlob \in Contents /\ ~IdleBlob.twice
    BY IdleBlobIsOK DEF IdleBlob
  <2>2. step \in BlobPcs /\ breq[p].over \in BOOLEAN /\ breq[p].raced \in BOOLEAN
    BY <1>1 DEF BlobPcs, ReqShapes
  <2> QED
    BY <1>1, <2>1, <2>2 DEF ReqShapes
<1>3. breq' = [Touch(breq, k, v # NoBlob) EXCEPT ![p] = r]
  BY DEF Land
<1> HIDE DEF r
<1>4. ReqOK(r, bfiles', bdirty', backend) /\ r.pc \notin LockPcs
  BY <1>2 DEF ReqOK, LockPcs, KeyedPcs
<1>5. StoreOK(bfiles', backed', bdirty')
  BY <1>1 DEF StoreOK, BlobsInv, Land
<1>6. Rewritten(bfiles, bfiles', k, v # NoBlob, backend)
  BY <1>1, KeysAreOrdered DEF Rewritten, Land, BlobsInv, StoreOK
<1> QED
  BY <1>3, <1>4, <1>5, <1>6, WriteKeeps

(* A request begins.                                                       *)
LEMMA AsksKeep ==
    ASSUME BlobsInv, NEW p \in BProcs, NEW r, breq' = [breq EXCEPT ![p] = r], NewBlobOp(p),
           UNCHANGED <<backend, bfiles, block, backed, bdirty>>, uploads' \in 0 .. MaxUploads,
           ReqOK(r, bfiles, bdirty, backend), r.pc \notin LockPcs
    PROVE  BlobsInv'
<1>1. breq[p].pc \notin LockPcs
  BY DEF NewBlobOp, Free, Answered, LockPcs
<1>2. bops' \in 0 .. MaxBlobOps
  BY BlobAssumption DEF BlobAssumption, NewBlobOp, BlobsInv
<1> QED
  BY <1>1, <1>2, QuietKeeps

(* An upload begins.                                                       *)
LEMMA AskUploadKeeps ==
    ASSUME BlobsInv, NEW p \in BProcs, AskUpload(p)
    PROVE  BlobsInv'
<1>1. PICK k \in BlobKeys, over \in BOOLEAN :
          breq' = [breq EXCEPT ![p] = Asked(p, IF backend = "s3" /\ over THEN "put" ELSE "upload", k, over)]
  BY DEF AskUpload
<1> DEFINE step == IF backend = "s3" /\ over THEN "put" ELSE "upload"
           r == Asked(p, step, k, over)
<1>2. uploads + 1 \in 1 .. MaxUploads /\ uploads' \in 0 .. MaxUploads
  BY BlobAssumption DEF BlobAssumption, AskUpload, BlobsInv
<1>3. step \in BlobPcs /\ step \in {"put", "upload"} /\ (step = "put" => backend = "s3" /\ over)
  BY DEF BlobPcs
<1>4. uploads + 1 \in Contents
  BY <1>2, BlobAssumption DEF Contents, NoBlob, Torn, BlobAssumption
<1>5. IdleBlob \in ReqShapes /\ ~IdleBlob.twice /\ IdleBlob.prior = NoBlob
  BY IdleBlobIsOK DEF IdleBlob
<1> HIDE DEF step
<1>6. r \in ReqShapes /\ r.pc = step /\ r.key = k /\ r.over = over /\ r.body = uploads + 1 /\ ~r.twice
      /\ r.prior = NoBlob
  BY <1>3, <1>4, <1>5 DEF ReqShapes, Asked
<1>7. breq' = [breq EXCEPT ![p] = r]
  BY <1>1 DEF step
<1> HIDE DEF r
<1>8. ReqOK(r, bfiles, bdirty, backend) /\ r.pc \notin LockPcs
  BY <1>2, <1>3, <1>6 DEF ReqOK, LockPcs
<1> QED
  BY <1>2, <1>7, <1>8, AsksKeep DEF AskUpload

(* fs_upload has opened its temporary file.                                *)
LEMMA FsOpenTempKeeps ==
    ASSUME BlobsInv, NEW p \in BProcs, FsOpenTemp(p)
    PROVE  BlobsInv'
<1> DEFINE b == breq[p]
           k == TempOf(b.key)
           r == [b EXCEPT !.pc = "rename"]
<1>1. /\ ReqOK(b, bfiles, bdirty, backend) /\ b \in ReqShapes /\ b.pc = "upload" /\ b.key \in BlobKeys
      /\ b.body \in 1 .. MaxUploads /\ (~b.over => bfiles[b.key] = NoBlob) /\ ~b.twice
  BY DEF BlobsInv, ReqOK, FsOpenTemp, MayWrite, KeyedPcs, Stored
<1>2. /\ r \in ReqShapes /\ r.pc = "rename" /\ r.key = b.key /\ r.body = b.body /\ r.over = b.over
      /\ ~r.twice
  BY <1>1 DEF ReqShapes, BlobPcs
<1>3. k \in BlobFiles /\ k # b.key
  BY <1>1, TempFilesAreHidden
<1>4. breq' = [Touch(breq, k, FALSE) EXCEPT ![p] = r] /\ block' = p /\ backend = "fs" /\ block = "free"
      /\ UNCHANGED <<backend, backed, uploads, bops>> /\ bfiles' = [bfiles EXCEPT ![k] = Torn]
      /\ bdirty' = bdirty \cup ({k} \cap BlobKeys)
  BY DEF FsOpenTemp, MayWrite, Unlocked
<1>5. k = TempOf(b.key)
  OBVIOUS
<1> HIDE DEF r, k
<1>6. StoreOK(bfiles', backed', bdirty')
  <2>1. Torn \in Contents
    BY IdleBlobIsOK
  <2> QED
    BY <1>3, <1>4, <2>1 DEF BlobsInv, StoreOK
<1>7. Rewritten(bfiles, bfiles', k, FALSE, backend)
  BY <1>3, <1>4, KeysAreOrdered DEF BlobsInv, StoreOK, Rewritten
<1>8. bfiles'[b.key] = bfiles[b.key]
  BY <1>1, <1>3, <1>4, KeysAreOrdered DEF BlobsInv, StoreOK
<1>9. ReqOK(r, bfiles', bdirty', backend)
  BY <1>1, <1>2, <1>4, <1>5, <1>8 DEF ReqOK, LockPcs, KeyedPcs
<1>10. \A q \in BProcs \ {p} : block # q /\ block' # q
  BY <1>4, LockIsOne
<1> QED
  BY <1>2, <1>4, <1>6, <1>7, <1>9, <1>10, WriteKeeps DEF LockPcs

(* The temporary file takes the blob's name.                               *)
LEMMA FsRenameKeeps ==
    ASSUME BlobsInv, NEW p \in BProcs, FsRename(p)
    PROVE  BlobsInv'
<1> DEFINE b == breq[p]
           k == b.key
           r == [IdleBlob EXCEPT !.pc = "created", !.over = b.over,
                                 !.prior = IF b.over THEN NoBlob ELSE bfiles[k]]
<1>1. /\ b \in ReqShapes /\ b.pc = "rename" /\ k \in BlobKeys /\ backend = "fs" /\ block = p
      /\ b.body \in 1 .. MaxUploads /\ (~b.over => bfiles[k] = NoBlob)
      /\ {TempOf(k)} \cap BlobKeys \subseteq bdirty
  BY DEF BlobsInv, ReqOK, FsRename, KeyedPcs, LockPcs
<1>2. TempOf(k) \in BlobFiles /\ k \in BlobFiles /\ k # TempOf(k) /\ Hidden(TempOf(k))
      /\ b.body \in Contents /\ b.body # NoBlob /\ b.body # Torn
  BY <1>1, TempFilesAreHidden, KeysAreOrdered, BlobAssumption DEF Contents, NoBlob, Torn, BlobAssumption
<1>3. /\ breq' = [Touch(breq, k, TRUE) EXCEPT ![p] = r] /\ block' = "free"
      /\ UNCHANGED <<backend, uploads, bops>>
      /\ bfiles' = [bfiles EXCEPT ![TempOf(k)] = NoBlob, ![k] = b.body]
      /\ backed' = [backed EXCEPT ![k] = b.body] /\ bdirty' = bdirty \ {k}
  BY DEF FsRename
<1>4. r \in ReqShapes /\ r.pc = "created" /\ r.prior = NoBlob /\ ~r.twice
  <2>1. (IF b.over THEN NoBlob ELSE bfiles[k]) = NoBlob
    BY <1>1
  <2>2. IdleBlob \in ReqShapes /\ NoBlob \in Contents /\ ~IdleBlob.twice /\ b.over \in BOOLEAN
    BY <1>1, IdleBlobIsOK DEF IdleBlob, ReqShapes
  <2> QED
    BY <2>1, <2>2 DEF ReqShapes, BlobPcs
<1> HIDE DEF r
<1>5. /\ \A f \in BlobFiles : bfiles'[f] = IF f = k THEN b.body ELSE IF f = TempOf(k) THEN NoBlob ELSE bfiles[f]
      /\ bfiles' \in [BlobFiles -> Contents]
  <2>1. NoBlob \in Contents /\ bfiles \in [BlobFiles -> Contents]
    BY IdleBlobIsOK DEF BlobsInv, StoreOK
  <2> QED
    BY <1>2, <1>3, <2>1
<1>6. StoreOK(bfiles', backed', bdirty')
  <2>1. /\ backed \in [BlobKeys -> Contents] /\ bdirty \subseteq BlobKeys /\ BlobKeys \subseteq BlobFiles
        /\ \A j \in BlobKeys \ bdirty : bfiles[j] = backed[j]
        /\ \A j \in BlobKeys : bfiles[j] = Torn => j \in bdirty
    BY KeysAreOrdered DEF BlobsInv, StoreOK
  <2>2. NoBlob # Torn
    BY BlobAssumption DEF BlobAssumption, NoBlob, Torn
  <2> QED
    BY <1>1, <1>2, <1>3, <1>5, <2>1, <2>2 DEF StoreOK
<1>7. Rewritten(bfiles, bfiles', k, TRUE, backend)
  BY <1>1, <1>2, <1>5, KeysAreOrdered DEF Rewritten
<1>8. ReqOK(r, bfiles', bdirty', backend) /\ r.pc \notin LockPcs
  BY <1>4 DEF ReqOK, LockPcs, KeyedPcs
<1>9. \A q \in BProcs : block' # q
  BY <1>3, LockIsOne
<1> QED
  BY <1>1, <1>3, <1>6, <1>7, <1>8, <1>9, WriteKeeps

(* The write or the rename fails.                                          *)
LEMMA FsUploadFailsKeeps ==
    ASSUME BlobsInv, NEW p \in BProcs, FsUploadFails(p)
    PROVE  BlobsInv'
<1> DEFINE k == breq[p].key
<1>1. /\ breq[p].pc = "rename" /\ k \in BlobKeys /\ backend = "fs" /\ block = p
      /\ {TempOf(k)} \cap BlobKeys \subseteq bdirty
  BY DEF BlobsInv, ReqOK, FsUploadFails, KeyedPcs, LockPcs
<1>2. TempOf(k) \in BlobFiles /\ Hidden(TempOf(k)) /\ NoBlob \in Contents
  BY <1>1, TempFilesAreHidden, IdleBlobIsOK
<1>3. /\ bfiles' = [bfiles EXCEPT ![TempOf(k)] = NoBlob] /\ Done(p) /\ block' = "free"
      /\ UNCHANGED <<backend, backed, bdirty, uploads, bops>>
  BY DEF FsUploadFails
<1> HIDE DEF k
<1>4. StoreOK(bfiles', backed', bdirty')
  <2>1. NoBlob # Torn
    BY BlobAssumption DEF BlobAssumption, NoBlob, Torn
  <2> QED
    BY <1>1, <1>2, <1>3, <2>1, KeysAreOrdered DEF BlobsInv, StoreOK
<1>5. \A j \in BlobKeys : bfiles'[j] = bfiles[j] \/ (backend = "fs" /\ Hidden(j))
  BY <1>1, <1>2, <1>3, KeysAreOrdered DEF BlobsInv, StoreOK
<1> QED
  BY <1>1, <1>3, <1>4, <1>5, FailureKeeps

(* The overwrite check of S3.                                              *)
LEMMA S3HeadForUploadKeeps ==
    ASSUME BlobsInv, NEW p \in BProcs, S3HeadForUpload(p)
    PROVE  BlobsInv'
<1> DEFINE b == breq[p]
<1>1. /\ b \in ReqShapes /\ b.pc = "upload" /\ b.key \in BlobKeys /\ backend = "s3"
      /\ b.body \in 1 .. MaxUploads /\ ~b.twice
  BY DEF BlobsInv, ReqOK, S3HeadForUpload, KeyedPcs
<1>2. PICK late \in BOOLEAN :
          /\ breq' = [breq EXCEPT ![p] = [b EXCEPT !.pc = "put", !.raced = late]]
          /\ bfiles[b.key] = NoBlob \/ late
  <2>1. b.raced \in BOOLEAN /\ [b EXCEPT !.pc = "put"] = [b EXCEPT !.pc = "put", !.raced = b.raced]
    BY <1>1 DEF ReqShapes
  <2>2. breq = [q \in BProcs |-> breq[q]]
    BY DEF BlobsInv
  <2>3. [breq EXCEPT ![p].pc = "put"] = [breq EXCEPT ![p] = [b EXCEPT !.pc = "put", !.raced = b.raced]]
    BY <2>1, <2>2
  <2>4. [breq EXCEPT ![p].pc = "put", ![p].raced = TRUE]
           = [breq EXCEPT ![p] = [b EXCEPT !.pc = "put", !.raced = TRUE]]
    BY <2>2
  <2> QED
    BY <2>1, <2>3, <2>4 DEF S3HeadForUpload, Stored
<1> DEFINE r == [b EXCEPT !.pc = "put", !.raced = late]
<1>3. /\ r \in ReqShapes /\ r.pc = "put" /\ r.key = b.key /\ r.body = b.body /\ r.over = b.over
      /\ ~r.twice /\ r.raced = late
  BY <1>1, <1>2 DEF ReqShapes, BlobPcs
<1> HIDE DEF r
<1>4. ReqOK(r, bfiles, bdirty, backend) /\ r.pc \notin LockPcs /\ breq[p].pc \notin LockPcs
  BY <1>1, <1>2, <1>3 DEF ReqOK, LockPcs, KeyedPcs
<1>5. breq' = [breq EXCEPT ![p] = r] /\ UNCHANGED <<bfiles, bops>> /\ Quiet
  BY <1>2 DEF S3HeadForUpload, r
<1> QED
  BY <1>4, <1>5, ReadKeeps

(* A write to S3 that lands and is not answered.                           *)
LEMMA UnansweredKeeps ==
    ASSUME BlobsInv, NEW p \in BProcs, NEW k \in BlobKeys, NEW v \in Contents, LandUnanswered(p, k, v),
           backend # "fs", UNCHANGED <<backend, block, uploads, bops>>
    PROVE  BlobsInv'
<1> DEFINE present == v # NoBlob
<1>1. /\ bfiles' = [bfiles EXCEPT ![k] = v] /\ bdirty' = bdirty \cup {k} /\ UNCHANGED backed
      /\ breq' = [Touch(breq, k, present) EXCEPT ![p] = IdleBlob]
  BY DEF LandUnanswered
<1>2. \A q \in BProcs : block # q /\ block' # q
  BY LockIsOne
<1>3. present \in BOOLEAN /\ (~present <=> v = NoBlob)
  OBVIOUS
<1> HIDE DEF present
<1>4. StoreOK(bfiles', backed', bdirty') /\ Rewritten(bfiles, bfiles', k, present, backend)
  BY <1>1, <1>3, KeysAreOrdered DEF BlobsInv, StoreOK, Rewritten
<1> QED
  BY <1>1, <1>2, <1>3, <1>4, IdleBlobIsOK, WriteKeeps

(* What an upload, a copy or a delete lands, where no file is half way.    *)
LEMMA UploadsKeep ==
    ASSUME BlobsInv, NEW p \in BProcs,
           UploadConflicts(p) \/ MemoryUpload(p) \/ S3Put(p) \/ S3PutUnanswered(p) \/ S3CallFails(p)
    PROVE  BlobsInv'
<1>1. ReqOK(breq[p], bfiles, bdirty, backend) /\ breq[p] \in ReqShapes
  BY DEF BlobsInv, ReqOK
<1>2. 1 .. MaxUploads \subseteq Contents
  BY BlobAssumption DEF BlobAssumption, Contents, NoBlob, Torn
<1>3. CASE UploadConflicts(p) \/ S3CallFails(p)
  <2>1. breq[p].pc \notin LockPcs /\ Done(p) /\ UNCHANGED <<bfiles, bops>> /\ Quiet
    BY <1>3 DEF UploadConflicts, S3CallFails, LockPcs
  <2> QED
    BY <2>1, DoneKeeps
<1>4. CASE MemoryUpload(p) \/ S3Put(p)
  <2>1. /\ breq[p].key \in BlobKeys /\ breq[p].body \in Contents
        /\ backend # "fs" /\ UNCHANGED <<backend, block, uploads, bops>>
        /\ Land(p, breq[p].key, breq[p].body, "created")
        /\ ~breq[p].over => bfiles[breq[p].key] = NoBlob \/ (backend = "s3" /\ breq[p].raced)
    BY <1>1, <1>2, <1>4 DEF MemoryUpload, MayWrite, Stored, S3Put, ReqOK, KeyedPcs
  <2>2. \A q \in BProcs : block # q /\ block' # q
    BY <2>1, LockIsOne
  <2> QED
    BY <2>1, <2>2, LandKeeps
<1>5. CASE S3PutUnanswered(p)
  <2>1. /\ breq[p].key \in BlobKeys /\ breq[p].body \in Contents /\ backend # "fs"
        /\ LandUnanswered(p, breq[p].key, breq[p].body) /\ UNCHANGED <<backend, block, uploads, bops>>
    BY <1>1, <1>2, <1>5 DEF S3PutUnanswered, ReqOK, KeyedPcs
  <2> QED
    BY <2>1, UnansweredKeeps
<1> QED
  BY <1>3, <1>4, <1>5

(* The steps of a delete.                                                  *)
LEMMA DeletesKeep ==
    ASSUME BlobsInv, NEW p \in BProcs,
           \/ AskDelete(p) \/ DeleteMisses(p) \/ LocalDelete(p) \/ S3HeadForDelete(p) \/ S3Delete(p)
           \/ S3DeleteUnanswered(p)
    PROVE  BlobsInv'
<1>1. ReqOK(breq[p], bfiles, bdirty, backend) /\ breq[p] \in ReqShapes
  BY DEF BlobsInv, ReqOK
<1>2. CASE AskDelete(p)
  <2>1. PICK k \in BlobKeys : breq' = [breq EXCEPT ![p] =
            [IdleBlob EXCEPT !.pc = IF backend = "s3" THEN "head" ELSE "delete", !.key = k]]
    BY <1>2 DEF AskDelete
  <2> DEFINE step == IF backend = "s3" THEN "head" ELSE "delete"
             r == [IdleBlob EXCEPT !.pc = step, !.key = k]
  <2>2. step \in {"head", "delete"}
    OBVIOUS
  <2> HIDE DEF step
  <2>3. r \in ReqShapes /\ r.pc = step /\ r.key = k /\ ~r.twice
    BY <2>2, IdleBlobIsOK DEF ReqShapes, IdleBlob, BlobPcs
  <2>4. breq' = [breq EXCEPT ![p] = r]
    BY <2>1 DEF step
  <2> HIDE DEF r
  <2>5. ReqOK(r, bfiles, bdirty, backend) /\ r.pc \notin LockPcs
    BY <2>2, <2>3 DEF ReqOK, LockPcs
  <2>6. NewBlobOp(p) /\ UNCHANGED <<backend, bfiles, block, backed, bdirty>> /\ uploads' \in 0 .. MaxUploads
    BY <1>2 DEF AskDelete, Quiet, BlobsInv
  <2> QED
    BY <2>4, <2>5, <2>6, AsksKeep
<1>3. CASE DeleteMisses(p)
  <2>1. breq[p].pc \notin LockPcs /\ Done(p) /\ UNCHANGED <<bfiles, bops>> /\ Quiet
    BY <1>3 DEF DeleteMisses, LockPcs
  <2> QED
    BY <2>1, DoneKeeps
<1>4. CASE S3HeadForDelete(p)
  <2> DEFINE r == [breq[p] EXCEPT !.pc = "delete"]
  <2>1. breq[p].pc = "head" /\ breq[p].key \in BlobKeys /\ (breq[p].twice => backend = "memory")
    BY <1>1, <1>4 DEF S3HeadForDelete, ReqOK, KeyedPcs
  <2>2. r \in ReqShapes /\ r.pc = "delete" /\ r.key = breq[p].key /\ (r.twice <=> breq[p].twice)
    BY <1>1 DEF ReqShapes, BlobPcs
  <2>3. breq' = [breq EXCEPT ![p] = r]
    BY <1>4 DEF S3HeadForDelete, BlobsInv
  <2> HIDE DEF r
  <2>4. ReqOK(r, bfiles, bdirty, backend) /\ r.pc \notin LockPcs /\ breq[p].pc \notin LockPcs
    BY <1>1, <2>1, <2>2 DEF ReqOK, LockPcs, KeyedPcs
  <2> QED
    BY <1>4, <2>3, <2>4, ReadKeeps DEF S3HeadForDelete
<1>5. CASE LocalDelete(p) \/ S3Delete(p)
  <2>1. /\ breq[p].key \in BlobKeys /\ NoBlob \in Contents
        /\ UNCHANGED <<backend, block, uploads, bops>> /\ Land(p, breq[p].key, NoBlob, "idle")
        /\ backend # "fs" \/ block = "free"
    BY <1>1, <1>5, IdleBlobIsOK DEF LocalDelete, S3Delete, ReqOK, KeyedPcs, Unlocked
  <2>2. \A q \in BProcs : block # q /\ block' # q
    BY <2>1, LockIsOne
  <2> QED
    BY <2>1, <2>2, LandKeeps
<1>6. CASE S3DeleteUnanswered(p)
  <2>1. /\ breq[p].key \in BlobKeys /\ NoBlob \in Contents /\ backend # "fs"
        /\ LandUnanswered(p, breq[p].key, NoBlob) /\ UNCHANGED <<backend, block, uploads, bops>>
    BY <1>1, <1>6, IdleBlobIsOK DEF S3DeleteUnanswered, ReqOK, KeyedPcs
  <2> QED
    BY <2>1, UnansweredKeeps
<1> QED
  BY <1>2, <1>3, <1>4, <1>5, <1>6

(* The steps of a copy.                                                    *)
LEMMA CopiesKeep ==
    ASSUME BlobsInv, NEW p \in BProcs,
           \/ AskCopy(p) \/ CopyMisses(p) \/ MemoryCopy(p) \/ S3Copy(p) \/ FsCopyStart(p)
           \/ FsCopyEnd(p) \/ FsCopyFails(p) \/ S3CopyUnanswered(p)
    PROVE  BlobsInv'
<1>1. ReqOK(breq[p], bfiles, bdirty, backend) /\ breq[p] \in ReqShapes /\ bfiles \in [BlobFiles -> Contents]
  BY DEF BlobsInv, ReqOK, StoreOK
<1>2. CASE AskCopy(p)
  <2>1. PICK k \in BlobKeys, from \in BlobKeys : breq' = [breq EXCEPT ![p] =
            [IdleBlob EXCEPT !.pc = "copy", !.key = k, !.token = from]]
    BY <1>2 DEF AskCopy
  <2> DEFINE r == [IdleBlob EXCEPT !.pc = "copy", !.key = k, !.token = from]
  <2>2. r \in ReqShapes /\ r.pc = "copy" /\ r.key = k /\ r.token = from /\ r.over /\ ~r.twice
    BY IdleBlobIsOK DEF ReqShapes, IdleBlob, BlobPcs
  <2>3. breq' = [breq EXCEPT ![p] = r]
    BY <2>1
  <2> HIDE DEF r
  <2>4. ReqOK(r, bfiles, bdirty, backend) /\ r.pc \notin LockPcs
    BY <2>2 DEF ReqOK, LockPcs
  <2>5. NewBlobOp(p) /\ UNCHANGED <<backend, bfiles, block, backed, bdirty>> /\ uploads' \in 0 .. MaxUploads
    BY <1>2 DEF AskCopy, Quiet, BlobsInv
  <2> QED
    BY <2>3, <2>4, <2>5, AsksKeep
<1>3. CASE CopyMisses(p)
  <2>1. breq[p].pc \notin LockPcs /\ Done(p) /\ UNCHANGED <<bfiles, bops>> /\ Quiet
    BY <1>3 DEF CopyMisses, LockPcs
  <2> QED
    BY <2>1, DoneKeeps
<1>4. CASE MemoryCopy(p) \/ S3Copy(p)
  <2>1. /\ breq[p].pc = "copy" /\ backend # "fs" /\ UNCHANGED <<backend, block, uploads, bops>>
        /\ Land(p, breq[p].key, bfiles[breq[p].token], "created")
    BY <1>4 DEF MemoryCopy, S3Copy
  <2>2. breq[p].key \in BlobKeys /\ breq[p].token \in BlobKeys /\ breq[p].over
    BY <1>1, <2>1 DEF ReqOK, KeyedPcs
  <2>3. bfiles[breq[p].token] \in Contents
    BY <1>1, <2>2, KeysAreOrdered
  <2>4. \A q \in BProcs : block # q /\ block' # q
    BY <2>1, LockIsOne
  <2> QED
    BY <2>1, <2>2, <2>3, <2>4, LandKeeps
<1>5. CASE FsCopyStart(p)
  <2> DEFINE b == breq[p]
             k == b.key
             v == bfiles[b.token]
             r == [b EXCEPT !.pc = "copying", !.body = v]
  <2>1. /\ b.pc = "copy" /\ backend = "fs" /\ block = "free" /\ block' = p
        /\ bfiles' = [bfiles EXCEPT ![k] = Torn] /\ bdirty' = bdirty \cup {k}
        /\ breq' = [Touch(breq, k, TRUE) EXCEPT ![p] = r]
        /\ UNCHANGED <<backend, backed, uploads, bops>>
    BY <1>5 DEF FsCopyStart, Unlocked
  <2>2. k \in BlobKeys /\ b.token \in BlobKeys /\ b.over /\ ~b.twice
    BY <1>1, <2>1 DEF ReqOK, KeyedPcs
  <2>3. v \in Contents /\ Torn \in Contents /\ Torn # NoBlob
    BY <1>1, <2>2, KeysAreOrdered, IdleBlobIsOK, BlobAssumption DEF BlobAssumption, Torn, NoBlob
  <2> HIDE DEF v
  <2>4. r \in ReqShapes /\ r.pc = "copying" /\ r.key = k /\ r.over /\ ~r.twice
    BY <1>1, <2>2, <2>3 DEF ReqShapes, BlobPcs
  <2> HIDE DEF r, k
  <2>5. StoreOK(bfiles', backed', bdirty') /\ Rewritten(bfiles, bfiles', k, TRUE, backend)
    BY <2>1, <2>2, <2>3, KeysAreOrdered DEF BlobsInv, StoreOK, Rewritten
  <2>6. ReqOK(r, bfiles', bdirty', backend)
    BY <2>1, <2>2, <2>4 DEF ReqOK, LockPcs
  <2>7. \A q \in BProcs \ {p} : block # q /\ block' # q
    BY <2>1, LockIsOne
  <2> QED
    BY <2>1, <2>4, <2>5, <2>6, <2>7, WriteKeeps DEF LockPcs
<1>6. CASE FsCopyEnd(p)
  <2>1. /\ breq[p].pc = "copying" /\ block' = "free" /\ UNCHANGED <<backend, uploads, bops>>
        /\ Land(p, breq[p].key, breq[p].body, "created")
    BY <1>6 DEF FsCopyEnd
  <2>2. breq[p].key \in BlobKeys /\ breq[p].body \in Contents /\ breq[p].over /\ block = p
    BY <1>1, <2>1, LockIsOne DEF ReqOK, KeyedPcs, ReqShapes, LockPcs
  <2>3. \A q \in BProcs \ {p} : block # q
    BY <2>2
  <2>4. \A q \in BProcs : block' # q
    BY <2>1, LockIsOne
  <2> QED
    BY <2>1, <2>2, <2>3, <2>4, LandKeeps
<1>7. CASE FsCopyFails(p)
  <2>1. /\ breq[p].pc = "copying" /\ Done(p) /\ block' = "free"
        /\ UNCHANGED <<backend, bfiles, backed, bdirty, uploads, bops>>
    BY <1>7 DEF FsCopyFails
  <2>2. block = p /\ StoreOK(bfiles, backed, bdirty)
    BY <2>1, LockIsOne DEF LockPcs, BlobsInv
  <2>3. StoreOK(bfiles', backed', bdirty') /\ \A j \in BlobKeys : bfiles'[j] = bfiles[j]
    BY <2>1, <2>2
  <2> QED
    BY <2>1, <2>2, <2>3, FailureKeeps
<1>8. CASE S3CopyUnanswered(p)
  <2>1. /\ breq[p].pc = "copy" /\ backend # "fs" /\ UNCHANGED <<backend, block, uploads, bops>>
        /\ LandUnanswered(p, breq[p].key, bfiles[breq[p].token])
    BY <1>8 DEF S3CopyUnanswered
  <2>2. breq[p].key \in BlobKeys /\ breq[p].token \in BlobKeys
    BY <1>1, <2>1 DEF ReqOK, KeyedPcs
  <2>3. bfiles[breq[p].token] \in Contents
    BY <1>1, <2>2, KeysAreOrdered
  <2> QED
    BY <2>1, <2>2, <2>3, UnansweredKeeps
<1> QED
  BY <1>2, <1>3, <1>4, <1>5, <1>6, <1>7, <1>8

(* The two reads of a download.                                            *)
LEMMA DownloadsKeep ==
    ASSUME BlobsInv, NEW p \in BProcs, AskDownload(p) \/ SendBlob(p)
    PROVE  BlobsInv'
<1>1. /\ ReqOK(breq[p], bfiles, bdirty, backend) /\ breq[p] \in ReqShapes
      /\ bfiles \in [BlobFiles -> Contents] /\ BlobKeys \subseteq BlobFiles
      /\ \A k \in BlobKeys : bfiles[k] = Torn => k \in bdirty
  BY KeysAreOrdered DEF BlobsInv, ReqOK, StoreOK
<1>2. CASE AskDownload(p)
  <2>1. PICK k \in BlobKeys : \E type \in TypesOf(k) : breq' = [breq EXCEPT ![p] =
            [IdleBlob EXCEPT !.pc = "meta", !.key = k, !.got = type]]
    BY <1>2 DEF AskDownload
  <2>9. PICK got \in TypesOf(k) : breq' = [breq EXCEPT ![p] =
            [IdleBlob EXCEPT !.pc = "meta", !.key = k, !.got = got]]
    BY <2>1
  <2> DEFINE r == [IdleBlob EXCEPT !.pc = "meta", !.key = k, !.got = got]
  <2>2. got \in Contents /\ (backend # "fs" => got = bfiles[k] \/ (backend = "s3" /\ got = PlainType))
    BY <1>1, <2>9, IdleBlobIsOK DEF TypesOf, PlainType
  <2>3. r \in ReqShapes /\ r.pc = "meta" /\ r.key = k /\ r.got = got /\ ~r.twice
    BY <2>2, IdleBlobIsOK DEF ReqShapes, IdleBlob, BlobPcs
  <2>4. breq' = [breq EXCEPT ![p] = r]
    BY <2>9
  <2> HIDE DEF r
  <2>5. ReqOK(r, bfiles, bdirty, backend) /\ r.pc \notin LockPcs
    BY <2>2, <2>3 DEF ReqOK, LockPcs
  <2>6. NewBlobOp(p) /\ UNCHANGED <<backend, bfiles, block, backed, bdirty>> /\ uploads' \in 0 .. MaxUploads
    BY <1>2 DEF AskDownload, Quiet, BlobsInv
  <2> QED
    BY <2>4, <2>5, <2>6, AsksKeep
<1>3. CASE SendBlob(p)
  <2> DEFINE b == breq[p]
             v == bfiles[b.key]
             clean == {b.key} \ bdirty
             r == [b EXCEPT !.pc = "sent", !.body = v, !.stable = clean]
  <2>1. b.pc = "meta" /\ b.pc \notin LockPcs /\ UNCHANGED <<bfiles, bops>> /\ Quiet /\ b.key \in BlobKeys
    BY <1>1, <1>3 DEF SendBlob, ReqOK, KeyedPcs, LockPcs
  <2>2. CASE ~Stored(b.key)
    BY <1>3, <2>1, <2>2, DoneKeeps DEF SendBlob
  <2>3. CASE Stored(b.key)
    <3>1. breq' = [breq EXCEPT ![p] = r]
      <4>1. breq = [q \in BProcs |-> breq[q]]
        BY DEF BlobsInv
      <4> QED
        BY <1>3, <2>3, <4>1 DEF SendBlob
    <3>2. v \in Contents /\ clean \in SUBSET BlobKeys /\ (v = Torn => clean = {})
      BY <1>1, <2>1
    <3>3. /\ b.twice => backend = "memory"
          /\ backend # "fs" /\ ~b.raced => b.got = v \/ (backend = "s3" /\ b.got = PlainType)
      BY <1>1, <2>1 DEF ReqOK
    <3> HIDE DEF v, clean
    <3>4. /\ r \in ReqShapes /\ r.pc = "sent" /\ r.body = v /\ r.stable = clean /\ r.got = b.got
          /\ (r.raced <=> b.raced) /\ (r.twice <=> b.twice)
      BY <1>1, <3>2 DEF ReqShapes, BlobPcs
    <3> HIDE DEF r
    <3>5. ReqOK(r, bfiles, bdirty, backend) /\ r.pc \notin LockPcs
      BY <3>2, <3>3, <3>4 DEF ReqOK, LockPcs, KeyedPcs
    <3> QED
      BY <2>1, <3>1, <3>5, ReadKeeps
  <2> QED
    BY <2>2, <2>3
<1> QED
  BY <1>2, <1>3

(* A listing begins.                                                       *)
LEMMA AskListKeeps ==
    ASSUME BlobsInv, NEW p \in BProcs, AskList(p)
    PROVE  BlobsInv'
<1> DEFINE here == StoredKeys
           r == [IdleBlob EXCEPT !.pc = "walk", !.stable = here]
<1>1. here \in SUBSET BlobKeys /\ \A k \in here : bfiles[k] # NoBlob
  BY DEF StoredKeys, Stored
<1>2. breq' = [breq EXCEPT ![p] = r]
  BY DEF AskList
<1> HIDE DEF here
<1>3. r \in ReqShapes /\ r.pc = "walk" /\ r.stable = here /\ r.token = NoKey /\ r.seen = {} /\ r.tokens = {}
      /\ ~r.twice
  BY <1>1, IdleBlobIsOK DEF ReqShapes, IdleBlob, BlobPcs
<1> HIDE DEF r
<1>4. WalkOK(r, bfiles, backend)
  <2>1. \A k \in BlobKeys : ~Passed(r, k) /\ k # r.token
    BY <1>3, KeysAreOrdered DEF Passed
  <2> QED
    BY <1>1, <1>3, <2>1 DEF WalkOK
<1>5. ReqOK(r, bfiles, bdirty, backend) /\ r.pc \notin LockPcs
  BY <1>3, <1>4 DEF ReqOK, LockPcs, KeyedPcs
<1>6. NewBlobOp(p) /\ UNCHANGED <<backend, bfiles, block, backed, bdirty>> /\ uploads' \in 0 .. MaxUploads
  BY DEF AskList, Quiet, BlobsInv
<1> QED
  BY <1>2, <1>5, <1>6, AsksKeep

(* What a page of a listing starts from.                                   *)
LEMMA WhatIsListed ==
    ASSUME BlobsInv, NEW token \in BlobKeys \cup {NoKey}
    PROVE  /\ Listable(token) \in SUBSET BlobKeys
           /\ \A k \in BlobKeys : k \in Listable(token) <=>
                  /\ bfiles[k] # NoBlob
                  /\ backend = "fs" => ~Hidden(k) /\ (token = NoKey \/ Less(token, k))
                  /\ backend = "s3" => ~Less(k, token)
<1>1. backend \in {"memory", "fs", "s3"}
  BY BlobAssumption DEF BlobAssumption, BlobsInv
<1>2. CASE backend = "memory"
  BY <1>2 DEF Listable, StoredKeys, Stored
<1>3. CASE backend = "fs"
  BY <1>3 DEF Listable, FsListable, StoredKeys, Stored
<1>4. CASE backend = "s3"
  BY <1>4 DEF Listable, S3Listable, StoredKeys, Stored
<1> QED
  BY <1>1, <1>2, <1>3, <1>4

(* A page of a listing: what is before the new token was on this page or   *)
(* before the old token.                                                   *)
LEMMA ListPageKeeps ==
    ASSUME BlobsInv, NEW p \in BProcs, ListPage(p)
    PROVE  BlobsInv'
<1> DEFINE b == breq[p]
           keys == Listable(b.token)
           items == FirstOf(keys)
           next == NextToken(keys)
           seen == b.seen \cup items
           twice == b.twice \/ b.seen \cap items # {}
           r == [b EXCEPT !.seen = seen, !.twice = twice]
           last == [r EXCEPT !.pc = "walked"]
           t == CHOOSE k \in next : TRUE
           tokens == b.tokens \cup next
           more == [r EXCEPT !.token = t, !.tokens = tokens]
<1>1. /\ b \in ReqShapes /\ b.pc = "walk" /\ WalkOK(b, bfiles, backend)
      /\ b.twice => backend = "memory"
      /\ b.token \in BlobKeys \cup {NoKey} /\ b.stable \in SUBSET BlobKeys /\ b.seen \in SUBSET BlobKeys
      /\ b.tokens \in SUBSET BlobKeys /\ b.twice \in BOOLEAN
  BY DEF BlobsInv, ReqOK, ListPage, ReqShapes
<1>2. /\ keys \in SUBSET BlobKeys
      /\ \A k \in BlobKeys : k \in keys <=>
                  /\ bfiles[k] # NoBlob
                  /\ backend = "fs" => ~Hidden(k) /\ (b.token = NoKey \/ Less(b.token, k))
                  /\ backend = "s3" => ~Less(k, b.token)
  BY <1>1, WhatIsListed
<1>3. /\ UNCHANGED <<bfiles, bops>> /\ Quiet /\ b.pc \notin LockPcs
      /\ next = {} => breq' = [breq EXCEPT ![p] = last]
      /\ next # {} => breq' = [breq EXCEPT ![p] = more]
  <2>1. r = [b EXCEPT !.seen = @ \cup items, !.twice = @ \/ b.seen \cap items # {}]
    BY <1>1 DEF ReqShapes
  <2>2. more = [r EXCEPT !.token = CHOOSE k \in NextToken(keys) : TRUE, !.tokens = @ \cup NextToken(keys)]
    BY <1>1 DEF ReqShapes
  <2> HIDE DEF r, last, more, keys, items, seen, twice, t, tokens
  <2> QED
    BY <1>1, <2>1, <2>2 DEF ListPage, LockPcs, keys, items, next, last
<1> HIDE DEF keys
<1>4. /\ items \subseteq keys /\ next \subseteq keys
      /\ next = {} => items = keys
      /\ \A u \in next, k \in keys : k \in items <=> Less(k, u)
  BY <1>2, PagesMeet
<1> HIDE DEF items, next
<1>5. seen \in SUBSET BlobKeys /\ twice \in BOOLEAN /\ tokens \in SUBSET BlobKeys
  BY <1>1, <1>2, <1>4
<1>6. twice => backend = "memory"
  <2>1. backend \in {"memory", "fs", "s3"}
    BY BlobAssumption DEF BlobAssumption, BlobsInv
  <2>2. ASSUME backend # "memory" PROVE \A k \in b.seen : k \notin items
    <3>1. \A k \in b.seen : Passed(b, k) /\ k \in BlobKeys
      BY <1>1, <2>1, <2>2 DEF WalkOK
    <3> QED
      BY <1>1, <1>2, <1>4, <2>1, <2>2, <3>1, KeysAreOrdered DEF Passed
  <2> QED
    BY <1>1, <2>2
<1>7. \A k \in BlobKeys : k \in b.stable /\ (backend = "fs" => ~Hidden(k)) => bfiles[k] # NoBlob
  BY <1>1 DEF WalkOK
<1> HIDE DEF seen, twice, tokens
<1>8. CASE next = {}
  <2>1. /\ last \in ReqShapes /\ last.pc = "walked" /\ last.seen = seen /\ last.twice = twice
        /\ last.stable = b.stable /\ last.tokens = b.tokens
    BY <1>1, <1>5 DEF ReqShapes, BlobPcs
  <2> HIDE DEF r, last
  <2>2. ASSUME NEW k \in b.stable, k \notin seen
        PROVE  k \in IF backend = "fs" THEN b.tokens \cup {j \in BlobKeys : Hidden(j)} ELSE {}
    <3>1. k \in BlobKeys /\ k \notin b.seen /\ k \notin keys
      BY <1>1, <1>4, <1>8, <2>2 DEF seen
    <3>2. CASE backend = "fs"
      <4>1. k \in b.tokens \/ Hidden(k)
        BY <1>1, <1>2, <1>7, <3>1, <3>2, KeysAreOrdered DEF WalkOK, Passed
      <4> QED
        BY <3>1, <3>2, <4>1
    <3>3. CASE backend # "fs"
      <4>1. backend = "s3"
        BY <1>2, <1>7, <3>1, <3>3
      <4>2. Less(k, b.token)
        BY <1>2, <1>7, <3>1, <3>3, <4>1
      <4> QED
        BY <1>1, <2>2, <3>1, <4>1, <4>2 DEF WalkOK, Passed
    <3> QED
      BY <3>2, <3>3
  <2>3. ReqOK(last, bfiles, bdirty, backend) /\ last.pc \notin LockPcs
    BY <1>6, <2>1, <2>2 DEF ReqOK, LockPcs, KeyedPcs
  <2> QED
    BY <1>3, <1>8, <2>3, ReadKeeps
<1>9. CASE next # {}
  <2>1. t \in next /\ t \in keys /\ t \in BlobKeys
    BY <1>2, <1>4, <1>9
  <2> HIDE DEF t
  <2>2. /\ more \in ReqShapes /\ more.pc = "walk" /\ more.seen = seen /\ more.twice = twice
        /\ more.stable = b.stable /\ more.tokens = tokens /\ more.token = t
    BY <1>1, <1>5, <2>1 DEF ReqShapes, BlobPcs
  <2> HIDE DEF r, last, more
  <2>3. ASSUME backend = "s3" PROVE \A k \in seen : Less(k, t)
    <3>1. ASSUME NEW k \in b.seen PROVE Less(k, t)
      <4>1. Less(k, b.token) /\ k \in BlobKeys /\ ~Less(t, b.token)
        BY <1>1, <1>2, <2>1, <2>3 DEF WalkOK, Passed
      <4>2. b.token \in BlobKeys
        BY <1>1, <4>1, KeysAreOrdered
      <4> QED
        BY <2>1, <4>1, <4>2, KeysAreOrdered
    <3> QED
      BY <1>4, <2>1, <3>1 DEF seen
  <2>4. ASSUME backend = "fs" PROVE \A k \in seen : Less(k, t)
    <3>1. ASSUME NEW k \in b.seen PROVE Less(k, t)
      <4>1. Less(k, b.token) /\ k \in BlobKeys /\ (b.token = NoKey \/ Less(b.token, t))
        BY <1>1, <1>2, <2>1, <2>4 DEF WalkOK, Passed
      <4>2. b.token \in BlobKeys /\ b.token # NoKey
        BY <1>1, <4>1, KeysAreOrdered
      <4> QED
        BY <2>1, <4>1, <4>2, KeysAreOrdered
    <3> QED
      BY <1>4, <2>1, <3>1 DEF seen
  <2>5. ASSUME backend = "s3", NEW k \in b.stable, Less(k, t) PROVE k \in seen
    <3>1. k \in BlobKeys /\ bfiles[k] # NoBlob
      BY <1>1, <1>7, <2>5
    <3>2. CASE Less(k, b.token)
      BY <1>1, <2>5, <3>2 DEF WalkOK, Passed, seen
    <3>3. CASE ~Less(k, b.token)
      BY <1>2, <1>4, <2>1, <2>5, <3>1, <3>3 DEF seen
    <3> QED
      BY <3>2, <3>3
  <2>6. ASSUME backend = "fs", NEW k \in b.stable, Less(k, t) \/ k = t, ~Hidden(k)
        PROVE  k \in seen \cup tokens
    <3>1. k \in BlobKeys /\ bfiles[k] # NoBlob
      BY <1>1, <1>7, <2>6
    <3>2. CASE Less(k, b.token) \/ k = b.token
      BY <1>1, <2>6, <3>2 DEF WalkOK, Passed, seen, tokens
    <3>3. CASE k = t
      BY <2>1, <3>3 DEF tokens
    <3>4. CASE Less(k, t) /\ ~(Less(k, b.token) \/ k = b.token)
      <4>1. b.token = NoKey \/ Less(b.token, k)
        BY <1>1, <3>1, <3>4, KeysAreOrdered
      <4> QED
        BY <1>2, <1>4, <2>1, <2>6, <3>1, <3>4, <4>1 DEF seen
    <3> QED
      BY <2>6, <3>2, <3>3, <3>4
  <2>7. WalkOK(more, bfiles, backend)
    <3>1. \A k \in b.stable : bfiles[k] # NoBlob \/ (backend = "fs" /\ Hidden(k))
      BY <1>1 DEF WalkOK
    <3> QED
      BY <2>2, <2>3, <2>4, <2>5, <2>6, <3>1 DEF WalkOK, Passed
  <2>8. ReqOK(more, bfiles, bdirty, backend) /\ more.pc \notin LockPcs
    BY <1>6, <2>2, <2>7 DEF ReqOK, LockPcs, KeyedPcs
  <2> QED
    BY <1>3, <1>9, <2>8, ReadKeeps
<1> QED
  BY <1>8, <1>9

(* Statistics begin, and are counted in one pass.                          *)
LEMMA CountsKeep ==
    ASSUME BlobsInv, NEW p \in BProcs, AskStats(p) \/ CountLocal(p)
    PROVE  BlobsInv'
<1>1. CASE AskStats(p)
  <2> DEFINE r == [IdleBlob EXCEPT !.pc = "count"]
  <2>1. breq' = [breq EXCEPT ![p] = r]
    BY <1>1 DEF AskStats
  <2>2. r \in ReqShapes /\ r.pc = "count" /\ r.n = 0 /\ r.token = NoKey /\ ~r.twice
    BY IdleBlobIsOK DEF ReqShapes, IdleBlob, BlobPcs
  <2> HIDE DEF r
  <2>3. Cardinality({k \in BlobKeys : bfiles[k] # NoBlob /\ Passed(r, k)}) = 0
    <3>1. {k \in BlobKeys : bfiles[k] # NoBlob /\ Passed(r, k)} = {}
      BY <2>2, KeysAreOrdered DEF Passed
    <3> QED
      BY <3>1, FS_EmptySet
  <2>4. ReqOK(r, bfiles, bdirty, backend) /\ r.pc \notin LockPcs
    BY <2>2, <2>3 DEF ReqOK, LockPcs, KeyedPcs
  <2>5. NewBlobOp(p) /\ UNCHANGED <<backend, bfiles, block, backed, bdirty>> /\ uploads' \in 0 .. MaxUploads
    BY <1>1 DEF AskStats, Quiet, BlobsInv
  <2> QED
    BY <2>1, <2>4, <2>5, AsksKeep
<1>2. CASE CountLocal(p)
  <2> DEFINE b == breq[p]
             c == Countable
             r == [b EXCEPT !.pc = "counted", !.n = Cardinality(c), !.stable = c, !.raced = FALSE]
  <2>1. /\ b \in ReqShapes /\ b.pc = "count" /\ b.pc \notin LockPcs /\ (b.twice => backend = "memory")
        /\ UNCHANGED <<bfiles, bops>> /\ Quiet
    BY <1>2 DEF CountLocal, BlobsInv, ReqOK, LockPcs
  <2>2. c \in SUBSET BlobKeys /\ Cardinality(c) \in Nat
    <3>1. c \in SUBSET BlobKeys
      BY DEF Countable, StoredKeys
    <3> QED
      BY <3>1, PlacesGrow
  <2>3. breq' = [breq EXCEPT ![p] = r]
    <3>1. breq = [q \in BProcs |-> breq[q]]
      BY DEF BlobsInv
    <3> HIDE DEF c
    <3> QED
      BY <1>2, <3>1 DEF CountLocal, c
  <2> HIDE DEF c
  <2>4. r \in ReqShapes /\ r.pc = "counted" /\ r.n = Cardinality(c) /\ r.stable = c /\ (r.twice <=> b.twice)
    BY <2>1, <2>2 DEF ReqShapes, BlobPcs
  <2> HIDE DEF r
  <2>5. ReqOK(r, bfiles, bdirty, backend) /\ r.pc \notin LockPcs
    BY <2>1, <2>4 DEF ReqOK, LockPcs, KeyedPcs
  <2> QED
    BY <2>1, <2>3, <2>5, ReadKeeps
<1> QED
  BY <1>1, <1>2

(* A page of the statistics: what is before the new token is what was      *)
(* before the old one and what the page returned.                          *)
LEMMA CountPageKeeps ==
    ASSUME BlobsInv, NEW p \in BProcs, CountPage(p)
    PROVE  BlobsInv'
<1> DEFINE b == breq[p]
           keys == Listable(b.token)
           items == FirstOf(keys)
           next == NextToken(keys)
           n == b.n + Cardinality(items)
           r == [b EXCEPT !.n = n]
           here == StoredKeys
           last == [r EXCEPT !.pc = "counted", !.stable = here]
           t == CHOOSE k \in next : TRUE
           more == [r EXCEPT !.token = t]
           before == {k \in BlobKeys : bfiles[k] # NoBlob /\ Less(k, b.token)}
<1>1. /\ b \in ReqShapes /\ b.pc = "count" /\ backend = "s3" /\ b.n \in Nat /\ ~b.twice
      /\ ~b.raced => b.n = Cardinality(before)
      /\ b.token \in BlobKeys \cup {NoKey}
  BY DEF BlobsInv, ReqOK, CountPage, ReqShapes, Passed
<1>2. /\ keys \in SUBSET BlobKeys
      /\ \A k \in BlobKeys : k \in keys <=> bfiles[k] # NoBlob /\ ~Less(k, b.token)
  BY <1>1, WhatIsListed
<1>3. /\ UNCHANGED <<bfiles, bops>> /\ Quiet /\ b.pc \notin LockPcs
      /\ next = {} => breq' = [breq EXCEPT ![p] = last]
      /\ next # {} => breq' = [breq EXCEPT ![p] = more]
  <2>1. r = [b EXCEPT !.n = @ + Cardinality(items)]
    BY <1>1 DEF ReqShapes
  <2> HIDE DEF r, keys, items, n, t, here
  <2> QED
    BY <1>1, <2>1 DEF CountPage, LockPcs, keys, items, t, here
<1> HIDE DEF keys
<1>4. /\ items \subseteq keys /\ next \subseteq keys
      /\ next = {} => items = keys
      /\ \A u \in next, k \in keys : k \in items <=> Less(k, u)
  BY <1>2, PagesMeet
<1> HIDE DEF items, next
<1>5. /\ IsFiniteSet(before) /\ IsFiniteSet(items) /\ Cardinality(items) \in Nat
      /\ before \cap items = {} /\ n \in Nat
  <2>1. before \in SUBSET BlobKeys /\ items \in SUBSET BlobKeys
    BY <1>2, <1>4
  <2>2. IsFiniteSet(before) /\ IsFiniteSet(items) /\ Cardinality(items) \in Nat
    BY <2>1, PlacesGrow
  <2> QED
    BY <1>1, <1>2, <1>4, <2>1, <2>2
<1>6. ~b.raced => n = Cardinality(before \cup items)
  <2>1. Cardinality(before \cap items) = 0
    BY <1>5, FS_EmptySet
  <2>2. Cardinality(before \cup items)
          = Cardinality(before) + Cardinality(items) - Cardinality(before \cap items)
    BY <1>5, FS_Union
  <2>3. Cardinality(before) \in Nat
    BY <1>5, FS_CardinalityType
  <2> HIDE DEF before
  <2> QED
    BY <1>1, <1>5, <2>1, <2>2, <2>3
<1>7. here \in SUBSET BlobKeys /\ \A k \in BlobKeys : k \in here <=> bfiles[k] # NoBlob
  BY DEF StoredKeys, Stored
<1> HIDE DEF here, n
<1>8. CASE next = {}
  <2>1. /\ last \in ReqShapes /\ last.pc = "counted" /\ last.n = n /\ last.stable = here
        /\ (last.raced <=> b.raced) /\ (last.twice <=> b.twice)
    BY <1>1, <1>5, <1>7 DEF ReqShapes, BlobPcs
  <2> HIDE DEF r, last
  <2>2. before \cup items = here
    BY <1>2, <1>4, <1>7, <1>8
  <2> HIDE DEF before
  <2>3. ReqOK(last, bfiles, bdirty, backend) /\ last.pc \notin LockPcs
    BY <1>1, <1>6, <2>1, <2>2 DEF ReqOK, LockPcs, KeyedPcs
  <2> QED
    BY <1>3, <1>8, <2>3, ReadKeeps
<1>9. CASE next # {}
  <2>1. t \in next /\ t \in keys /\ t \in BlobKeys
    BY <1>2, <1>4, <1>9
  <2> HIDE DEF t
  <2>2. /\ more \in ReqShapes /\ more.pc = "count" /\ more.n = n /\ more.token = t
        /\ (more.raced <=> b.raced) /\ (more.twice <=> b.twice)
    BY <1>1, <1>5, <2>1 DEF ReqShapes, BlobPcs
  <2> HIDE DEF r, more
  <2>3. ASSUME NEW k \in BlobKeys
        PROVE  k \in before \cup items <=> bfiles[k] # NoBlob /\ Passed(more, k)
    <3>1. CASE Less(k, b.token)
      <4>1. Less(k, t)
        <5>1. b.token \in BlobKeys /\ ~Less(t, b.token)
          BY <1>1, <1>2, <2>1, <3>1, KeysAreOrdered
        <5> QED
          BY <2>1, <3>1, <5>1, KeysAreOrdered
      <4> QED
        BY <1>2, <1>4, <2>2, <3>1, <4>1 DEF Passed
    <3>2. CASE ~Less(k, b.token)
      BY <1>2, <1>4, <2>1, <2>2, <3>2 DEF Passed
    <3> QED
      BY <3>1, <3>2
  <2>4. before \cup items = {k \in BlobKeys : bfiles[k] # NoBlob /\ Passed(more, k)}
    BY <1>2, <1>4, <2>3
  <2> HIDE DEF before
  <2>5. ReqOK(more, bfiles, bdirty, backend) /\ more.pc \notin LockPcs
    BY <1>1, <1>6, <2>2, <2>4 DEF ReqOK, LockPcs, KeyedPcs
  <2> QED
    BY <1>3, <1>9, <2>5, ReadKeeps
<1> QED
  BY <1>8, <1>9

(* The daemon dies and starts again.                                       *)
LEMMA CrashKeeps == BlobsInv /\ CrashDaemon => BlobsInv'
<1> SUFFICES ASSUME BlobsInv, CrashDaemon PROVE BlobsInv'
  OBVIOUS
<1>1. \A p \in BProcs : breq'[p] = IdleBlob
  BY DEF CrashDaemon
<1>2. breq' = [p \in BProcs |-> breq'[p]]
  BY DEF CrashDaemon
<1>3. \A p \in BProcs : ReqOK(breq'[p], bfiles', bdirty', backend') /\ (breq'[p].pc \in LockPcs <=> block' = p)
  <2>1. "free" \notin BProcs /\ block' = "free"
    BY BlobAssumption DEF BlobAssumption, CrashDaemon
  <2> QED
    BY <1>1, <2>1, IdleBlobIsOK
<1>4. StoreOK(bfiles', backed', bdirty')
  <2>1. StoreOK(bfiles, backed, bdirty) /\ bdirty' = bdirty
    BY DEF BlobsInv, CrashDaemon
  <2>2. CASE backend = "memory"
    <3>1. bfiles' = [f \in BlobFiles |-> NoBlob] /\ backed' = [k \in BlobKeys |-> NoBlob]
      BY <2>2 DEF CrashDaemon
    <3>2. NoBlob \in Contents /\ NoBlob # Torn
      BY IdleBlobIsOK, BlobAssumption DEF BlobAssumption, NoBlob, Torn
    <3> QED
      BY <2>1, <3>1, <3>2, KeysAreOrdered DEF StoreOK
  <2>3. CASE backend # "memory"
    BY <2>1, <2>3 DEF CrashDaemon
  <2> QED
    BY <2>2, <2>3
<1> QED
  BY <1>2, <1>3, <1>4 DEF CrashDaemon, BlobsInv

(* The invariant holds at first,                                           *)
LEMMA BlobsBegin == InitBlobs => BlobsInv
<1> SUFFICES ASSUME InitBlobs PROVE BlobsInv
  OBVIOUS
<1>1. \A p \in BProcs : ReqOK(breq[p], bfiles, bdirty, backend) /\ (breq[p].pc \in LockPcs <=> block = p)
  <2>1. "free" \notin BProcs /\ block = "free" /\ \A p \in BProcs : breq[p] = IdleBlob
    BY BlobAssumption DEF BlobAssumption, InitBlobs
  <2> QED
    BY <2>1, IdleBlobIsOK
<1>2. StoreOK(bfiles, backed, bdirty)
  <2>1. NoBlob \in Contents /\ 1 \in Contents /\ NoBlob # Torn /\ 1 # Torn
    BY BlobAssumption DEF BlobAssumption, NoBlob, Torn, Contents
  <2>2. \A k \in BlobKeys : k \in BlobFiles
    BY KeysAreOrdered
  <2> QED
    BY <2>1, <2>2 DEF InitBlobs, StoreOK
<1>3. uploads \in 0 .. MaxUploads /\ bops \in 0 .. MaxBlobOps
  BY BlobAssumption DEF BlobAssumption, InitBlobs
<1> QED
  BY <1>1, <1>2, <1>3 DEF InitBlobs, BlobsInv

(* is kept by every step,                                                  *)
LEMMA BlobsStep == BlobsInv /\ [NextBlobs]_blobVars => BlobsInv'
<1> SUFFICES ASSUME BlobsInv, [NextBlobs]_blobVars PROVE BlobsInv'
  OBVIOUS
<1>1. CASE UNCHANGED blobVars
  BY <1>1 DEF blobVars, BlobsInv
<1>2. ASSUME NEW p \in BProcs, handleBlobWithKey(p) \/ handleBlobAction(p) \/ AskList(p) \/ AskStats(p)
      PROVE  BlobsInv'
  BY <1>2, AskUploadKeeps, DownloadsKeep, DeletesKeep, CopiesKeep, AskListKeeps, CountsKeep
     DEF handleBlobWithKey, handleBlobAction
<1>3. ASSUME NEW p \in BProcs, BlobStep(p) PROVE BlobsInv'
  BY <1>3, UploadsKeep, FsOpenTempKeeps, FsRenameKeeps, S3HeadForUploadKeeps, DeletesKeep, CopiesKeep,
     DownloadsKeep, ListPageKeeps, CountsKeep, CountPageKeeps DEF BlobStep
<1>4. ASSUME NEW p \in BProcs,
             \/ FsUploadFails(p) \/ S3PutUnanswered(p) \/ S3DeleteUnanswered(p) \/ S3CopyUnanswered(p)
             \/ S3CallFails(p) \/ FsCopyFails(p)
      PROVE  BlobsInv'
  BY <1>4, FsUploadFailsKeeps, UploadsKeep, DeletesKeep, CopiesKeep
<1> QED
  BY <1>1, <1>2, <1>3, <1>4, CrashKeeps DEF NextBlobs

(* and implies what is promised.                                           *)
LEMMA BlobsMean == BlobsInv => BlobsAreKept
<1> SUFFICES ASSUME BlobsInv PROVE BlobsAreKept
  OBVIOUS
<1>1. StoreOK(bfiles, backed, bdirty) /\ backend \in Backends
      /\ uploads \in 0 .. MaxUploads /\ bops \in 0 .. MaxBlobOps
  BY DEF BlobsInv
<1>2. \A p \in BProcs : ReqOK(breq[p], bfiles, bdirty, backend) /\ (breq[p].pc \in LockPcs <=> block = p)
  BY DEF BlobsInv
<1>3. TypeOKBlobs /\ AcknowledgedIsStored
  BY <1>1, <1>2 DEF TypeOKBlobs, AcknowledgedIsStored, StoreOK, LockPcs
<1>4. CreateOnlyReplacesNothing /\ DownloadIsOneVersion
  <2>1. CreateOnlyReplacesNothing
    BY <1>2 DEF CreateOnlyReplacesNothing, ReqOK
  <2>2. ASSUME NEW r, ReqOK(r, bfiles, bdirty, backend), r.pc = "sent"
        PROVE  /\ r.body = Torn => r.stable = {}
               /\ backend # "fs" /\ ~r.raced => r.got = r.body \/ (backend = "s3" /\ r.got = PlainType)
    BY <2>2 DEF ReqOK
  <2>3. \A p \in BProcs : ReqOK(breq[p], bfiles, bdirty, backend)
    BY <1>2
  <2> QED
    BY <2>1, <2>2, <2>3 DEF DownloadIsOneVersion
<1>5. WalkMissesOnlyTokens /\ PagesAreDisjoint /\ CountIsExact
  BY <1>2 DEF WalkMissesOnlyTokens, PagesAreDisjoint, CountIsExact, ReqOK
<1> QED
  BY <1>3, <1>4, <1>5 DEF BlobsAreKept

(* What users of the blob stores rely on holds of every behaviour, for any *)
(* number of requests, keys, uploads and any page size.                    *)
THEOREM BlobsStayKept == SpecBlobs => []BlobsAreKept
<1>1. InitBlobs => BlobsInv
  BY BlobsBegin
<1>2. BlobsInv /\ [NextBlobs]_blobVars => BlobsInv'
  BY BlobsStep
<1>3. BlobsInv => BlobsAreKept
  BY BlobsMean
<1> QED
  BY <1>1, <1>2, <1>3, PTL DEF SpecBlobs

(***************************************************************************)
(* EntityStore                                                             *)
(***************************************************************************)
(* Names are numbered as they are made, and each leads to its record.      *)
NamesInv ==
    /\ named \in [Kinds -> [NamedIds -> Names \cup {NoName}]]
    /\ nameIndex \in [Kinds -> [Names -> NamedIds \cup {None}]]
    /\ nameCount \in [Kinds -> 0 .. MaxNamed]
    /\ \A k \in Kinds, i \in NamedIds : named[k][i] # NoName => i <= nameCount[k]
    /\ IndexesAgree

PacksInv == packs \in [Names -> {None, 1, 2}] /\ packKeys = {n \in Names : packs[n] # None}

(* Components have their parents on their page, and no set of components   *)
(* has all its parents within.                                             *)
CompShapes == [page : NamedIds \cup {None}, parent : CompIds \cup {None}, order : Orders]
Looped(F, S) == \A c \in S : F[c].page # None /\ F[c].parent \in S
Grounded(F) == \A S \in SUBSET CompIds : Looped(F, S) => S = {}
ParentsOK(F) ==
    \A c \in CompIds : F[c].page # None /\ F[c].parent # None =>
        F[F[c].parent].page = F[c].page
Listing(F, P, Q) ==
    \A c \in CompIds :
        /\ \A i \in NamedIds : P[i][c] = IF F[c].page = i THEN 1 ELSE 0
        /\ \A p \in CompIds : Q[p][c] = IF F[c].page # None /\ F[c].parent = p THEN 1 ELSE 0

TreesInv ==
    /\ comps \in [CompIds -> CompShapes] /\ compCount \in 0 .. MaxComps
    /\ \A c \in CompIds : c > compCount => comps[c] = NoComp
    /\ byPage \in [NamedIds -> [CompIds -> Nat]] /\ byParent \in [CompIds -> [CompIds -> Nat]]
    /\ Listing(comps, byPage, byParent)
    /\ ParentsOK(comps) /\ Grounded(comps)

EntityInv == NamesInv /\ PacksInv /\ TreesInv /\ elast.ok \in BOOLEAN

(* What the assumption says of the bounds and of the names.                *)
LEMMA BoundsAreNat ==
    /\ MaxNamed \in Nat /\ MaxComps \in Nat /\ NoName \notin Names /\ Bad \notin Names
    /\ None \notin NamedIds /\ None \notin CompIds
BY EntityAssumption DEF EntityAssumption, None, NamedIds, CompIds

(* The invariant holds of an empty store.                                  *)
LEMMA NamesStart == InitEntities => EntityInv
<1> SUFFICES ASSUME InitEntities PROVE EntityInv
  OBVIOUS
<1>1. NamesInv
  BY BoundsAreNat DEF InitEntities, NamesInv, IndexesAgree
<1>2. PacksInv /\ elast.ok \in BOOLEAN
  BY DEF InitEntities, PacksInv
<1>3. TreesInv
  <2>1. NoComp \in CompShapes /\ NoComp.page = None
    BY DEF NoComp, CompShapes, Orders, None
  <2>2. /\ comps = [c \in CompIds |-> NoComp] /\ compCount = 0
        /\ byPage = [i \in NamedIds |-> NoneListed] /\ byParent = [c \in CompIds |-> NoneListed]
        /\ NoneListed = [c \in CompIds |-> 0]
    BY DEF InitEntities, NoneListed
  <2>3. Listing(comps, byPage, byParent)
    BY <2>1, <2>2, BoundsAreNat DEF Listing
  <2>4. ParentsOK(comps) /\ Grounded(comps)
    BY <2>1, <2>2 DEF ParentsOK, Grounded, Looped
  <2> QED
    BY <2>1, <2>2, <2>3, <2>4, BoundsAreNat DEF TreesInv
<1> QED
  BY <1>1, <1>2, <1>3 DEF EntityInv

(* Pages and workflows.                                                    *)
LEMMA CreateNamedKeeps ==
    ASSUME NamesInv, NEW k \in Kinds, NEW n \in Names \cup {Bad}, CreateNamed(k, n)
    PROVE  NamesInv'
<1> DEFINE id == nameCount[k] + 1
           ok == n # Bad /\ nameIndex[k][n] = None
<1>1. id \in NamedIds /\ \A i \in NamedIds : i > nameCount[k] => named[k][i] = NoName
  BY BoundsAreNat DEF NamesInv, CreateNamed, NamedIds
<1>2. CASE ~ok
  BY <1>2 DEF CreateNamed, NamesInv, IndexesAgree, namedVars
<1>3. CASE ok
  <2>1. n \in Names /\ named[k][id] = NoName /\ nameIndex[k][n] = None
    BY <1>1, <1>3, BoundsAreNat DEF NamesInv
  <2>2. /\ named' = [named EXCEPT ![k][id] = n] /\ nameIndex' = [nameIndex EXCEPT ![k][n] = id]
        /\ nameCount' = [nameCount EXCEPT ![k] = id]
    BY <1>3 DEF CreateNamed
  <2>3. /\ named' \in [Kinds -> [NamedIds -> Names \cup {NoName}]]
        /\ nameIndex' \in [Kinds -> [Names -> NamedIds \cup {None}]]
        /\ nameCount' \in [Kinds -> 0 .. MaxNamed]
    <3>1. id \in 0 .. MaxNamed
      BY <1>1, BoundsAreNat DEF NamedIds
    <3> HIDE DEF id
    <3> QED
      BY <1>1, <2>1, <2>2, <3>1 DEF NamesInv
  <2>4. /\ \A i \in NamedIds : named'[k][i] = IF i = id THEN n ELSE named[k][i]
        /\ \A m \in Names : nameIndex'[k][m] = IF m = n THEN id ELSE nameIndex[k][m]
        /\ nameCount'[k] = id
        /\ \A j \in Kinds : j # k =>
              named'[j] = named[j] /\ nameIndex'[j] = nameIndex[j] /\ nameCount'[j] = nameCount[j]
    <3> HIDE DEF id
    <3>1. \A i \in NamedIds : named'[k][i] = IF i = id THEN n ELSE named[k][i]
      BY <1>1, <2>2 DEF NamesInv
    <3>2. \A m \in Names : nameIndex'[k][m] = IF m = n THEN id ELSE nameIndex[k][m]
      BY <2>1, <2>2 DEF NamesInv
    <3>3. nameCount'[k] = id
      BY <2>2 DEF NamesInv
    <3>4. \A j \in Kinds : j # k =>
              named'[j] = named[j] /\ nameIndex'[j] = nameIndex[j] /\ nameCount'[j] = nameCount[j]
      BY <2>2 DEF NamesInv
    <3> QED
      BY <3>1, <3>2, <3>3, <3>4
  <2>5. \A j \in Kinds, i \in NamedIds : named'[j][i] # NoName => i <= nameCount'[j]
    <3>1. nameCount[k] \in Nat /\ id = nameCount[k] + 1 /\ \A i \in NamedIds : i \in Nat
      BY BoundsAreNat DEF NamesInv, NamedIds
    <3>2. \A j \in Kinds, i \in NamedIds : named[j][i] # NoName => i <= nameCount[j]
      BY DEF NamesInv
    <3> HIDE DEF id
    <3>3. ASSUME NEW i \in NamedIds, named'[k][i] # NoName PROVE i <= nameCount'[k]
      <4>1. CASE i = id
        BY <2>4, <3>1, <4>1
      <4>2. CASE i # id
        <5>1. i <= nameCount[k]
          BY <2>4, <3>2, <3>3, <4>2
        <5> QED
          BY <2>4, <3>1, <5>1
      <4> QED
        BY <4>1, <4>2
    <3> QED
      BY <2>4, <3>2, <3>3
  <2>6. IndexesAgree'
    <3> SUFFICES ASSUME NEW j \in Kinds, NEW m \in Names, NEW i \in NamedIds
                 PROVE  nameIndex'[j][m] = i <=> named'[j][i] = m
      BY DEF IndexesAgree
    <3>1. nameIndex[j][m] = i <=> named[j][i] = m
      BY DEF NamesInv, IndexesAgree
    <3>2. CASE j # k
      BY <2>4, <3>1, <3>2
    <3>3. CASE j = k
      <4>1. CASE m = n
        <5>1. nameIndex[k][n] # i
          BY <2>1, BoundsAreNat
        <5> QED
          BY <2>4, <3>1, <3>3, <4>1, <5>1
      <4>2. CASE m # n
        <5>1. i = id => nameIndex[k][m] # id
          BY <2>1, <3>1, <3>3, BoundsAreNat
        <5> QED
          BY <2>4, <3>1, <3>3, <4>2, <5>1
      <4> QED
        BY <4>1, <4>2
    <3> QED
      BY <3>2, <3>3
  <2> QED
    BY <2>3, <2>5, <2>6 DEF NamesInv
<1> QED
  BY <1>2, <1>3

(* A rename, where old and new name may be the same.                       *)
LEMMA RenameKeeps ==
    ASSUME NamesInv, NEW k \in Kinds, NEW id \in NamedIds, NEW n \in Names \cup {Bad}, NEW restOk,
           Rename(k, id, n, restOk)
    PROVE  NamesInv'
<1> DEFINE taken == n # Bad /\ nameIndex[k][n] \notin {None, id}
           ok == named[k][id] # NoName /\ n # Bad /\ ~taken
           old == named[k][id]
<1>1. CASE ~ok
  BY <1>1 DEF Rename, NamesInv, IndexesAgree
<1>2. CASE ok
  <2>1. n \in Names /\ old \in Names /\ nameIndex[k][n] \in {None, id} /\ id <= nameCount[k]
    BY <1>2 DEF NamesInv
  <2>2. /\ nameIndex' = [nameIndex EXCEPT ![k] =
              [m \in Names |-> CASE m = n -> id [] m = named[k][id] /\ m # n -> None [] OTHER -> @[m]]]
        /\ named' = [named EXCEPT ![k][id] = n] /\ nameCount' = nameCount
    BY <1>2 DEF Rename, Renamed
  <2>3. /\ \A i \in NamedIds : named'[k][i] = IF i = id THEN n ELSE named[k][i]
        /\ \A m \in Names : nameIndex'[k][m] = IF m = n THEN id ELSE IF m = old THEN None ELSE nameIndex[k][m]
        /\ \A j \in Kinds : j # k => named'[j] = named[j] /\ nameIndex'[j] = nameIndex[j]
    BY <2>1, <2>2 DEF NamesInv
  <2>4. /\ named' \in [Kinds -> [NamedIds -> Names \cup {NoName}]]
        /\ nameIndex' \in [Kinds -> [Names -> NamedIds \cup {None}]]
        /\ nameCount' \in [Kinds -> 0 .. MaxNamed]
    <3>1. \A m \in Names : nameIndex[k][m] \in NamedIds \cup {None}
      BY DEF NamesInv
    <3>2. [m \in Names |-> CASE m = n -> id [] m = named[k][id] /\ m # n -> None
             [] OTHER -> nameIndex[k][m]] \in [Names -> NamedIds \cup {None}]
      BY <3>1
    <3> QED
      BY <2>1, <2>2, <3>2 DEF NamesInv
  <2>5. \A j \in Kinds, i \in NamedIds : named'[j][i] # NoName => i <= nameCount'[j]
    BY <2>1, <2>2, <2>3 DEF NamesInv
  <2>6. IndexesAgree'
    <3> SUFFICES ASSUME NEW j \in Kinds, NEW m \in Names, NEW i \in NamedIds
                 PROVE  nameIndex'[j][m] = i <=> named'[j][i] = m
      BY DEF IndexesAgree
    <3>1. /\ nameIndex[j][m] = i <=> named[j][i] = m
          /\ nameIndex[k][m] = id <=> old = m
          /\ nameIndex[k][old] = i <=> named[k][i] = old
      BY <2>1 DEF NamesInv, IndexesAgree
    <3>2. CASE j # k
      BY <2>3, <3>1, <3>2
    <3>3. CASE j = k
      BY <2>1, <2>3, <3>1, <3>3, BoundsAreNat
    <3> QED
      BY <3>2, <3>3
  <2> QED
    BY <2>4, <2>5, <2>6 DEF NamesInv
<1> QED
  BY <1>1, <1>2

(* A record goes and its name leads nowhere.                               *)
LEMMA RemoveNamedKeeps ==
    ASSUME NamesInv, NEW k \in Kinds, NEW id \in NamedIds, RemoveNamed(k, id)
    PROVE  NamesInv'
<1> DEFINE old == named[k][id]
<1>1. CASE old = NoName
  BY <1>1 DEF RemoveNamed, NamesInv, IndexesAgree
<1>2. CASE old # NoName
  <2>1. old \in Names
    BY <1>2 DEF NamesInv
  <2>2. /\ nameIndex' = [nameIndex EXCEPT ![k][old] = None]
        /\ named' = [named EXCEPT ![k][id] = NoName] /\ nameCount' = nameCount
    BY <1>2 DEF RemoveNamed
  <2>3. /\ \A i \in NamedIds : named'[k][i] = IF i = id THEN NoName ELSE named[k][i]
        /\ \A m \in Names : nameIndex'[k][m] = IF m = old THEN None ELSE nameIndex[k][m]
        /\ \A j \in Kinds : j # k => named'[j] = named[j] /\ nameIndex'[j] = nameIndex[j]
    BY <2>1, <2>2 DEF NamesInv
  <2>4. /\ named' \in [Kinds -> [NamedIds -> Names \cup {NoName}]]
        /\ nameIndex' \in [Kinds -> [Names -> NamedIds \cup {None}]]
        /\ nameCount' \in [Kinds -> 0 .. MaxNamed]
    BY <2>1, <2>2 DEF NamesInv
  <2>5. \A j \in Kinds, i \in NamedIds : named'[j][i] # NoName => i <= nameCount'[j]
    BY <2>1, <2>2, <2>3 DEF NamesInv
  <2>6. IndexesAgree'
    <3> SUFFICES ASSUME NEW j \in Kinds, NEW m \in Names, NEW i \in NamedIds
                 PROVE  nameIndex'[j][m] = i <=> named'[j][i] = m
      BY DEF IndexesAgree
    <3>1. /\ nameIndex[j][m] = i <=> named[j][i] = m
          /\ nameIndex[k][old] = i <=> named[k][i] = old
          /\ nameIndex[k][old] = id <=> named[k][id] = old
          /\ nameIndex[k][m] = id <=> old = m
      BY <2>1 DEF NamesInv, IndexesAgree
    <3>2. CASE j # k
      BY <2>3, <3>1, <3>2
    <3>3. CASE j = k
      BY <2>1, <2>3, <3>1, <3>3, BoundsAreNat
    <3> QED
      BY <3>2, <3>3
  <2> QED
    BY <2>4, <2>5, <2>6 DEF NamesInv
<1> QED
  BY <1>1, <1>2

(* Packages.                                                               *)
LEMMA PackagesKeep == PacksInv /\ NextPackages => PacksInv'
<1> SUFFICES ASSUME PacksInv, NextPackages PROVE PacksInv'
  OBVIOUS
<1>1. ASSUME NEW n \in Names \cup {Bad}, CreatePackage(n) PROVE PacksInv'
  <2>1. CASE n # Bad /\ n \notin packKeys
    <3>1. n \in Names /\ packKeys' = packKeys \cup {n} /\ packs' = [packs EXCEPT ![n] = 1]
      BY <1>1, <2>1 DEF CreatePackage, Store
    <3> QED
      BY <3>1 DEF PacksInv, None
  <2>2. CASE ~(n # Bad /\ n \notin packKeys)
    BY <1>1, <2>2 DEF CreatePackage, packVars, PacksInv
  <2> QED
    BY <2>1, <2>2
<1>2. ASSUME NEW n \in Names, DeletePackage(n) PROVE PacksInv'
  BY <1>2 DEF DeletePackage, Store, packVars, PacksInv, None
<1>3. ASSUME NEW n \in Names, NEW v \in {2, BadNumber}, UpdatePackage(n, v) PROVE PacksInv'
  BY <1>3 DEF UpdatePackage, Store, packVars, PacksInv, None, BadNumber
<1>4. ASSUME NEW n \in Names \cup {Bad}, NEW m \in Names \cup {Bad}, BatchCreate(n, m) PROVE PacksInv'
  <2>1. CASE n # Bad /\ n \notin packKeys /\ m # Bad /\ m \notin packKeys \cup {n}
    <3>1. /\ n \in Names /\ m \in Names /\ packKeys' = packKeys \cup {n, m}
          /\ packs' = [x \in Names |-> IF x \in {n, m} THEN 1 ELSE packs[x]]
      BY <1>4, <2>1 DEF BatchCreate, Store
    <3> QED
      BY <3>1 DEF PacksInv, None
  <2>2. CASE ~(n # Bad /\ n \notin packKeys /\ m # Bad /\ m \notin packKeys \cup {n})
    BY <1>4, <2>2 DEF BatchCreate, packVars, PacksInv
  <2> QED
    BY <2>1, <2>2
<1>5. ASSUME NEW n \in Names, NEW m \in Names, BatchUpdate(n, m) PROVE PacksInv'
  BY <1>5 DEF BatchUpdate, Store, PacksInv, None
<1>6. ASSUME NEW n \in Names, NEW m \in Names, BatchDelete(n, m) PROVE PacksInv'
  BY <1>6 DEF BatchDelete, Store, PacksInv, None
<1> QED
  BY <1>1, <1>2, <1>3, <1>4, <1>5, <1>6 DEF NextPackages

(* What is reached from c: c, and the children of what is reached, and     *)
(* nothing that can be left out.                                           *)
LEMMA SubtreeCloses ==
    ASSUME NEW c \in CompIds
    PROVE  /\ Subtree(c) \in SUBSET CompIds /\ c \in Subtree(c)
           /\ \A e \in Subtree(c) : Children(e) \subseteq Subtree(c)
           /\ \A S \in SUBSET CompIds :
                  c \in S /\ (\A e \in S : Children(e) \subseteq S) => Subtree(c) \subseteq S
<1>1. \A e \in CompIds : Children(e) \subseteq CompIds
  BY DEF Children
<1> HIDE DEF Children
<1> QED
  BY <1>1 DEF Subtree

(* A parent hasDescendant finds nowhere below c is outside the tree of c.  *)
LEMMA Adopted ==
    ASSUME NEW c \in CompIds, NEW d \in CompIds, d # c, ~hasDescendant(c, d)
    PROVE  d \notin Subtree(c)
<1> DEFINE S == {c} \cup UNION {Subtree(e) : e \in Children(c)}
<1>1. Children(c) \subseteq CompIds
  BY DEF Children
<1>2. S \in SUBSET CompIds /\ c \in S /\ d \notin S
  BY <1>1, SubtreeCloses DEF hasDescendant
<1>3. ASSUME NEW e \in S PROVE Children(e) \subseteq S
  <2>1. CASE e = c
    BY <1>1, <2>1, SubtreeCloses
  <2>2. CASE e # c
    <3>1. PICK f \in Children(c) : e \in Subtree(f)
      BY <2>2
    <3>2. Children(e) \subseteq Subtree(f)
      BY <1>1, <3>1, SubtreeCloses
    <3> QED
      BY <3>1, <3>2
  <2> QED
    BY <2>1, <2>2
<1> HIDE DEF S
<1> QED
  BY <1>2, <1>3, SubtreeCloses

(* With lists that agree, children are found by their parent.              *)
LEMMA ChildrenAreListed ==
    ASSUME TreesInv
    PROVE  \A p, d \in CompIds : d \in Children(p) <=> comps[d].page # None /\ comps[d].parent = p
BY DEF TreesInv, Listing, Children

(* buildTree returns the whole page.                                       *)
LEMMA TreesComplete == TreesInv => TreesAreComplete
<1> SUFFICES ASSUME TreesInv, NEW i \in NamedIds
             PROVE  UNION {Subtree(c) : c \in {d \in CompIds : comps[d].page = i /\ comps[d].parent = None}}
                      = {c \in CompIds : comps[c].page = i}
  BY DEF TreesAreComplete
<1> DEFINE R == {d \in CompIds : comps[d].page = i /\ comps[d].parent = None}
           P == {c \in CompIds : comps[c].page = i}
           U == UNION {Subtree(c) : c \in R}
<1>1. /\ comps \in [CompIds -> CompShapes] /\ ParentsOK(comps) /\ Grounded(comps) /\ i # None
      /\ \A c \in CompIds : comps[c].parent \in CompIds \cup {None}
  BY BoundsAreNat DEF TreesInv, CompShapes
<1>2. \A e \in P : Children(e) \subseteq P
  <2> SUFFICES ASSUME NEW e \in P, NEW d \in Children(e) PROVE d \in P
    OBVIOUS
  <2>1. d \in CompIds /\ comps[d].page # None /\ comps[d].parent = e /\ e # None
    BY ChildrenAreListed, BoundsAreNat DEF Children
  <2> QED
    BY <1>1, <2>1 DEF ParentsOK
<1>3. \A c \in R : Subtree(c) \subseteq P
  BY <1>2, SubtreeCloses
<1>4. U \subseteq P
  BY <1>3
<1>5. Looped(comps, P \ U)
  <2> SUFFICES ASSUME NEW c \in P \ U PROVE comps[c].page # None /\ comps[c].parent \in P \ U
    BY DEF Looped
  <2>1. comps[c].page = i /\ comps[c].page # None /\ c \in CompIds
    BY <1>1
  <2>2. comps[c].parent # None
    BY <2>1, SubtreeCloses
  <2>3. comps[c].parent \in P
    BY <1>1, <2>1, <2>2 DEF ParentsOK
  <2>4. comps[c].parent \notin U
    <3> SUFFICES ASSUME NEW r \in R, comps[c].parent \in Subtree(r) PROVE FALSE
      OBVIOUS
    <3>1. c \in Children(comps[c].parent)
      BY <2>1, <2>3, ChildrenAreListed
    <3>2. c \in Subtree(r)
      BY <3>1, SubtreeCloses
    <3> QED
      BY <3>2
  <2> QED
    BY <2>1, <2>3, <2>4
<1>6. P \ U = {}
  <2>1. P \ U \in SUBSET CompIds
    OBVIOUS
  <2> HIDE DEF P, U
  <2> QED
    BY <1>1, <1>5, <2>1 DEF Grounded
<1> QED
  BY <1>4, <1>6

(* What the invariant says of one component.                               *)
LEMMA ComponentsHeld ==
    ASSUME TreesInv
    PROVE  /\ compCount \in 0 .. MaxComps
           /\ \A c \in CompIds : /\ comps[c] \in CompShapes /\ comps[c].page \in NamedIds \cup {None}
                                 /\ comps[c].parent \in CompIds \cup {None} /\ c \in Nat
                                 /\ c > compCount => comps[c] = NoComp
                                 /\ Exists(c) <=> comps[c].page # None
                                 /\ Exists(c) => c <= compCount
           /\ NoComp \in CompShapes /\ NoComp.page = None
<1>1. NoComp \in CompShapes /\ NoComp.page = None
  BY DEF NoComp, CompShapes, None, Orders
<1>2. \A c \in CompIds : c \in Nat /\ c # None
  BY BoundsAreNat DEF CompIds
<1>3. \A c \in CompIds : comps[c] \in CompShapes /\ (c > compCount => comps[c] = NoComp)
  BY DEF TreesInv
<1>4. compCount \in 0 .. MaxComps
  BY DEF TreesInv
<1>5. ASSUME NEW c \in CompIds, Exists(c) PROVE c <= compCount
  BY <1>1, <1>2, <1>3, <1>4, <1>5 DEF Exists
<1> QED
  BY <1>1, <1>2, <1>3, <1>4, <1>5 DEF Exists, CompShapes

(* A step that only changes orders.                                        *)
LEMMA OrdersKeep ==
    ASSUME TreesInv, UNCHANGED <<compCount, byPage, byParent>>, comps' \in [CompIds -> CompShapes],
           \A c \in CompIds : /\ comps'[c].page = comps[c].page /\ comps'[c].parent = comps[c].parent
                              /\ ~Exists(c) => comps'[c] = comps[c]
    PROVE  TreesInv'
<1>1. \A c \in CompIds : c > compCount => comps'[c] = NoComp
  BY ComponentsHeld
<1>2. Listing(comps', byPage', byParent')
  BY DEF TreesInv, Listing
<1>3. ParentsOK(comps')
  <2>1. \A c \in CompIds : comps[c].parent \in CompIds \cup {None}
    BY ComponentsHeld
  <2> QED
    BY <2>1 DEF TreesInv, ParentsOK
<1>4. Grounded(comps')
  <2>1. \A S \in SUBSET CompIds : Looped(comps', S) => Looped(comps, S)
    BY DEF Looped
  <2> QED
    BY <2>1 DEF TreesInv, Grounded
<1> QED
  BY <1>1, <1>2, <1>3, <1>4 DEF TreesInv

(* A refused update may have changed the order of one component.           *)
LEMMA OrderKeeps ==
    ASSUME TreesInv, NEW c \in CompIds, Exists(c), NEW o \in Orders, comps' = [comps EXCEPT ![c].order = o],
           UNCHANGED <<compCount, byPage, byParent>>
    PROVE  TreesInv'
<1>1. comps' = [comps EXCEPT ![c] = [comps[c] EXCEPT !.order = o]]
  BY DEF TreesInv
<1>2. comps[c] \in CompShapes /\ comps \in [CompIds -> CompShapes]
  BY DEF TreesInv
<1>3. /\ [comps[c] EXCEPT !.order = o] \in CompShapes
      /\ [comps[c] EXCEPT !.order = o].page = comps[c].page
      /\ [comps[c] EXCEPT !.order = o].parent = comps[c].parent
  BY <1>2 DEF CompShapes
<1> QED
  BY <1>1, <1>2, <1>3, OrdersKeep

(* reorder changes two.                                                    *)
LEMMA ReorderKeeps ==
    ASSUME TreesInv, NEW c \in CompIds, NEW d \in CompIds, NEW o \in Orders \cup {BadNumber}, Reorder(c, d, o)
    PROVE  TreesInv'
<1>1. UNCHANGED <<compCount, byPage, byParent>>
  BY DEF Reorder
<1>2. CASE comps' = comps
  BY <1>1, <1>2, OrdersKeep DEF TreesInv
<1>3. CASE Exists(c) /\ Exists(d) /\ o # BadNumber /\ comps' = [comps EXCEPT ![c].order = 0, ![d].order = o]
  <2>1. o \in Orders /\ 0 \in Orders /\ comps \in [CompIds -> CompShapes]
    BY <1>3 DEF Orders, TreesInv
  <2>2. \A r \in CompShapes, x \in Orders : /\ [r EXCEPT !.order = x] \in CompShapes
                                            /\ [r EXCEPT !.order = x].page = r.page
                                            /\ [r EXCEPT !.order = x].parent = r.parent
    BY DEF CompShapes
  <2> DEFINE F == [comps EXCEPT ![c] = [comps[c] EXCEPT !.order = 0]]
  <2>3. /\ F \in [CompIds -> CompShapes] /\ \A e \in CompIds : e # c => F[e] = comps[e]
        /\ F[c].page = comps[c].page /\ F[c].parent = comps[c].parent
    BY <2>1, <2>2
  <2>4. comps' = [F EXCEPT ![d] = [F[d] EXCEPT !.order = o]]
    BY <1>3, <2>1
  <2> HIDE DEF F
  <2>5. /\ comps' \in [CompIds -> CompShapes] /\ \A e \in CompIds : e # d => comps'[e] = F[e]
        /\ comps'[d].page = F[d].page /\ comps'[d].parent = F[d].parent
    BY <2>1, <2>2, <2>3, <2>4
  <2>6. \A e \in CompIds : /\ comps'[e].page = comps[e].page /\ comps'[e].parent = comps[e].parent
                           /\ ~Exists(e) => comps'[e] = comps[e]
    BY <1>3, <2>3, <2>5
  <2> QED
    BY <1>1, <2>5, <2>6, OrdersKeep
<1> QED
  BY <1>2, <1>3 DEF Reorder

(* A new component is listed once, and its number was free.                *)
LEMMA CreateComponentKeeps ==
    ASSUME TreesInv, NEW page \in NamedIds, NEW parent \in CompIds \cup {None},
           NEW o \in Orders \cup {BadNumber}, CreateComponent(page, parent, o)
    PROVE  TreesInv'
<1> DEFINE id == compCount + 1
           ok == /\ o # BadNumber
                 /\ named["page"][page] # NoName
                 /\ parent # None => Exists(parent) /\ comps[parent].page = page
           made == [page |-> page, parent |-> parent, order |-> o]
<1>1. CASE ~ok
  BY <1>1 DEF CreateComponent, compVars, TreesInv
<1>2. CASE ok
  <2>1. id \in CompIds /\ id \in 0 .. MaxComps /\ ~Exists(id) /\ id # parent /\ page # None
        /\ comps[id] = NoComp /\ comps[id].page = None
    <3>1. id <= MaxComps
      BY DEF CreateComponent
    <3>2. id \in CompIds /\ id \in 0 .. MaxComps /\ id > compCount
      BY <3>1, ComponentsHeld, BoundsAreNat DEF CompIds
    <3> HIDE DEF id
    <3>3. comps[id] = NoComp /\ comps[id].page = None /\ ~Exists(id)
      BY <3>2, ComponentsHeld
    <3> QED
      BY <1>2, <3>2, <3>3, BoundsAreNat
  <2>2. /\ compCount' = id /\ comps' = [comps EXCEPT ![id] = made]
        /\ byPage' = [byPage EXCEPT ![page] = With(@, id)]
        /\ byParent' = IF parent = None THEN byParent ELSE [byParent EXCEPT ![parent] = With(@, id)]
    BY <1>2 DEF CreateComponent
  <2>3. made \in CompShapes /\ made.page = page /\ made.parent = parent
    BY <1>2 DEF CompShapes
  <2>4. compCount \in Nat /\ id = compCount + 1
    BY ComponentsHeld, BoundsAreNat
  <2> HIDE DEF id, made, ok
  <2>5. /\ comps' \in [CompIds -> CompShapes] /\ comps'[id] = made
        /\ \A c \in CompIds : c # id => comps'[c] = comps[c]
    BY <2>1, <2>2, <2>3 DEF TreesInv
  <2>6. /\ byPage \in [NamedIds -> [CompIds -> Nat]] /\ byParent \in [CompIds -> [CompIds -> Nat]]
        /\ Listing(comps, byPage, byParent)
    BY DEF TreesInv
  <2>7. byPage[page][id] = 0 /\ (parent # None => byParent[parent][id] = 0)
    BY <2>1, <2>6 DEF Listing
  <2>8. /\ byPage' \in [NamedIds -> [CompIds -> Nat]]
        /\ \A i \in NamedIds, c \in CompIds : byPage'[i][c] = IF i = page /\ c = id THEN 1 ELSE byPage[i][c]
    <3>1. With(byPage[page], id) \in [CompIds -> Nat]
          /\ \A c \in CompIds : With(byPage[page], id)[c] = IF c = id THEN 1 ELSE byPage[page][c]
      BY <2>1, <2>6, <2>7 DEF With
    <3> QED
      BY <2>2, <2>6, <3>1
  <2>9. /\ byParent' \in [CompIds -> [CompIds -> Nat]]
        /\ \A p \in CompIds, c \in CompIds : byParent'[p][c] = IF p = parent /\ c = id THEN 1 ELSE byParent[p][c]
    <3>1. CASE parent = None
      BY <2>2, <2>6, <3>1, BoundsAreNat
    <3>2. CASE parent # None
      <4>1. With(byParent[parent], id) \in [CompIds -> Nat]
            /\ \A c \in CompIds : With(byParent[parent], id)[c] = IF c = id THEN 1 ELSE byParent[parent][c]
        <5>1. parent \in CompIds /\ byParent[parent] \in [CompIds -> Nat] /\ byParent[parent][id] = 0
          BY <2>6, <2>7, <3>2
        <5> QED
          BY <2>1, <5>1 DEF With
      <4> QED
        BY <2>2, <2>6, <3>2, <4>1
    <3> QED
      BY <3>1, <3>2
  <2>10. Listing(comps', byPage', byParent')
    <3> SUFFICES ASSUME NEW c \in CompIds
                 PROVE  /\ \A i \in NamedIds : byPage'[i][c] = IF comps'[c].page = i THEN 1 ELSE 0
                        /\ \A p \in CompIds : byParent'[p][c]
                              = IF comps'[c].page # None /\ comps'[c].parent = p THEN 1 ELSE 0
      BY DEF Listing
    <3>1. /\ \A i \in NamedIds : byPage[i][c] = IF comps[c].page = i THEN 1 ELSE 0
          /\ \A p \in CompIds : byParent[p][c] = IF comps[c].page # None /\ comps[c].parent = p THEN 1 ELSE 0
      BY <2>6 DEF Listing
    <3>2. CASE c = id
      BY <2>1, <2>3, <2>5, <2>8, <2>9, <3>1, <3>2, BoundsAreNat
    <3>3. CASE c # id
      BY <2>5, <2>8, <2>9, <3>1, <3>3
    <3> QED
      BY <3>2, <3>3
  <2>11. \A c \in CompIds : c # id /\ comps[c].page # None => comps[c].parent # id
    <3>1. \A c \in CompIds : comps[c].page # None /\ comps[c].parent # None =>
              comps[comps[c].parent].page # None
      BY DEF TreesInv, ParentsOK
    <3> QED
      BY <2>1, <3>1, BoundsAreNat
  <2>12. ParentsOK(comps')
    <3> SUFFICES ASSUME NEW c \in CompIds, comps'[c].page # None, comps'[c].parent # None
                 PROVE  comps'[comps'[c].parent].page = comps'[c].page
      BY DEF ParentsOK
    <3>1. CASE c = id
      BY <1>2, <2>1, <2>3, <2>5, <3>1 DEF ok
    <3>2. CASE c # id
      <4>1. comps'[c] = comps[c] /\ comps[c].page # None /\ comps[c].parent # None
        BY <2>5, <3>2
      <4>2. comps[c].parent \in CompIds
        BY <4>1, ComponentsHeld
      <4>3. comps[c].parent # id
        BY <2>11, <3>2, <4>1
      <4> QED
        BY <2>5, <4>1, <4>2, <4>3 DEF TreesInv, ParentsOK
    <3> QED
      BY <3>1, <3>2
  <2>13. Grounded(comps')
    <3> SUFFICES ASSUME NEW S \in SUBSET CompIds, Looped(comps', S) PROVE S = {}
      BY DEF Grounded
    <3>1. Looped(comps, S \ {id})
      <4> SUFFICES ASSUME NEW c \in S, c # id PROVE comps[c].page # None /\ comps[c].parent \in S \ {id}
        BY DEF Looped
      <4>1. comps'[c] = comps[c] /\ comps'[c].page # None /\ comps'[c].parent \in S
        BY <2>5 DEF Looped
      <4> QED
        BY <2>11, <4>1
    <3>2. S \ {id} = {}
      BY <3>1 DEF TreesInv, Grounded
    <3>3. id \notin S
      BY <2>1, <2>3, <2>5, <3>2 DEF Looped
    <3> QED
      BY <3>2, <3>3
  <2>14. \A c \in CompIds : c > compCount' => comps'[c] = NoComp
    <3>1. \A c \in CompIds : c \in Nat /\ (c > compCount => comps[c] = NoComp)
      BY ComponentsHeld
    <3> QED
      BY <2>2, <2>4, <2>5, <3>1
  <2> QED
    BY <2>1, <2>2, <2>5, <2>8, <2>9, <2>10, <2>12, <2>13, <2>14 DEF TreesInv
<1> QED
  BY <1>1, <1>2

(* What is deleted is closed under children: no parent is left dangling.   *)
LEMMA DeleteComponentKeeps ==
    ASSUME TreesInv, NEW c \in CompIds, DeleteComponent(c)
    PROVE  TreesInv'
<1>1. CASE ~Exists(c)
  BY <1>1 DEF DeleteComponent, TreesInv
<1>2. CASE Exists(c)
  <2> DEFINE gone == Subtree(c)
  <2>1. gone \in SUBSET CompIds /\ \A e \in gone : Children(e) \subseteq gone
    BY SubtreeCloses
  <2>2. /\ comps' = [d \in CompIds |-> IF d \in gone THEN NoComp ELSE comps[d]]
        /\ byPage' = [i \in NamedIds |-> Without(byPage[i], {d \in gone : comps[d].page = i})]
        /\ byParent' = [p \in CompIds |->
              IF p \in gone THEN NoneListed ELSE Without(byParent[p], {d \in gone : comps[d].parent = p})]
        /\ compCount' = compCount
    BY <1>2 DEF DeleteComponent
  <2>3. \A e \in gone, d \in CompIds : comps[d].page # None /\ comps[d].parent = e => d \in gone
    BY <2>1, ChildrenAreListed
  <2> HIDE DEF gone
  <2>4. /\ byPage \in [NamedIds -> [CompIds -> Nat]] /\ byParent \in [CompIds -> [CompIds -> Nat]]
        /\ Listing(comps, byPage, byParent) /\ comps \in [CompIds -> CompShapes]
    BY DEF TreesInv
  <2>5. /\ \A i \in NamedIds, d \in CompIds :
              byPage'[i][d] = IF d \in gone /\ comps[d].page = i THEN 0 ELSE byPage[i][d]
        /\ byPage' \in [NamedIds -> [CompIds -> Nat]]
    BY <2>2, <2>4 DEF Without
  <2>6. /\ \A p \in CompIds, d \in CompIds :
              byParent'[p][d] = IF p \in gone \/ (d \in gone /\ comps[d].parent = p) THEN 0 ELSE byParent[p][d]
        /\ byParent' \in [CompIds -> [CompIds -> Nat]]
    BY <2>2, <2>4 DEF Without, NoneListed
  <2>7. /\ \A d \in gone : comps'[d] = NoComp
        /\ \A d \in CompIds \ gone : comps'[d] = comps[d]
        /\ comps' \in [CompIds -> CompShapes]
    BY <2>1, <2>2, <2>4, ComponentsHeld
  <2>8. Listing(comps', byPage', byParent')
    <3> SUFFICES ASSUME NEW d \in CompIds
                 PROVE  /\ \A i \in NamedIds : byPage'[i][d] = IF comps'[d].page = i THEN 1 ELSE 0
                        /\ \A p \in CompIds : byParent'[p][d]
                              = IF comps'[d].page # None /\ comps'[d].parent = p THEN 1 ELSE 0
      BY DEF Listing
    <3>1. /\ \A i \in NamedIds : byPage[i][d] = IF comps[d].page = i THEN 1 ELSE 0
          /\ \A p \in CompIds : byParent[p][d] = IF comps[d].page # None /\ comps[d].parent = p THEN 1 ELSE 0
      BY <2>4 DEF Listing
    <3>2. CASE d \in gone
      <4>1. comps'[d].page = None
        BY <2>7, <3>2, ComponentsHeld
      <4> QED
        BY <2>5, <2>6, <3>1, <3>2, <4>1, BoundsAreNat
    <3>3. CASE d \notin gone
      BY <2>3, <2>5, <2>6, <2>7, <3>1, <3>3
    <3> QED
      BY <3>2, <3>3
  <2>9. ParentsOK(comps')
    <3> SUFFICES ASSUME NEW d \in CompIds, comps'[d].page # None, comps'[d].parent # None
                 PROVE  comps'[comps'[d].parent].page = comps'[d].page
      BY DEF ParentsOK
    <3>1. d \notin gone /\ comps'[d] = comps[d]
      BY <2>7, ComponentsHeld
    <3>2. comps[d].parent \in CompIds \ gone
      BY <2>3, <3>1, ComponentsHeld
    <3> QED
      BY <2>7, <3>1, <3>2 DEF TreesInv, ParentsOK
  <2>10. Grounded(comps')
    <3>1. NoComp.page = None
      BY ComponentsHeld
    <3>2. \A S \in SUBSET CompIds : Looped(comps', S) => Looped(comps, S)
      BY <2>7, <3>1 DEF Looped
    <3> QED
      BY <3>2 DEF TreesInv, Grounded
  <2>11. \A d \in CompIds : d > compCount' => comps'[d] = NoComp
    BY <2>2, <2>7, ComponentsHeld
  <2> QED
    BY <2>2, <2>5, <2>6, <2>7, <2>8, <2>9, <2>10, <2>11 DEF TreesInv
<1> QED
  BY <1>1, <1>2

(* A component moves under one that is not below it, or becomes a root.    *)
LEMMA ReparentKeeps ==
    ASSUME TreesInv, NEW c \in CompIds, NEW parent \in CompIds \cup {None}, NEW o \in Orders, Exists(c),
           parent # None => MayAdopt(c, parent), Reparent(c, parent, o), UNCHANGED <<compCount, byPage>>
    PROVE  TreesInv'
<1> DEFINE old == comps[c].parent
           left == IF old = None THEN byParent ELSE [byParent EXCEPT ![old] = Without(@, {c})]
           moved == [comps[c] EXCEPT !.parent = parent, !.order = o]
<1>1. /\ byPage \in [NamedIds -> [CompIds -> Nat]] /\ byParent \in [CompIds -> [CompIds -> Nat]]
      /\ Listing(comps, byPage, byParent) /\ comps \in [CompIds -> CompShapes]
  BY DEF TreesInv
<1>2. /\ old \in CompIds \cup {None} /\ comps[c].page # None /\ comps[c] \in CompShapes
      /\ comps[c] # NoComp
  BY ComponentsHeld
<1>3. /\ byParent' = IF parent = None THEN left ELSE [left EXCEPT ![parent] = With(@, c)]
      /\ comps' = [comps EXCEPT ![c] = moved]
  BY <1>1 DEF Reparent
<1>4. /\ moved \in CompShapes /\ moved.page = comps[c].page /\ moved.parent = parent
  BY <1>2 DEF CompShapes
<1> HIDE DEF moved
<1>5. /\ comps' \in [CompIds -> CompShapes] /\ comps'[c] = moved
      /\ \A d \in CompIds : d # c => comps'[d] = comps[d]
  BY <1>1, <1>3, <1>4
<1>6. /\ left \in [CompIds -> [CompIds -> Nat]]
      /\ \A p \in CompIds, d \in CompIds : left[p][d] = IF d = c THEN 0 ELSE byParent[p][d]
  <2>1. \A p \in CompIds : p # old => byParent[p][c] = 0
    BY <1>1 DEF Listing
  <2>2. CASE old = None
    BY <1>1, <2>1, <2>2, BoundsAreNat
  <2>3. CASE old # None
    <3>1. old \in CompIds /\ byParent[old] \in [CompIds -> Nat]
      BY <1>1, <1>2, <2>3
    <3>2. Without(byParent[old], {c}) \in [CompIds -> Nat]
          /\ \A d \in CompIds : Without(byParent[old], {c})[d] = IF d = c THEN 0 ELSE byParent[old][d]
      BY <3>1 DEF Without
    <3>3. left = [byParent EXCEPT ![old] = Without(byParent[old], {c})]
      BY <2>3
    <3> HIDE DEF left
    <3> QED
      BY <1>1, <2>1, <3>1, <3>2, <3>3
  <2> QED
    BY <2>2, <2>3
<1> HIDE DEF left
<1>7. /\ byParent' \in [CompIds -> [CompIds -> Nat]]
      /\ \A p \in CompIds, d \in CompIds :
            byParent'[p][d] = IF d = c THEN IF p = parent THEN 1 ELSE 0 ELSE byParent[p][d]
  <2>1. CASE parent = None
    BY <1>3, <1>6, <2>1, BoundsAreNat
  <2>2. CASE parent # None
    <3>1. parent \in CompIds /\ left[parent] \in [CompIds -> Nat] /\ left[parent][c] = 0
      BY <1>6, <2>2
    <3>2. With(left[parent], c) \in [CompIds -> Nat]
          /\ \A d \in CompIds : With(left[parent], c)[d] = IF d = c THEN 1 ELSE left[parent][d]
      BY <3>1 DEF With
    <3> QED
      BY <1>3, <1>6, <2>2, <3>1, <3>2
  <2> QED
    BY <2>1, <2>2
<1>8. Listing(comps', byPage', byParent')
  <2> SUFFICES ASSUME NEW d \in CompIds
               PROVE  /\ \A i \in NamedIds : byPage'[i][d] = IF comps'[d].page = i THEN 1 ELSE 0
                      /\ \A p \in CompIds : byParent'[p][d]
                            = IF comps'[d].page # None /\ comps'[d].parent = p THEN 1 ELSE 0
    BY DEF Listing
  <2>1. /\ \A i \in NamedIds : byPage[i][d] = IF comps[d].page = i THEN 1 ELSE 0
        /\ \A p \in CompIds : byParent[p][d] = IF comps[d].page # None /\ comps[d].parent = p THEN 1 ELSE 0
    BY <1>1 DEF Listing
  <2> QED
    BY <1>2, <1>4, <1>5, <1>7, <2>1
<1>9. parent # None => parent \in CompIds /\ parent \notin Subtree(c) /\ comps[parent].page = comps[c].page
  BY Adopted DEF MayAdopt
<1>10. ParentsOK(comps')
  <2> SUFFICES ASSUME NEW d \in CompIds, comps'[d].page # None, comps'[d].parent # None
               PROVE  comps'[comps'[d].parent].page = comps'[d].page
    BY DEF ParentsOK
  <2>1. \A e \in CompIds : comps'[e].page = comps[e].page
    BY <1>4, <1>5
  <2>2. CASE d = c
    BY <1>4, <1>5, <1>9, <2>1, <2>2
  <2>3. CASE d # c
    <3>1. comps'[d] = comps[d] /\ comps[d].parent \in CompIds
      BY <1>5, <2>3, ComponentsHeld
    <3> QED
      BY <2>1, <3>1 DEF TreesInv, ParentsOK
  <2> QED
    BY <2>2, <2>3
<1>11. Grounded(comps')
  <2> SUFFICES ASSUME NEW S \in SUBSET CompIds, Looped(comps', S) PROVE S = {}
    BY DEF Grounded
  <2>1. \A T \in SUBSET CompIds : Looped(comps, T) => T = {}
    BY DEF TreesInv, Grounded
  <2>2. \A d \in S : d # c => comps[d].page # None /\ comps[d].parent \in S
    BY <1>5 DEF Looped
  <2>3. CASE c \notin S
    <3>1. Looped(comps, S)
      BY <2>2, <2>3 DEF Looped
    <3> QED
      BY <2>1, <3>1
  <2>4. CASE c \in S
    <3> DEFINE T == S \ Subtree(c)
    <3>1. parent \in S /\ parent # None
      BY <1>4, <1>5, <2>4, BoundsAreNat DEF Looped
    <3>2. parent \in T /\ T \in SUBSET CompIds
      BY <1>9, <3>1
    <3>3. Looped(comps, T)
      <4> SUFFICES ASSUME NEW d \in T PROVE comps[d].page # None /\ comps[d].parent \in T
        BY DEF Looped
      <4>1. d # c /\ d \in CompIds
        BY SubtreeCloses
      <4>2. comps[d].page # None /\ comps[d].parent \in S
        BY <2>2, <4>1
      <4>3. comps[d].parent \notin Subtree(c)
        <5>1. d \in Children(comps[d].parent)
          BY <4>1, <4>2, ChildrenAreListed
        <5> QED
          BY <5>1, SubtreeCloses
      <4> QED
        BY <4>2, <4>3
    <3> QED
      BY <2>1, <3>2, <3>3
  <2> QED
    BY <2>3, <2>4
<1>12. \A d \in CompIds : d > compCount' => comps'[d] = NoComp
  <2>1. c <= compCount /\ compCount \in Nat /\ c \in Nat
    BY ComponentsHeld, BoundsAreNat
  <2>2. \A d \in CompIds : d > compCount => d # c /\ comps[d] = NoComp
    BY <2>1, ComponentsHeld
  <2> QED
    BY <1>5, <2>2
<1> QED
  BY <1>1, <1>5, <1>7, <1>8, <1>10, <1>11, <1>12 DEF TreesInv

(* update and move: the order, then perhaps the parent.                    *)
LEMMA UpdateComponentKeeps ==
    ASSUME TreesInv, NEW c \in CompIds, NEW o \in Orders \cup {BadNumber}, NEW parent \in CompIds \cup {None},
           UpdateComponent(c, o, parent) \/ MoveComponent(c, parent, o)
    PROVE  TreesInv'
<1>1. UNCHANGED <<compCount, byPage>>
  BY DEF UpdateComponent, MoveComponent
<1>2. CASE UNCHANGED <<comps, byParent>>
  BY <1>1, <1>2 DEF TreesInv
<1>3. CASE Exists(c) /\ o # BadNumber /\ comps' = [comps EXCEPT ![c].order = o] /\ byParent' = byParent
  BY <1>1, <1>3, OrderKeeps
<1>4. CASE Exists(c) /\ o # BadNumber /\ (parent # None => MayAdopt(c, parent)) /\ Reparent(c, parent, o)
  BY <1>1, <1>4, ReparentKeeps
<1> QED
  BY <1>2, <1>3, <1>4 DEF UpdateComponent, MoveComponent

(* Every call keeps the part it works on, leaves the others as they are,   *)
(* and is careful where it is refused.                                     *)
Careful == ~elast'.ok => /\ elast'.op \notin {"batchUpdate", "batchDelete"} => UNCHANGED packVars
                         /\ UNCHANGED <<byPage, byParent>>
                         /\ elast'.op # "updateComponent" => UNCHANGED comps

(* Calls on pages and workflows.                                           *)
LEMMA NamedCalls ==
    ASSUME EntityInv,
           \/ \E k \in Kinds, n \in Names \cup {Bad} : CreateNamed(k, n)
           \/ \E k \in Kinds, id \in NamedIds, n \in Names \cup {Bad}, restOk \in BOOLEAN : Rename(k, id, n, restOk)
           \/ \E k \in Kinds, id \in NamedIds : RemoveNamed(k, id)
    PROVE  EntityInv' /\ Careful
<1>1. NamesInv'
  BY CreateNamedKeeps, RenameKeeps, RemoveNamedKeeps DEF EntityInv
<1> DEFINE Apart == UNCHANGED <<packVars, compVars, madeUsers>> /\ elast'.ok \in BOOLEAN
<1>4. ASSUME NEW k \in Kinds, NEW n \in Names \cup {Bad}, CreateNamed(k, n) PROVE Apart
  BY <1>4 DEF CreateNamed, Answers
<1>5. ASSUME NEW k \in Kinds, NEW id \in NamedIds, NEW n \in Names \cup {Bad}, NEW restOk \in BOOLEAN,
             Rename(k, id, n, restOk)
      PROVE  Apart
  BY <1>5 DEF Rename, Answers
<1>6. ASSUME NEW k \in Kinds, NEW id \in NamedIds, RemoveNamed(k, id) PROVE Apart
  BY <1>6 DEF RemoveNamed, Answers
<1>2. UNCHANGED <<packVars, compVars, madeUsers>> /\ elast'.ok \in BOOLEAN
  BY <1>4, <1>5, <1>6
<1>3. PacksInv' /\ TreesInv'
  BY <1>2 DEF EntityInv, PacksInv, TreesInv, packVars, compVars
<1> QED
  BY <1>1, <1>2, <1>3 DEF EntityInv, Careful, packVars, compVars

(* Calls on packages: what a refused batch of creations did is undone.     *)
LEMMA PackageCalls ==
    ASSUME EntityInv, NextPackages
    PROVE  EntityInv' /\ Careful
<1>1. PacksInv'
  BY PackagesKeep DEF EntityInv
<1>2. RestUnchanged
  BY DEF NextPackages, CreatePackage, DeletePackage, UpdatePackage, BatchCreate, BatchUpdate, BatchDelete
<1>3. NamesInv' /\ TreesInv'
  BY <1>2 DEF EntityInv, NamesInv, IndexesAgree, TreesInv, namedVars, compVars, RestUnchanged
<1> DEFINE PacksCareful == elast'.ok \in BOOLEAN /\ (~elast'.ok => UNCHANGED packVars)
<1>4. ASSUME NEW n \in Names \cup {Bad}, CreatePackage(n) PROVE PacksCareful
  BY <1>4 DEF CreatePackage, Answers
<1>5. ASSUME NEW n \in Names, DeletePackage(n) PROVE PacksCareful
  BY <1>5 DEF DeletePackage, Answers
<1>6. ASSUME NEW n \in Names, NEW v \in {2, BadNumber}, UpdatePackage(n, v) PROVE PacksCareful
  BY <1>6 DEF UpdatePackage, Answers
<1>7. ASSUME NEW n \in Names \cup {Bad}, NEW m \in Names \cup {Bad}, BatchCreate(n, m) PROVE PacksCareful
  BY <1>7 DEF BatchCreate, Answers
<1>8. ASSUME NEW n \in Names, NEW m \in Names, BatchUpdate(n, m) \/ BatchDelete(n, m)
      PROVE  elast'.ok \in BOOLEAN /\ elast'.op \in {"batchUpdate", "batchDelete"}
  <2>1. CASE BatchUpdate(n, m)
    BY <2>1 DEF BatchUpdate, Answers
  <2>2. CASE BatchDelete(n, m)
    BY <2>2 DEF BatchDelete, Answers
  <2> QED
    BY <1>8, <2>1, <2>2
<1>9. /\ elast'.ok \in BOOLEAN
      /\ ~elast'.ok /\ elast'.op \notin {"batchUpdate", "batchDelete"} => UNCHANGED packVars
  BY <1>4, <1>5, <1>6, <1>7, <1>8 DEF NextPackages
<1> QED
  BY <1>1, <1>2, <1>3, <1>9 DEF EntityInv, Careful, compVars, RestUnchanged

(* Calls on components.                                                    *)
LEMMA TreeCalls ==
    ASSUME EntityInv,
           \/ \E page \in NamedIds, parent \in CompIds \cup {None}, o \in Orders \cup {BadNumber} :
                 CreateComponent(page, parent, o)
           \/ \E c \in CompIds : DeleteComponent(c)
           \/ \E c \in CompIds, parent \in CompIds \cup {None}, o \in Orders \cup {BadNumber} :
                 UpdateComponent(c, o, parent) \/ MoveComponent(c, parent, o)
           \/ \E c, d \in CompIds, o \in Orders \cup {BadNumber} : Reorder(c, d, o)
    PROVE  EntityInv' /\ Careful
<1>1. TreesInv'
  BY CreateComponentKeeps, DeleteComponentKeeps, UpdateComponentKeeps, ReorderKeeps DEF EntityInv
<1>2. UserRest
  BY DEF CreateComponent, DeleteComponent, UpdateComponent, MoveComponent, Reorder
<1>3. NamesInv' /\ PacksInv' /\ UNCHANGED packVars
  BY <1>2 DEF EntityInv, NamesInv, IndexesAgree, PacksInv, namedVars, packVars, UserRest
<1>4. ASSUME NEW page \in NamedIds, NEW parent \in CompIds \cup {None}, NEW o \in Orders \cup {BadNumber},
             CreateComponent(page, parent, o)
      PROVE  elast'.ok \in BOOLEAN /\ (~elast'.ok => UNCHANGED <<byPage, byParent, comps>>)
  BY <1>4 DEF CreateComponent, Answers, compVars
<1>5. ASSUME NEW c \in CompIds, DeleteComponent(c)
      PROVE  elast'.ok \in BOOLEAN /\ (~elast'.ok => UNCHANGED <<byPage, byParent, comps>>)
  BY <1>5 DEF DeleteComponent, Answers, Exists
<1>6. ASSUME NEW c \in CompIds, NEW parent \in CompIds \cup {None}, NEW o \in Orders \cup {BadNumber},
             UpdateComponent(c, o, parent)
      PROVE  elast'.ok \in BOOLEAN /\ elast'.op = "updateComponent" /\ (~elast'.ok => UNCHANGED <<byPage, byParent>>)
  BY <1>6 DEF UpdateComponent, Answers
<1>7. ASSUME NEW c \in CompIds, NEW parent \in CompIds \cup {None}, NEW o \in Orders \cup {BadNumber},
             MoveComponent(c, parent, o)
      PROVE  elast'.ok \in BOOLEAN /\ (~elast'.ok => UNCHANGED <<byPage, byParent, comps>>)
  BY <1>7 DEF MoveComponent, Answers
<1>8. ASSUME NEW c \in CompIds, NEW d \in CompIds, NEW o \in Orders \cup {BadNumber}, Reorder(c, d, o)
      PROVE  elast'.ok \in BOOLEAN /\ (~elast'.ok => UNCHANGED <<byPage, byParent, comps>>)
  BY <1>8 DEF Reorder, Answers
<1>9. /\ elast'.ok \in BOOLEAN
      /\ ~elast'.ok => UNCHANGED <<byPage, byParent>> /\ (elast'.op # "updateComponent" => UNCHANGED comps)
  BY <1>4, <1>5, <1>6, <1>7, <1>8
<1> QED
  BY <1>1, <1>3, <1>9 DEF EntityInv, Careful

(* Calls on users and sessions touch none of it.                           *)
LEMMA UserCalls ==
    ASSUME EntityInv, NextUsers
    PROVE  EntityInv' /\ Careful
<1>1. UNCHANGED <<namedVars, packVars, compVars>> /\ elast'.ok \in BOOLEAN
  <2>1. ASSUME NEW u \in EUsers, CreateUser(u)
        PROVE  UNCHANGED <<namedVars, packVars, compVars>> /\ elast'.ok \in BOOLEAN
    BY <2>1 DEF CreateUser, Answers
  <2>2. ASSUME NEW u \in EUsers, CreateSession(u)
        PROVE  UNCHANGED <<namedVars, packVars, compVars>> /\ elast'.ok \in BOOLEAN
    <3>1. elast'.ok = (u \in StoreUsers)
      BY <2>2 DEF CreateSession, Answers
    <3> QED
      BY <2>2, <3>1 DEF CreateSession
  <2> QED
    BY <2>1, <2>2 DEF NextUsers
<1> QED
  BY <1>1 DEF EntityInv, NamesInv, IndexesAgree, PacksInv, TreesInv, Careful, namedVars, packVars, compVars

(* Every call keeps the invariant, and is careful.                         *)
LEMMA EntitiesStep == EntityInv /\ [NextEntities]_entityVars => EntityInv' /\ [Careful]_entityVars
<1> SUFFICES ASSUME EntityInv, [NextEntities]_entityVars PROVE EntityInv' /\ [Careful]_entityVars
  OBVIOUS
<1>1. CASE UNCHANGED entityVars
  BY <1>1 DEF entityVars, EntityInv, NamesInv, IndexesAgree, PacksInv, TreesInv
<1>2. CASE NextNamed
  <2>1. \/ \E k \in Kinds, n \in Names \cup {Bad} : CreateNamed(k, n)
        \/ \E k \in Kinds, id \in NamedIds, n \in Names \cup {Bad}, restOk \in BOOLEAN : Rename(k, id, n, restOk)
        \/ \E k \in Kinds, id \in NamedIds : RemoveNamed(k, id)
    BY <1>2 DEF NextNamed, CreatePage, CreateWorkflow, UpdatePage, UpdateWorkflow, DeletePage, DeleteWorkflow, Kinds
  <2> QED
    BY <2>1, NamedCalls
<1>3. CASE NextTrees
  <2>1. CASE \/ \E n \in Names : CreatePage(n)
             \/ \E id \in NamedIds : DeletePage(id)
    <3>1. \/ \E k \in Kinds, n \in Names \cup {Bad} : CreateNamed(k, n)
          \/ \E k \in Kinds, id \in NamedIds : RemoveNamed(k, id)
      BY <2>1 DEF CreatePage, DeletePage, Kinds
    <3> QED
      BY <3>1, NamedCalls
  <2>2. CASE \/ \E page \in NamedIds, parent \in CompIds \cup {None}, o \in Orders : CreateComponent(page, parent, o)
             \/ \E page \in NamedIds : CreateComponent(page, None, BadNumber)
    <3>1. \E page \in NamedIds, parent \in CompIds \cup {None}, o \in Orders \cup {BadNumber} :
             CreateComponent(page, parent, o)
      BY <2>2
    <3> QED
      BY <3>1, TreeCalls
  <2>3. CASE \E c \in CompIds : DeleteComponent(c)
    BY <2>3, TreeCalls
  <2>4. CASE \/ \E c \in CompIds, parent \in CompIds \cup {None}, o \in Orders :
                   UpdateComponent(c, o, parent) \/ MoveComponent(c, parent, o)
             \/ \E c \in CompIds : UpdateComponent(c, BadNumber, None) \/ MoveComponent(c, None, BadNumber)
    <3>1. \E c \in CompIds, parent \in CompIds \cup {None}, o \in Orders \cup {BadNumber} :
             UpdateComponent(c, o, parent) \/ MoveComponent(c, parent, o)
      BY <2>4
    <3> QED
      BY <3>1, TreeCalls
  <2>5. CASE \/ \E c, d \in CompIds, o \in Orders : Reorder(c, d, o)
             \/ \E c \in CompIds : Reorder(c, c, BadNumber)
    <3>1. \E c, d \in CompIds, o \in Orders \cup {BadNumber} : Reorder(c, d, o)
      BY <2>5
    <3> QED
      BY <3>1, TreeCalls
  <2> QED
    BY <1>3, <2>1, <2>2, <2>3, <2>4, <2>5 DEF NextTrees
<1> QED
  BY <1>1, <1>2, <1>3, PackageCalls, UserCalls DEF NextEntities

(* The invariant implies what is promised.                                 *)
LEMMA EntitiesMean ==
    EntityInv => TypeOKEntities /\ IndexesAgree /\ ListsAgree /\ TreesAreComplete
<1> SUFFICES ASSUME EntityInv PROVE TypeOKEntities /\ IndexesAgree /\ ListsAgree /\ TreesAreComplete
  OBVIOUS
<1>1. TypeOKEntities
  BY ComponentsHeld DEF EntityInv, NamesInv, PacksInv, TypeOKEntities
<1>2. ListsAgree
  BY BoundsAreNat DEF EntityInv, TreesInv, Listing, ListsAgree, Exists
<1> QED
  BY <1>1, <1>2, TreesComplete DEF EntityInv, NamesInv

(* The in-memory entities agree after any sequence of calls, for any       *)
(* names and any number of pages, packages and components.                 *)
THEOREM EntitiesStayInAgreement == SpecEntities => EntitiesAgree
<1>1. InitEntities => EntityInv
  BY NamesStart
<1>2. EntityInv /\ [NextEntities]_entityVars => EntityInv'
  BY EntitiesStep
<1>3. EntityInv /\ [NextEntities]_entityVars => [Careful]_entityVars
  BY EntitiesStep
<1>4. EntityInv => TypeOKEntities /\ IndexesAgree /\ ListsAgree /\ TreesAreComplete
  BY EntitiesMean
<1>5. SpecEntities => [](TypeOKEntities /\ IndexesAgree /\ ListsAgree /\ TreesAreComplete)
  BY <1>1, <1>2, <1>4, PTL DEF SpecEntities
<1>6. SpecEntities => [][Careful]_entityVars
  BY <1>1, <1>2, <1>3, PTL DEF SpecEntities
<1> QED
  BY <1>5, <1>6, PTL DEF EntitiesAgree, RefusedChangesNothing, Careful
=============================================================================
