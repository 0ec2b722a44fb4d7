---------------------------- MODULE RulesProofs ----------------------------
(***************************************************************************)
(* Proofs about the parts of MCRules that keep state or decide by rules:   *)
(* bulk requests over the SQL connection pool, the rules in front of the   *)
(* entities, the throttles, the accounts, and the ranges of blobs.         *)
(***************************************************************************)
EXTENDS MCRules, FiniteSetTheorems, WellFoundedInduction, TLAPS

(***************************************************************************)
(* SqlBatches                                                              *)
(***************************************************************************)
AnyItem == [id : BulkIds, shape : {"good", "bad", "odd"}]
BulkSteps == {"begin", "item", "statement", "refused", "answered"}
Bulk == [step : BulkSteps, kind : BulkKinds,
         items : Seq(AnyItem), left : Seq(AnyItem), status : {0, 200, 400, 500}]

SqlTypes ==
    /\ idleConns \in Nat /\ countedConns \in Nat /\ madeConns \in Nat /\ plain \in Nat
    /\ txConn \in BOOLEAN /\ txActive \in BOOLEAN /\ threw \in BOOLEAN
    /\ bulks \in [BulkSlots -> {Unsent} \cup Bulk]
    /\ applied \in [BulkSlots -> Seq(BulkIds)]

InStatement == {p \in BulkSlots : bulks[p].step = "statement"}

InUse == Cardinality(InStatement) + plain + (IF txConn THEN 1 ELSE 0)

(* The sum of ConnectionsAccounted, and where the connections came from:   *)
(* the initial ones are not counted, and no other is made uncounted.       *)
PoolIsWhole ==
    /\ madeConns = idleConns + InUse
    /\ madeConns = InitialConns + countedConns
    /\ countedConns <= MaxConns

Ownership ==
    /\ txConn = txActive
    /\ \A p \in BulkSlots : OwnsTransaction(p) => txActive
    /\ \A p, q \in BulkSlots : OwnsTransaction(p) /\ OwnsTransaction(q) => p = q
    /\ OpenHasReason

(* What a request has applied and what it has left are its items, in order.*)
Split(done, left, items) ==
    /\ Len(done) + Len(left) = Len(items)
    /\ \A k \in 1..Len(done) : done[k] = items[k].id
    /\ \A k \in 1..Len(left) : left[k] = items[Len(done) + k]

ProgressAt(p) ==
    /\ bulks[p] = Unsent => applied[p] = <<>>
    /\ bulks[p] # Unsent =>
          /\ Split(applied[p], bulks[p].left, bulks[p].items)
          /\ bulks[p].step # "answered" => bulks[p].items # <<>>
          /\ bulks[p].step \in {"begin", "statement", "refused"} => bulks[p].left # <<>>
          /\ bulks[p].step = "answered" =>
                (bulks[p].status = 200 <=> bulks[p].items # <<>> /\ bulks[p].left = <<>>)
Progress == \A p \in BulkSlots : ProgressAt(p)

SqlInv == SqlTypes /\ PoolIsWhole /\ Ownership /\ Progress

LEMMA InitialConnsIsNat == InitialConns \in Nat
  BY SqlBatchAssumption DEF InitialConns

LEMMA SqlInit == InitSqlBatches => SqlInv
<1> SUFFICES ASSUME InitSqlBatches PROVE SqlInv
  OBVIOUS
<1> USE DEF InitSqlBatches, initializePool
<1>1. SqlTypes
  <2>1. <<>> \in Seq(BulkIds)
    OBVIOUS
  <2> QED BY <2>1, InitialConnsIsNat DEF SqlTypes
<1>2. InStatement = {}
  BY DEF InStatement, Unsent
<1>3. PoolIsWhole
  BY <1>2, FS_EmptySet, InitialConnsIsNat, SqlBatchAssumption DEF PoolIsWhole, InUse
<1>4. Ownership
  BY DEF Ownership, OwnsTransaction, OpenHasReason, Unsent
<1>5. Progress
  BY DEF Progress, ProgressAt
<1> QED BY <1>1, <1>3, <1>4, <1>5 DEF SqlInv

LEMMA BodiesAreItems == BulkBodies \subseteq Seq(AnyItem)
<1>1. BulkItems \subseteq AnyItem
  BY SqlBatchAssumption DEF BulkItems, AnyItem
<1>2. ASSUME NEW items \in SeqOf(BulkItems, 2) PROVE items \in Seq(AnyItem)
  <2>1. PICK n \in 0..2 : items \in [1..n -> BulkItems]
    BY DEF SeqOf
  <2> QED BY <1>1, <2>1
<1> QED BY <1>2 DEF BulkBodies

(* What an action makes of the request in a slot: its items and its kind   *)
(* stay, and so do the other slots.                                        *)
BulkBecomes(p, step, left, status) ==
    /\ bulks' \in [BulkSlots -> {Unsent} \cup Bulk]
    /\ \A q \in BulkSlots : q # p => bulks'[q] = bulks[q]
    /\ bulks[p] \in Bulk /\ bulks'[p] \in Bulk
    /\ bulks'[p].step = step /\ bulks'[p].left = left /\ bulks'[p].status = status
    /\ bulks'[p].items = bulks[p].items

(* One field of a request at a time is changed.                            *)
LEMMA StepChanges ==
  ASSUME NEW b \in Bulk, NEW x \in BulkSteps, NEW c, c = [b EXCEPT !.step = x]
  PROVE  /\ c \in Bulk /\ c.step = x
         /\ c.left = b.left /\ c.status = b.status /\ c.items = b.items
  BY DEF Bulk

LEMMA LeftChanges ==
  ASSUME NEW b \in Bulk, NEW x \in Seq(AnyItem), NEW c, c = [b EXCEPT !.left = x]
  PROVE  /\ c \in Bulk /\ c.left = x
         /\ c.step = b.step /\ c.status = b.status /\ c.items = b.items
  BY DEF Bulk

LEMMA StatusChanges ==
  ASSUME NEW b \in Bulk, NEW x \in {0, 200, 400, 500}, NEW c, c = [b EXCEPT !.status = x]
  PROVE  /\ c \in Bulk /\ c.status = x
         /\ c.step = b.step /\ c.left = b.left /\ c.items = b.items
  BY DEF Bulk

LEMMA SlotChanges ==
  ASSUME SqlTypes, NEW p \in BulkSlots, bulks[p] \in Bulk, NEW b \in Bulk, b.items = bulks[p].items,
         bulks' = [bulks EXCEPT ![p] = b]
  PROVE  BulkBecomes(p, b.step, b.left, b.status)
  BY DEF SqlTypes, BulkBecomes

LEMMA MovesTo ==
  ASSUME SqlTypes, NEW p \in BulkSlots, bulks[p].step # "unsent", NEW step \in BulkSteps, Moves(p, step)
  PROVE  BulkBecomes(p, step, bulks[p].left, bulks[p].status)
<1> DEFINE b == [bulks[p] EXCEPT !.step = step]
<1>1. bulks[p] \in Bulk
  BY DEF SqlTypes, Unsent
<1>2. b \in Bulk /\ b.step = step /\ b.left = bulks[p].left /\ b.status = bulks[p].status /\ b.items = bulks[p].items
  BY <1>1, StepChanges
<1>3. bulks' = [bulks EXCEPT ![p] = b]
  BY DEF Moves
<1> QED BY <1>1, <1>2, <1>3, SlotChanges

LEMMA EndsWith ==
  ASSUME SqlTypes, NEW p \in BulkSlots, bulks[p].step # "unsent",
         NEW status \in {200, 400, 500}, Ends(p, status)
  PROVE  BulkBecomes(p, "answered", bulks[p].left, status)
<1> DEFINE a == [bulks[p] EXCEPT !.step = "answered"]
           b == [a EXCEPT !.status = status]
<1>1. bulks[p] \in Bulk
  BY DEF SqlTypes, Unsent
<1>2. a \in Bulk /\ a.step = "answered" /\ a.left = bulks[p].left /\ a.items = bulks[p].items
  BY <1>1, StepChanges DEF BulkSteps
<1>3. b \in Bulk /\ b.step = "answered" /\ b.left = bulks[p].left /\ b.items = bulks[p].items /\ b.status = status
  <2> HIDE DEF a
  <2> QED BY <1>2, StatusChanges
<1>4. bulks' = [bulks EXCEPT ![p] = b]
  <2> DEFINE m == [bulks EXCEPT ![p].step = "answered"]
  <2>1. m = [bulks EXCEPT ![p] = a] /\ m[p] = a
    BY DEF SqlTypes
  <2>2. bulks' = [m EXCEPT ![p].status = status]
    BY DEF Ends
  <2> HIDE DEF m
  <2>3. bulks' = [m EXCEPT ![p] = b]
    BY <2>1, <2>2
  <2> QED BY <2>1, <2>3 DEF SqlTypes
<1> QED BY <1>1, <1>3, <1>4, SlotChanges, ZenonT(40)

(* A statement that is done takes its item off the list.                   *)
LEMMA ItemDone ==
  ASSUME SqlTypes, NEW p \in BulkSlots, bulks[p].step = "statement", bulks[p].left # <<>>,
         bulks' = [bulks EXCEPT ![p].step = "item", ![p].left = Tail(@)]
  PROVE  BulkBecomes(p, "item", Tail(bulks[p].left), bulks[p].status)
<1> DEFINE a == [bulks[p] EXCEPT !.step = "item"]
           rest == Tail(bulks[p].left)
           b == [a EXCEPT !.left = rest]
<1>1. bulks[p] \in Bulk
  BY DEF SqlTypes, Unsent
<1>2. a \in Bulk /\ a.step = "item" /\ a.left = bulks[p].left /\ a.items = bulks[p].items /\ a.status = bulks[p].status
  BY <1>1, StepChanges DEF BulkSteps
<1>3. rest \in Seq(AnyItem)
  BY <1>1 DEF Bulk
<1>4. b \in Bulk /\ b.step = "item" /\ b.left = rest /\ b.items = bulks[p].items /\ b.status = bulks[p].status
  <2> HIDE DEF a, rest
  <2> QED BY <1>2, <1>3, LeftChanges
<1>5. bulks' = [bulks EXCEPT ![p] = b]
  <2> DEFINE m == [bulks EXCEPT ![p].step = "item"]
  <2>1. m = [bulks EXCEPT ![p] = a] /\ m[p] = a
    BY DEF SqlTypes
  <2>2. bulks' = [m EXCEPT ![p].left = Tail(m[p].left)]
    OBVIOUS
  <2> HIDE DEF m
  <2>3. bulks' = [m EXCEPT ![p] = b]
    BY <1>2, <2>1, <2>2
  <2> QED BY <2>1, <2>3 DEF SqlTypes
<1> HIDE DEF b, rest
<1> QED BY <1>1, <1>4, <1>5, SlotChanges DEF rest

LEMMA FiniteStatements == IsFiniteSet(InStatement) /\ Cardinality(InStatement) \in Nat
<1>1. IsFiniteSet(BulkSlots)
  BY FS_Interval, SqlBatchAssumption DEF BulkSlots
<1>2. InStatement \in SUBSET BulkSlots
  BY DEF InStatement
<1> QED BY <1>1, <1>2, FS_Subset, FS_CardinalityType

LEMMA StatementsChange ==
  ASSUME NEW p \in BulkSlots, NEW step, NEW left, NEW status, BulkBecomes(p, step, left, status)
  PROVE  /\ Cardinality(InStatement) \in Nat /\ Cardinality(InStatement') \in Nat
         /\ Cardinality(InStatement') + (IF bulks[p].step = "statement" THEN 1 ELSE 0)
              = Cardinality(InStatement) + (IF step = "statement" THEN 1 ELSE 0)
<1>1. InStatement' = IF step = "statement" THEN InStatement \cup {p} ELSE InStatement \ {p}
  BY DEF InStatement, BulkBecomes
<1>2. p \in InStatement <=> bulks[p].step = "statement"
  BY DEF InStatement
<1>3. CASE step = "statement"
  <2>1. InStatement' = InStatement \cup {p}
    BY <1>1, <1>3
  <2>2. Cardinality(InStatement \cup {p}) = IF p \in InStatement THEN Cardinality(InStatement) ELSE Cardinality(InStatement) + 1
    BY FiniteStatements, FS_AddElement
  <2> QED BY <1>2, <1>3, <2>1, <2>2, FiniteStatements
<1>4. CASE step # "statement"
  <2>1. InStatement' = InStatement \ {p}
    BY <1>1, <1>4
  <2>2. Cardinality(InStatement \ {p}) = IF p \in InStatement THEN Cardinality(InStatement) - 1 ELSE Cardinality(InStatement)
    BY FiniteStatements, FS_RemoveElement
  <2>3. Cardinality(InStatement \ {p}) \in Nat
    BY FiniteStatements, FS_RemoveElement, FS_CardinalityType
  <2> QED BY <1>2, <1>4, <2>1, <2>2, <2>3, FiniteStatements
<1> QED BY <1>3, <1>4

LEMMA StatementsStay == bulks' = bulks => Cardinality(InStatement') = Cardinality(InStatement)
  BY DEF InStatement

LEMMA InUseIsNat == SqlTypes => InUse \in Nat
  BY FiniteStatements DEF InUse, SqlTypes

(* Taking a connection and giving one back.                                *)
LEMMA Acquired ==
  ASSUME SqlTypes, PoolIsWhole, acquire, InUse' = InUse + 1
  PROVE  PoolIsWhole'
<1>0. idleConns \in Nat /\ countedConns \in Nat /\ InUse \in Nat /\ madeConns = idleConns + InUse
      /\ madeConns = InitialConns + countedConns /\ countedConns <= MaxConns
  BY InUseIsNat DEF SqlTypes, PoolIsWhole
<1>1. CASE idleConns > 0
  BY <1>0, <1>1, InitialConnsIsNat DEF acquire, PoolIsWhole, InitialConns
<1>2. CASE ~(idleConns > 0)
  BY <1>0, <1>2, SqlBatchAssumption, InitialConnsIsNat DEF acquire, CanAcquire, PoolIsWhole
<1> QED BY <1>1, <1>2

LEMMA Released ==
  ASSUME SqlTypes, PoolIsWhole, release, InUse \in Nat \ {0}, InUse' = InUse - 1
  PROVE  PoolIsWhole'
<1>0. idleConns \in Nat /\ countedConns \in Nat /\ madeConns = idleConns + InUse
      /\ madeConns = InitialConns + countedConns /\ countedConns <= MaxConns
  BY DEF SqlTypes, PoolIsWhole
<1> QED BY <1>0 DEF release, PoolIsWhole

LEMMA PoolTypes ==
  ASSUME SqlTypes, acquire \/ release
  PROVE  idleConns' \in Nat /\ countedConns' \in Nat /\ madeConns' \in Nat
  BY DEF acquire, release, SqlTypes

(* A request that moves on, or is answered, without a change of its lists. *)
LEMMA ProgressKept ==
  ASSUME Progress, NEW p \in BulkSlots, bulks[p] \in Bulk, bulks'[p] \in Bulk,
         \A q \in BulkSlots : q # p => bulks'[q] = bulks[q],
         applied' = applied,
         bulks[p].step # "answered",
         bulks'[p].left = bulks[p].left, bulks'[p].items = bulks[p].items,
         bulks'[p].step \in {"begin", "statement", "refused"} => bulks[p].left # <<>>,
         bulks'[p].step = "answered" => (bulks'[p].status = 200 <=> bulks[p].left = <<>>)
  PROVE  Progress'
<1>1. ASSUME NEW q \in BulkSlots, q # p
      PROVE ProgressAt(q)'
  BY <1>1 DEF Progress, ProgressAt
<1>2. bulks[p] # Unsent /\ bulks'[p] # Unsent
  BY DEF Bulk, BulkSteps, Unsent
<1>3. ProgressAt(p)
  BY DEF Progress
<1>4. ProgressAt(p)'
  BY <1>2, <1>3 DEF ProgressAt
<1> QED BY <1>1, <1>4 DEF Progress

(* The head of the list that is left becomes the end of the list applied.  *)
LEMMA ItemMovesOver ==
  ASSUME NEW done \in Seq(BulkIds), NEW left \in Seq(AnyItem), NEW items \in Seq(AnyItem),
         left # <<>>, Split(done, left, items)
  PROVE  Split(Append(done, Head(left).id), Tail(left), items)
<1> DEFINE more == Append(done, Head(left).id)
           rest == Tail(left)
<1>1. Len(left) \in Nat \ {0} /\ Len(done) \in Nat
  OBVIOUS
<1>2. Len(more) = Len(done) + 1 /\ Len(rest) = Len(left) - 1
  BY <1>1
<1>3. ASSUME NEW k \in 1..Len(more) PROVE more[k] = items[k].id
  <2>1. CASE k = Len(done) + 1
    BY <1>1, <2>1 DEF Split
  <2>2. CASE k # Len(done) + 1
    <3>1. k \in 1..Len(done)
      BY <1>1, <1>2, <2>2
    <3>2. more[k] = done[k]
      BY <3>1
    <3> QED BY <3>1, <3>2 DEF Split
  <2> QED BY <2>1, <2>2
<1>4. ASSUME NEW k \in 1..Len(rest) PROVE rest[k] = items[Len(more) + k]
  <2>1. rest[k] = left[k + 1] /\ k + 1 \in 1..Len(left)
    BY <1>1, <1>2
  <2>2. left[k + 1] = items[Len(done) + (k + 1)]
    BY <2>1 DEF Split
  <2>3. Len(done) + (k + 1) = Len(more) + k
    BY <1>1, <1>2
  <2> QED BY <2>1, <2>2, <2>3
<1> QED BY <1>1, <1>2, <1>3, <1>4 DEF Split

(* A request is answered or refused before its transaction opens or while  *)
(* it stays open, and the pool is left alone.                              *)
LEMMA RequestStays ==
  ASSUME SqlInv, NEW p \in BulkSlots, NEW step \in {"refused", "answered"}, NEW status,
         BulkBecomes(p, step, bulks[p].left, status),
         \/ bulks[p].step = "begin" /\ step = "answered" /\ threw' = threw /\ status = 500
         \/ bulks[p].step = "item" /\ step = "refused" /\ threw' = threw
         \/ bulks[p].step = "item" /\ step = "answered" /\ threw' = TRUE /\ status = 500,
         bulks[p].step = "item" => bulks[p].left # <<>>,
         UNCHANGED <<idleConns, countedConns, madeConns, txConn, txActive, tableRows, plain, applied>>
  PROVE  SqlInv'
<1>0. SqlTypes /\ PoolIsWhole /\ Ownership /\ Progress
  BY DEF SqlInv
<1>1. SqlTypes'
  <2>1. threw' \in BOOLEAN
    BY <1>0 DEF SqlTypes
  <2> QED BY <1>0, <2>1 DEF SqlTypes, BulkBecomes
<1>2. PoolIsWhole'
  <2>1. Cardinality(InStatement') = Cardinality(InStatement)
    BY StatementsChange
  <2>2. InUse' = InUse
    BY <2>1 DEF InUse
  <2> QED BY <1>0, <2>2 DEF PoolIsWhole
<1>3. \A q \in BulkSlots : OwnsTransaction(q)' => OwnsTransaction(q)
  BY DEF OwnsTransaction, BulkBecomes
<1>4. OpenHasReason'
  <2>1. CASE threw' = TRUE
    BY <2>1 DEF OpenHasReason
  <2>2. CASE ~(threw' = TRUE)
    <3>1. \A q \in BulkSlots : OwnsTransaction(q) => OwnsTransaction(q)'
      BY <2>2 DEF OwnsTransaction, BulkBecomes
    <3>2. (txActive' => txActive) /\ (threw => threw')
      BY <2>2
    <3>3. OpenHasReason
      BY <1>0 DEF Ownership
    <3> QED BY <3>1, <3>2, <3>3 DEF OpenHasReason
  <2> QED BY <2>1, <2>2
<1>5. Ownership'
  BY <1>0, <1>3, <1>4 DEF Ownership
<1>6. step \in BulkSteps /\ applied' = applied /\ bulks[p].step # "answered"
  BY DEF BulkSteps
<1>7. step = "answered" => status # 200 /\ bulks[p].left # <<>>
  BY <1>0 DEF Progress, ProgressAt, BulkBecomes, Bulk, Unsent, BulkSteps
<1>8. Progress'
  <2>1. bulks'[p].step = "answered" => (bulks'[p].status = 200 <=> bulks[p].left = <<>>)
    BY <1>7 DEF BulkBecomes
  <2>2. bulks'[p].step \in {"begin", "statement", "refused"} => bulks[p].left # <<>>
    BY DEF BulkBecomes
  <2> QED BY <1>0, <1>6, <2>1, <2>2, ProgressKept DEF BulkBecomes
<1> QED BY <1>1, <1>2, <1>5, <1>8 DEF SqlInv

(* One action of a request at a time, with what it makes of its slot.      *)
LEMMA SqlStep == SqlInv /\ [NextSqlBatches]_sqlBatchVars => SqlInv'
<1> SUFFICES ASSUME SqlInv, [NextSqlBatches]_sqlBatchVars PROVE SqlInv'
  OBVIOUS
<1>0. SqlTypes /\ PoolIsWhole /\ Ownership /\ Progress
  BY DEF SqlInv
<1> USE DEF poolVars, txVars
<1>1. CASE PlainStatement
  <2>1. /\ UNCHANGED <<txConn, txActive, tableRows, bulks, applied, threw>>
        /\ ConnectionGuard
    BY <1>1 DEF PlainStatement
  <2>2. SqlTypes'
    BY <1>0, <2>1 DEF ConnectionGuard, acquire, release, SqlTypes
  <2>3. PoolIsWhole'
    <3>0. Cardinality(InStatement') = Cardinality(InStatement) /\ Cardinality(InStatement) \in Nat
      BY <2>1, StatementsStay, FiniteStatements
    <3>1. CASE acquire /\ plain' = plain + 1
      <4>1. InUse' = InUse + 1
        BY <1>0, <2>1, <3>0, <3>1 DEF InUse, SqlTypes
      <4> QED BY <1>0, <3>1, <4>1, Acquired
    <3>2. CASE release /\ plain > 0 /\ plain' = plain - 1
      <4>1. InUse' = InUse - 1 /\ InUse \in Nat \ {0}
        BY <1>0, <2>1, <3>0, <3>2 DEF InUse, SqlTypes
      <4> QED BY <1>0, <3>2, <4>1, Released
    <3> QED BY <2>1, <3>1, <3>2 DEF ConnectionGuard
  <2>4. Ownership' /\ Progress'
    BY <1>0, <2>1 DEF Ownership, OwnsTransaction, OpenHasReason, Progress, ProgressAt
  <2> QED BY <2>2, <2>3, <2>4 DEF SqlInv
<1>2. ASSUME NEW p \in BulkSlots, NEW kind \in BulkKinds, NEW items \in BulkBodies, ReceiveBulk(p, kind, items)
      PROVE SqlInv'
  <2> DEFINE step == IF items = <<>> THEN "answered" ELSE "begin"
             status == IF items = <<>> THEN 400 ELSE 0
             b == [step |-> step, kind |-> kind, items |-> items, left |-> items, status |-> status]
  <2>1. b \in Bulk
    BY BodiesAreItems DEF Bulk, BulkSteps
  <2>2. /\ bulks[p] = Unsent /\ bulks' = [bulks EXCEPT ![p] = b]
        /\ UNCHANGED <<idleConns, countedConns, madeConns, txConn, txActive, tableRows, plain, applied, threw>>
    BY <1>2 DEF ReceiveBulk
  <2>3. bulks'[p] = b /\ \A q \in BulkSlots : q # p => bulks'[q] = bulks[q]
    BY <1>0, <2>2 DEF SqlTypes
  <2>4. SqlTypes'
    BY <1>0, <2>1, <2>2 DEF SqlTypes
  <2>5. InStatement' = InStatement
    BY <2>2, <2>3 DEF InStatement, Unsent
  <2>6. PoolIsWhole'
    BY <1>0, <2>2, <2>5 DEF PoolIsWhole, InUse
  <2>7. \A q \in BulkSlots : OwnsTransaction(q)' <=> OwnsTransaction(q)
    BY <2>2, <2>3 DEF OwnsTransaction, Unsent
  <2>8. Ownership'
    BY <1>0, <2>2, <2>7 DEF Ownership, OpenHasReason
  <2>9. Split(<<>>, items, items)
    BY <2>1 DEF Split, Bulk
  <2>10. b # Unsent
    BY <2>1 DEF Unsent, Bulk, BulkSteps
  <2>11. applied'[p] = <<>>
    BY <1>0, <2>2 DEF Progress, ProgressAt
  <2>12. ASSUME NEW q \in BulkSlots, q # p PROVE bulks'[q] = bulks[q] /\ applied'[q] = applied[q]
    BY <2>2, <2>3, <2>12
  <2>13. /\ b.left = items /\ b.items = items /\ b.step \in {"answered", "begin"}
         /\ b.step = "answered" => items = <<>> /\ b.status # 200
         /\ b.step = "begin" => items # <<>>
    OBVIOUS
  <2>14. Progress'
    <3> HIDE DEF b, step, status
    <3> QED BY <1>0, <2>3, <2>9, <2>10, <2>11, <2>12, <2>13 DEF Progress, ProgressAt
  <2> QED BY <2>4, <2>6, <2>8, <2>14 DEF SqlInv
<1>3. ASSUME NEW p \in BulkSlots, beginTransaction(p) PROVE SqlInv'
  <2>1. bulks[p].step = "begin" /\ UNCHANGED <<tableRows, plain, applied, threw>>
    BY <1>3 DEF beginTransaction
  <2>2. CASE Ends(p, 500) /\ UNCHANGED <<idleConns, countedConns, madeConns, txConn, txActive>>
    <3>1. BulkBecomes(p, "answered", bulks[p].left, 500)
      BY <1>0, <2>1, <2>2, EndsWith
    <3> QED BY <1>0, <2>1, <2>2, <3>1, RequestStays, ZenonT(40)
  <2>3. CASE ~txConn /\ acquire /\ txConn' = TRUE /\ txActive' = TRUE /\ Moves(p, "item")
    <3>1. BulkBecomes(p, "item", bulks[p].left, bulks[p].status)
      BY <1>0, <2>1, <2>3, MovesTo DEF BulkSteps
    <3>2. SqlTypes'
      BY <1>0, <2>1, <2>3, <3>1 DEF SqlTypes, BulkBecomes, acquire
    <3>3. PoolIsWhole'
      <4>0. Cardinality(InStatement') = Cardinality(InStatement) /\ Cardinality(InStatement) \in Nat
        BY <2>1, <3>1, StatementsChange
      <4>1. InUse' = InUse + 1
        BY <1>0, <2>1, <2>3, <4>0 DEF InUse, SqlTypes
      <4> QED BY <1>0, <2>3, <4>1, Acquired
    <3>4. Ownership'
      BY <1>0, <2>1, <2>3, <3>1 DEF Ownership, OwnsTransaction, OpenHasReason, BulkBecomes
    <3>5. Progress'
      BY <1>0, <2>1, <3>1, ProgressKept DEF BulkBecomes
    <3> QED BY <3>2, <3>3, <3>4, <3>5 DEF SqlInv
  <2> QED BY <1>3, <2>2, <2>3 DEF beginTransaction
<1>4. ASSUME NEW p \in BulkSlots, CheckItem(p) PROVE SqlInv'
  <2>1. /\ bulks[p].step = "item" /\ bulks[p].left # <<>>
        /\ UNCHANGED <<txConn, txActive, tableRows, plain, applied>>
    BY <1>4 DEF CheckItem
  <2>2. CASE CanAcquire /\ acquire /\ Moves(p, "statement") /\ UNCHANGED threw
    <3>1. BulkBecomes(p, "statement", bulks[p].left, bulks[p].status)
      BY <1>0, <2>1, <2>2, MovesTo DEF BulkSteps
    <3>2. SqlTypes'
      BY <1>0, <2>1, <2>2, <3>1 DEF SqlTypes, BulkBecomes, acquire
    <3>3. PoolIsWhole'
      <4>0. Cardinality(InStatement') = Cardinality(InStatement) + 1 /\ Cardinality(InStatement) \in Nat
        BY <2>1, <3>1, StatementsChange
      <4>1. InUse' = InUse + 1
        BY <1>0, <2>1, <4>0 DEF InUse, SqlTypes
      <4> QED BY <1>0, <2>2, <4>1, Acquired
    <3>4. Ownership'
      BY <1>0, <2>1, <2>2, <3>1 DEF Ownership, OwnsTransaction, OpenHasReason, BulkBecomes
    <3>5. Progress'
      BY <1>0, <2>1, <3>1, ProgressKept DEF BulkBecomes
    <3> QED BY <3>2, <3>3, <3>4, <3>5 DEF SqlInv
  <2>3. CASE Moves(p, "refused") /\ UNCHANGED <<idleConns, countedConns, madeConns, threw>>
    <3>1. BulkBecomes(p, "refused", bulks[p].left, bulks[p].status)
      BY <1>0, <2>1, <2>3, MovesTo DEF BulkSteps
    <3> QED BY <1>0, <2>1, <2>3, <3>1, RequestStays
  <2>4. CASE withExceptionHandling(p)
    <3>1. Ends(p, 500) /\ threw' = TRUE /\ UNCHANGED <<idleConns, countedConns, madeConns>>
      BY <2>4 DEF withExceptionHandling
    <3>2. BulkBecomes(p, "answered", bulks[p].left, 500)
      BY <1>0, <2>1, <3>1, EndsWith
    <3> QED BY <1>0, <2>1, <3>1, <3>2, RequestStays
  <2> QED BY <1>4, <2>2, <2>3, <2>4 DEF CheckItem
<1>5. ASSUME NEW p \in BulkSlots, ExecuteItem(p) PROVE SqlInv'
  <2>1. bulks[p].step = "statement" /\ release /\ UNCHANGED <<txConn, txActive, plain, threw>>
    BY <1>5 DEF ExecuteItem
  <2> DEFINE id == Head(bulks[p].left).id
  <2>2. CASE /\ bulks' = [bulks EXCEPT ![p].step = "item", ![p].left = Tail(@)]
             /\ applied' = [applied EXCEPT ![p] = Append(@, id)]
    <3>0. bulks[p] # Unsent /\ bulks[p] \in Bulk
      BY <1>0, <2>1 DEF Unsent, SqlTypes
    <3>1. bulks[p].left # <<>>
      BY <1>0, <2>1, <3>0 DEF Progress, ProgressAt
    <3>2. BulkBecomes(p, "item", Tail(bulks[p].left), bulks[p].status)
      BY <1>0, <2>1, <2>2, <3>1, ItemDone
    <3>3. id \in BulkIds
      <4>1. bulks[p].left \in Seq(AnyItem)
        BY <3>0 DEF Bulk
      <4>2. Head(bulks[p].left) \in AnyItem
        BY <3>1, <4>1
      <4> QED BY <4>2 DEF AnyItem
    <3>4. SqlTypes'
      BY <1>0, <2>1, <2>2, <3>2, <3>3 DEF SqlTypes, BulkBecomes, release
    <3>5. PoolIsWhole'
      <4>1. InUse' = InUse - 1 /\ InUse \in Nat \ {0}
        BY <1>0, <2>1, <3>2, StatementsChange DEF InUse, SqlTypes
      <4> QED BY <1>0, <2>1, <4>1, Released
    <3>6. Ownership'
      BY <1>0, <2>1, <3>2 DEF Ownership, OwnsTransaction, OpenHasReason, BulkBecomes
    <3>7. Split(applied'[p], Tail(bulks[p].left), bulks[p].items)
      BY <1>0, <2>2, <3>0, <3>1, <3>3, ItemMovesOver DEF Progress, ProgressAt, SqlTypes, Bulk
    <3>8. ASSUME NEW q \in BulkSlots, q # p PROVE bulks'[q] = bulks[q] /\ applied'[q] = applied[q]
      BY <1>0, <2>2, <3>2, <3>8 DEF BulkBecomes, SqlTypes
    <3>9. Progress'
      <4>1. ASSUME NEW q \in BulkSlots, q # p PROVE ProgressAt(q)'
        BY <1>0, <3>8, <4>1 DEF Progress, ProgressAt
      <4>2. bulks'[p] # Unsent /\ bulks[p].items # <<>>
        BY <1>0, <2>1, <3>0, <3>2 DEF Progress, ProgressAt, BulkBecomes, Bulk, BulkSteps, Unsent
      <4>3. ProgressAt(p)'
        BY <3>2, <3>7, <4>2 DEF ProgressAt, BulkBecomes
      <4> QED BY <4>1, <4>3 DEF Progress
    <3> QED BY <3>4, <3>5, <3>6, <3>9 DEF SqlInv
  <2>3. CASE Moves(p, "refused") /\ UNCHANGED applied
    <3>1. BulkBecomes(p, "refused", bulks[p].left, bulks[p].status)
      BY <1>0, <2>1, <2>3, MovesTo DEF BulkSteps
    <3>2. bulks[p].left # <<>>
      BY <1>0, <2>1 DEF Progress, ProgressAt, Unsent
    <3>3. SqlTypes'
      BY <1>0, <2>1, <2>3, <3>1 DEF SqlTypes, BulkBecomes, release
    <3>4. PoolIsWhole'
      <4>1. InUse' = InUse - 1 /\ InUse \in Nat \ {0}
        BY <1>0, <2>1, <3>1, StatementsChange DEF InUse, SqlTypes
      <4> QED BY <1>0, <2>1, <4>1, Released
    <3>5. Ownership'
      BY <1>0, <2>1, <3>1 DEF Ownership, OwnsTransaction, OpenHasReason, BulkBecomes
    <3>6. Progress'
      BY <1>0, <2>1, <2>3, <3>1, <3>2, ProgressKept DEF BulkBecomes
    <3> QED BY <3>3, <3>4, <3>5, <3>6 DEF SqlInv
  <2> QED BY <1>5, <2>2, <2>3 DEF ExecuteItem
<1>6. ASSUME NEW p \in BulkSlots, NEW status \in {200, 400}, bulks[p].step \in {"item", "refused"},
             txActive, EndTransaction, Ends(p, status), UNCHANGED <<tableRows, plain, applied, threw>>,
             status = 200 <=> bulks[p].left = <<>>
      PROVE  SqlInv'
  <2>1. BulkBecomes(p, "answered", bulks[p].left, status)
    BY <1>0, <1>6, EndsWith
  <2>2. txConn /\ txConn' = FALSE /\ txActive' = FALSE /\ release
    BY <1>0, <1>6 DEF EndTransaction, Ownership
  <2>3. SqlTypes'
    <3>1. txConn' \in BOOLEAN /\ txActive' \in BOOLEAN /\ threw' \in BOOLEAN
      BY <1>0, <1>6, <2>2 DEF SqlTypes
    <3> QED BY <1>0, <1>6, <2>1, <2>2, <3>1, PoolTypes DEF SqlTypes, BulkBecomes
  <2>4. PoolIsWhole'
    <3>1. InUse' = InUse - 1 /\ InUse \in Nat \ {0}
      BY <1>0, <1>6, <2>1, <2>2, StatementsChange DEF InUse, SqlTypes
    <3> QED BY <1>0, <2>2, <3>1, Released
  <2>5. Ownership'
    <3>1. OwnsTransaction(p)
      BY <1>6 DEF OwnsTransaction
    <3>2. \A q \in BulkSlots : OwnsTransaction(q)' => OwnsTransaction(q) /\ q # p
      BY <2>1 DEF OwnsTransaction, BulkBecomes
    <3>3. \A q \in BulkSlots : ~OwnsTransaction(q)'
      BY <1>0, <3>1, <3>2 DEF Ownership
    <3>4. OpenHasReason'
      BY <2>2 DEF OpenHasReason
    <3> QED BY <2>2, <3>3, <3>4 DEF Ownership
  <2>6. Progress'
    BY <1>0, <1>6, <2>1, ProgressKept DEF BulkBecomes
  <2> QED BY <2>3, <2>4, <2>5, <2>6 DEF SqlInv
<1>7. ASSUME NEW p \in BulkSlots, commitTransaction(p) PROVE SqlInv'
  BY <1>6, <1>7 DEF commitTransaction
<1>8. ASSUME NEW p \in BulkSlots, rollbackTransaction(p) PROVE SqlInv'
  <2>1. bulks[p].left # <<>>
    BY <1>0, <1>8 DEF rollbackTransaction, Progress, ProgressAt, Unsent
  <2> QED BY <1>6, <1>8, <2>1 DEF rollbackTransaction
<1>9. CASE UNCHANGED sqlBatchVars
  <2>1. UNCHANGED <<idleConns, countedConns, madeConns, txConn, txActive, tableRows, bulks, plain, applied, threw>>
    BY <1>9 DEF sqlBatchVars
  <2>2. InUse' = InUse
    BY <2>1 DEF InUse, InStatement
  <2>3. SqlTypes' /\ PoolIsWhole'
    BY <1>0, <2>1, <2>2 DEF SqlTypes, PoolIsWhole
  <2>4. Ownership'
    BY <1>0, <2>1 DEF Ownership, OwnsTransaction, OpenHasReason
  <2>5. Progress'
    BY <1>0, <2>1 DEF Progress, ProgressAt
  <2> QED BY <2>3, <2>4, <2>5 DEF SqlInv
<1> QED BY <1>1, <1>2, <1>3, <1>4, <1>5, <1>7, <1>8, <1>9 DEF NextSqlBatches

(* A refused item that was executed all the same is the last thing its     *)
(* request did.                                                            *)
HalfTold == \A p \in BulkSlots : p \in halfDone =>
    \/ bulks[p].step = "refused"
    \/ bulks[p].step = "answered" /\ bulks[p].status = 400

LEMMA HalfStep == SqlInv /\ HalfTold /\ [NextSqlBatches]_sqlBatchVars => HalfTold'
<1> SUFFICES ASSUME SqlInv, HalfTold, [NextSqlBatches]_sqlBatchVars PROVE HalfTold'
  OBVIOUS
<1>0. SqlTypes
  BY DEF SqlInv
<1>1. ASSUME UNCHANGED <<bulks, halfDone>> PROVE HalfTold'
  BY <1>1 DEF HalfTold
<1>2. ASSUME NEW p \in BulkSlots, bulks[p].step \notin {"refused", "answered"},
             \A q \in BulkSlots : q # p => bulks'[q] = bulks[q], UNCHANGED halfDone
      PROVE  HalfTold'
  BY <1>2 DEF HalfTold
<1>3. ASSUME NEW p \in BulkSlots, NEW step \in BulkSteps, Moves(p, step), bulks[p].step # "unsent"
      PROVE  /\ \A q \in BulkSlots : q # p => bulks'[q] = bulks[q]
             /\ bulks'[p].step = step
  BY <1>0, <1>3, MovesTo DEF BulkBecomes
<1>4. ASSUME NEW p \in BulkSlots, NEW status \in {200, 400, 500}, Ends(p, status), bulks[p].step # "unsent"
      PROVE  /\ \A q \in BulkSlots : q # p => bulks'[q] = bulks[q]
             /\ bulks'[p].step = "answered" /\ bulks'[p].status = status
  BY <1>0, <1>4, EndsWith DEF BulkBecomes
<1>5. CASE PlainStatement
  BY <1>1, <1>5 DEF PlainStatement
<1>6. ASSUME NEW p \in BulkSlots, NEW kind \in BulkKinds, NEW items \in BulkBodies, ReceiveBulk(p, kind, items)
      PROVE  HalfTold'
  <2>1. bulks[p].step = "unsent" /\ UNCHANGED halfDone
    BY <1>6 DEF ReceiveBulk, Unsent
  <2>2. \A q \in BulkSlots : q # p => bulks'[q] = bulks[q]
    BY <1>0, <1>6 DEF ReceiveBulk, SqlTypes
  <2> QED BY <1>2, <2>1, <2>2
<1>7. ASSUME NEW p \in BulkSlots, beginTransaction(p) PROVE HalfTold'
  <2>1. bulks[p].step = "begin" /\ UNCHANGED halfDone /\ (Ends(p, 500) \/ Moves(p, "item"))
    BY <1>7 DEF beginTransaction
  <2>2. \A q \in BulkSlots : q # p => bulks'[q] = bulks[q]
    BY <1>3, <1>4, <2>1 DEF BulkSteps
  <2> QED BY <1>2, <2>1, <2>2
<1>8. ASSUME NEW p \in BulkSlots, CheckItem(p) PROVE HalfTold'
  <2>1. /\ bulks[p].step = "item" /\ UNCHANGED halfDone
        /\ Ends(p, 500) \/ Moves(p, "statement") \/ Moves(p, "refused")
    BY <1>8 DEF CheckItem, withExceptionHandling
  <2>2. \A q \in BulkSlots : q # p => bulks'[q] = bulks[q]
    BY <1>3, <1>4, <2>1 DEF BulkSteps
  <2> QED BY <1>2, <2>1, <2>2
<1>9. ASSUME NEW p \in BulkSlots, ExecuteItem(p) PROVE HalfTold'
  <2>1. bulks[p].step = "statement"
    BY <1>9 DEF ExecuteItem
  <2>2. CASE bulks' = [bulks EXCEPT ![p].step = "item", ![p].left = Tail(@)] /\ UNCHANGED halfDone
    <3>1. \A q \in BulkSlots : q # p => bulks'[q] = bulks[q]
      BY <1>0, <2>2 DEF SqlTypes
    <3> QED BY <1>2, <2>1, <2>2, <3>1
  <2>3. CASE Moves(p, "refused") /\ halfDone' \in {halfDone, halfDone \cup {p}}
    <3>1. bulks'[p].step = "refused" /\ \A q \in BulkSlots : q # p => bulks'[q] = bulks[q]
      BY <1>3, <2>1, <2>3 DEF BulkSteps
    <3> QED BY <2>3, <3>1 DEF HalfTold
  <2> QED BY <1>9, <2>2, <2>3 DEF ExecuteItem
<1>10. ASSUME NEW p \in BulkSlots, commitTransaction(p) PROVE HalfTold'
  <2>1. bulks[p].step = "item" /\ UNCHANGED halfDone /\ Ends(p, 200)
    BY <1>10 DEF commitTransaction
  <2> QED BY <1>2, <1>4, <2>1
<1>11. ASSUME NEW p \in BulkSlots, rollbackTransaction(p) PROVE HalfTold'
  <2>1. bulks[p].step = "refused" /\ UNCHANGED halfDone /\ Ends(p, 400)
    BY <1>11 DEF rollbackTransaction
  <2>2. /\ \A q \in BulkSlots : q # p => bulks'[q] = bulks[q]
        /\ bulks'[p].step = "answered" /\ bulks'[p].status = 400
    BY <1>4, <2>1
  <2> QED BY <2>1, <2>2 DEF HalfTold
<1>12. CASE UNCHANGED sqlBatchVars
  BY <1>1, <1>12 DEF sqlBatchVars
<1> QED BY <1>5, <1>6, <1>7, <1>8, <1>9, <1>10, <1>11, <1>12 DEF NextSqlBatches

(* What a slot has applied, as the ids of its items.                       *)
LEMMA ProgressTells == SqlTypes /\ Progress /\ HalfTold => AppliedAsTold
<1> SUFFICES ASSUME SqlTypes, Progress, HalfTold, NEW p \in BulkSlots, bulks[p].step = "answered",
                    NEW ids, ids = [k \in DOMAIN bulks[p].items |-> bulks[p].items[k].id]
             PROVE  /\ IsPrefix(applied[p], ids)
                    /\ (bulks[p].status = 200) <=> (bulks[p].items # <<>> /\ applied[p] = ids)
                    /\ p \in halfDone => bulks[p].status = 400
  BY DEF AppliedAsTold
<1> DEFINE items == bulks[p].items
           left == bulks[p].left
<1>1. bulks[p] # Unsent /\ bulks[p] \in Bulk
  BY DEF Unsent, SqlTypes
<1>2. items \in Seq(AnyItem) /\ left \in Seq(AnyItem) /\ applied[p] \in Seq(BulkIds)
  BY <1>1 DEF Bulk, SqlTypes
<1>3. Split(applied[p], left, items) /\ (bulks[p].status = 200 <=> items # <<>> /\ left = <<>>)
  BY <1>1 DEF Progress, ProgressAt
<1> HIDE DEF items, left
<1>4. ids \in Seq(BulkIds) /\ Len(ids) = Len(items) /\ \A k \in 1..Len(items) : ids[k] = items[k].id
  <2>1. ids = [k \in 1..Len(items) |-> items[k].id]
    BY <1>2 DEF items
  <2>2. ASSUME NEW k \in 1..Len(items) PROVE items[k].id \in BulkIds
    <3>1. items[k] \in AnyItem
      BY <1>2
    <3> QED BY <3>1 DEF AnyItem
  <2>3. Len(items) \in Nat
    BY <1>2
  <2> QED BY <2>1, <2>2, <2>3
<1>5. Len(applied[p]) <= Len(ids) /\ \A k \in 1..Len(applied[p]) : applied[p][k] = ids[k]
  <2>1. /\ Len(applied[p]) + Len(left) = Len(items)
        /\ \A k \in 1..Len(applied[p]) : applied[p][k] = items[k].id
    BY <1>3 DEF Split
  <2>2. Len(applied[p]) \in Nat /\ Len(left) \in Nat /\ Len(applied[p]) <= Len(items)
    BY <1>2, <2>1
  <2>3. ASSUME NEW k \in 1..Len(applied[p]) PROVE applied[p][k] = ids[k]
    <3>1. k \in 1..Len(items)
      BY <1>2, <2>2
    <3> QED BY <1>4, <2>1, <3>1
  <2> QED BY <1>4, <2>2, <2>3
<1>6. IsPrefix(applied[p], ids)
  <2>1. SubSeq(applied[p], 1, Len(applied[p])) = SubSeq(ids, 1, Len(applied[p]))
    <3> DEFINE done == applied[p]
    <3>1. done \in Seq(BulkIds) /\ Len(done) \in Nat /\ Len(ids) \in Nat
      BY <1>2, <1>4
    <3>2. \A k \in 1..Len(done) : done[k] = ids[k]
      BY <1>5
    <3>3. Len(done) <= Len(ids)
      BY <1>5
    <3> HIDE DEF done
    <3>4. SubSeq(done, 1, Len(done)) = [k \in 1..Len(done) |-> done[k]]
      BY <3>1
    <3>5. SubSeq(ids, 1, Len(done)) = [k \in 1..Len(done) |-> ids[k]]
      BY <1>4, <3>1, <3>3
    <3> QED BY <3>2, <3>4, <3>5 DEF done
  <2> QED BY <1>5, <2>1 DEF IsPrefix
<1>7. applied[p] = ids <=> left = <<>>
  <2>1. Len(left) = 0 <=> left = <<>>
    BY <1>2
  <2>2. ASSUME applied[p] = ids PROVE Len(left) = 0
    BY <1>2, <1>3, <1>4, <2>2 DEF Split
  <2>3. ASSUME Len(left) = 0 PROVE applied[p] = ids
    <3>1. Len(applied[p]) = Len(ids)
      BY <1>2, <1>3, <1>4, <2>3 DEF Split
    <3>2. applied[p] = [k \in 1..Len(applied[p]) |-> applied[p][k]] /\ ids = [k \in 1..Len(ids) |-> ids[k]]
      BY <1>2, <1>4
    <3>3. \A k \in 1..Len(ids) : applied[p][k] = ids[k]
      BY <1>5, <3>1
    <3> QED BY <3>1, <3>2, <3>3
  <2> QED BY <2>1, <2>2, <2>3
<1>8. bulks[p].status = 200 <=> items # <<>> /\ applied[p] = ids
  BY <1>3, <1>7
<1>9. p \in halfDone => bulks[p].status = 400
  BY DEF HalfTold
<1> QED BY <1>6, <1>8, <1>9 DEF items

LEMMA SqlInvTells == SqlInv /\ HalfTold => BulkAsTold
<1> SUFFICES ASSUME SqlInv, HalfTold PROVE BulkAsTold
  OBVIOUS
<1>0. SqlTypes /\ PoolIsWhole /\ Ownership /\ Progress
  BY DEF SqlInv
<1>1. idleConns \in Nat /\ countedConns \in Nat /\ InUse \in Nat
  BY <1>0, InUseIsNat DEF SqlTypes
<1>2. madeConns = idleConns + InUse /\ madeConns = InitialConns + countedConns /\ countedConns <= MaxConns
  BY <1>0 DEF PoolIsWhole
<1>3. idleConns \in 0..madeConns /\ countedConns \in 0..MaxConns
  BY <1>1, <1>2, SqlBatchAssumption
<1>4. TypeOKSqlBatches
  BY <1>0, <1>3 DEF TypeOKSqlBatches, Ownership
<1>5. madeConns <= MaxConns + InitialConns
  BY <1>1, <1>2, SqlBatchAssumption, InitialConnsIsNat
<1>6. ConnectionsAccounted
  <2>1. madeConns = idleConns + Cardinality(InStatement) + plain + (IF txConn THEN 1 ELSE 0)
    BY <1>0, <1>1, <1>2, FiniteStatements DEF InUse, SqlTypes
  <2> QED BY <1>5, <2>1 DEF ConnectionsAccounted, InStatement
<1>7. AppliedAsTold /\ OpenHasReason
  BY <1>0, ProgressTells DEF Ownership
<1> QED BY <1>4, <1>6, <1>7 DEF BulkAsTold

(* Any number of bulk requests over a pool of any size: no connection is   *)
(* lost or made twice, a 200 says what was changed and any other answer    *)
(* leaves open only whether the item it stopped at was, and a transaction  *)
(* that stays open belongs to a request or was left by an exception.       *)
THEOREM BulkRequestsTellTheTruth == SpecSqlBatches => []BulkAsTold
<1>1. InitSqlBatches => HalfTold
  BY DEF InitSqlBatches, HalfTold
<1> QED BY <1>1, SqlInit, SqlStep, HalfStep, SqlInvTells, PTL DEF SpecSqlBatches

(***************************************************************************)
(* AccessGate                                                              *)
(***************************************************************************)
GateMethods == {"GET", "POST", "OPTIONS", "PUT", "DELETE"}
GateRequest ==
    [method : GateMethods, id : BOOLEAN, action : BOOLEAN, tenantAuth : {"absent", "open"},
     entityAuth : {"absent", "auth"}, registry : BOOLEAN, decl : Declarations,
     caller : {Anonymous, Operator} \cup Tokens, tenant : Tenants, privileged : BOOLEAN,
     secret : BOOLEAN, key : BOOLEAN, adminToken : BOOLEAN, limited : BOOLEAN, client : BOOLEAN]

(* What is answered is what the stages make of the request.                *)
GateInv == greq \in GateRequest /\ gans \in {Unanswered, AnswerTo(greq)}

LEMMA GateInit == InitGate => GateInv
<1> SUFFICES ASSUME InitGate PROVE greq \in GateRequest
  BY DEF InitGate, GateInv
<1>1. PICK route \in Routes, auth \in AuthConfigs, rules \in Rules :
          greq \in [method : {route[1]}, id : {route[2][1]}, action : {route[2][2]},
                    tenantAuth : {auth[1]}, entityAuth : {auth[2]}, registry : {rules[1]}, decl : {rules[2]},
                    caller : {Anonymous, Operator} \cup Tokens, tenant : Tenants, privileged : BOOLEAN,
                    secret : BOOLEAN, key : BOOLEAN, adminToken : BOOLEAN, limited : BOOLEAN, client : BOOLEAN]
  BY DEF InitGate
<1>2. route[1] \in GateMethods /\ route[2][1] \in BOOLEAN /\ route[2][2] \in BOOLEAN
  <2>1. route[1] \in GateMethods /\ route[2] \in {<<FALSE, FALSE>>, <<TRUE, FALSE>>, <<TRUE, TRUE>>}
    <3> DEFINE ids == {<<FALSE, FALSE>>, <<TRUE, FALSE>>, <<TRUE, TRUE>>}
    <3>1. <<TRUE, FALSE>> \in ids
      OBVIOUS
    <3>2. route \in ({"GET", "POST", "OPTIONS"} \X ids) \cup ({"PUT", "DELETE"} \X {<<TRUE, FALSE>>})
      BY DEF Routes
    <3> HIDE DEF ids
    <3>3. route[1] \in GateMethods /\ route[2] \in ids
      BY <3>1, <3>2 DEF GateMethods
    <3> QED BY <3>3 DEF ids
  <2>2. route[2] = <<FALSE, FALSE>> => route[2][1] \in BOOLEAN /\ route[2][2] \in BOOLEAN
    OBVIOUS
  <2>3. route[2] = <<TRUE, FALSE>> => route[2][1] \in BOOLEAN /\ route[2][2] \in BOOLEAN
    OBVIOUS
  <2>4. route[2] = <<TRUE, TRUE>> => route[2][1] \in BOOLEAN /\ route[2][2] \in BOOLEAN
    OBVIOUS
  <2> QED BY <2>1, <2>2, <2>3, <2>4
<1>3. auth[1] \in {"absent", "open"} /\ auth[2] \in {"absent", "auth"}
  BY DEF AuthConfigs
<1>4. rules[1] \in BOOLEAN /\ rules[2] \in Declarations
  <2>1. Undeclared \in Declarations
    BY DEF Declarations
  <2>2. CASE rules = <<FALSE, Undeclared>>
    BY <2>1, <2>2
  <2>3. CASE rules \in {TRUE} \X Declarations
    BY <2>3
  <2> QED BY <2>2, <2>3 DEF Rules
<1> DEFINE m == route[1] i == route[2][1] a == route[2][2] ta == auth[1] ea == auth[2] g == rules[1] d == rules[2]
<1>5. greq \in [method : {m}, id : {i}, action : {a},
                    tenantAuth : {ta}, entityAuth : {ea}, registry : {g}, decl : {d},
                    caller : {Anonymous, Operator} \cup Tokens, tenant : Tenants, privileged : BOOLEAN,
                    secret : BOOLEAN, key : BOOLEAN, adminToken : BOOLEAN, limited : BOOLEAN, client : BOOLEAN]
  BY <1>1
<1>6. m \in GateMethods /\ i \in BOOLEAN /\ a \in BOOLEAN /\ ta \in {"absent", "open"} /\ ea \in {"absent", "auth"}
      /\ g \in BOOLEAN /\ d \in Declarations
  BY <1>2, <1>3, <1>4
<1> HIDE DEF m, i, a, ta, ea, g, d
<1> QED BY <1>5, <1>6 DEF GateRequest

LEMMA GateStep == GateInv /\ [NextGate]_gateVars => GateInv'
  BY DEF GateInv, NextGate, EntityRoute, EntityIdRoute, EntityActionRoute, Answered, gateVars

(* The stages answer with their statuses, and the first that does not pass *)
(* answers.                                                                *)
LEMMA StagesAnswer ==
  ASSUME NEW r
  PROVE  /\ Rejection(r) \in {Pass, 204, 401, 403, 429, 503}
         /\ Rejection(r) = Pass <=> /\ Preliminaries(r) = Pass /\ write_authz_rejection(r) = Pass
                                    /\ read_authz_rejection(r) = Pass /\ require_auth(r) = Pass
<1>1. Preliminaries(r) \in {Pass, 204, 403, 429, 503}
  BY DEF Preliminaries, Pass
<1>2. write_authz_rejection(r) \in {Pass, 401, 403}
  BY DEF write_authz_rejection, Pass
<1>3. read_authz_rejection(r) \in {Pass, 401, 403}
  BY DEF read_authz_rejection, Pass
<1>4. require_auth(r) \in {Pass, 401, 403, 503}
  BY DEF require_auth, Pass
<1> QED BY <1>1, <1>2, <1>3, <1>4 DEF Rejection, Pass

LEMMA AnswerStatus ==
  ASSUME NEW r
  PROVE  /\ AnswerTo(r).status \in {Pass, 204, 400, 401, 403, 404, 429, 503}
         /\ AnswerTo(r).status = Pass => Rejection(r) = Pass
         /\ Rejection(r) = Pass => AnswerTo(r).status \in {Pass, 400, 404}
  BY StagesAnswer DEF AnswerTo, Pass

(* A caller without a token passes every stage only where no stage asks    *)
(* for one, so nobody is refused there.                                    *)
LEMMA StrangersPassLast ==
  ASSUME NEW r \in GateRequest, Rejection(Stranger(r)) = Pass
  PROVE  Rejection(r) = Pass
<1> DEFINE s == Stranger(r)
<1>1. /\ s.method = r.method /\ s.registry = r.registry /\ s.decl = r.decl /\ s.privileged = r.privileged
      /\ s.tenantAuth = r.tenantAuth /\ s.entityAuth = r.entityAuth /\ s.limited = r.limited /\ s.client = r.client
      /\ s.tenant = r.tenant /\ s.secret = r.secret /\ s.key = r.key /\ s.adminToken = r.adminToken
      /\ s.caller = Anonymous
  BY DEF Stranger, GateRequest
<1> HIDE DEF s
<1>2. ~fromRequest(s).valid /\ ~IsOperator(s)
  BY <1>1 DEF fromRequest, IsOperator, Anonymous, Operator, NoClaims
<1>3. /\ isSystemOnly(s) = isSystemOnly(r) /\ isPublicWrite(s) = isPublicWrite(r)
      /\ requiresAuthToRead(s) = requiresAuthToRead(r) /\ getEntityConfig(s) = getEntityConfig(r)
  BY <1>1 DEF isSystemOnly, isPublicWrite, requiresAuthToRead, getEntityConfig, parseACLOperation
<1>4. /\ Preliminaries(s) = Pass /\ write_authz_rejection(s) = Pass
      /\ read_authz_rejection(s) = Pass /\ require_auth(s) = Pass
  BY StagesAnswer DEF s
<1>5. Preliminaries(r) = Pass
  BY <1>1, <1>3, <1>4 DEF Preliminaries
<1>6. write_authz_rejection(r) = Pass
  <2>1. r.registry /\ r.method \in WriteMethods => isPublicWrite(r) /\ ~r.privileged
    BY <1>1, <1>2, <1>3, <1>4 DEF write_authz_rejection, Pass
  <2>2. CASE ~(r.registry /\ r.method \in WriteMethods)
    BY <2>2 DEF write_authz_rejection
  <2>3. CASE r.registry /\ r.method \in WriteMethods
    BY <2>1, <2>3 DEF write_authz_rejection
  <2> QED BY <2>2, <2>3
<1>7. read_authz_rejection(r) = Pass
  <2>1. ~r.registry \/ r.method \notin ReadMethods \/ ~requiresAuthToRead(r)
    BY <1>1, <1>2, <1>3, <1>4 DEF read_authz_rejection, Pass
  <2> QED BY <2>1 DEF read_authz_rejection
<1>8. require_auth(r) = Pass
  <2>1. getEntityConfig(r) # "auth"
    BY <1>1, <1>2, <1>3, <1>4 DEF require_auth, Pass
  <2> QED BY <2>1 DEF require_auth
<1> QED BY <1>5, <1>6, <1>7, <1>8, StagesAnswer

LEMMA GateTells == GateInv => GateFollowsTheRules
<1> SUFFICES ASSUME GateInv, gans # Unanswered PROVE GateFollowsTheRules
  BY DEF GateFollowsTheRules, TypeOKGate, WritesFollowTheRules, ReadsFollowTheRules, SigningInNeverHurts,
         FailsClosed, Reached
<1>1. greq \in GateRequest /\ gans = AnswerTo(greq)
  BY DEF GateInv
<1>2. TypeOKGate
  BY <1>1, AnswerStatus DEF TypeOKGate
<1>3. Reached => /\ write_authz_rejection(greq) = Pass /\ read_authz_rejection(greq) = Pass
                 /\ require_auth(greq) = Pass
  BY <1>1, AnswerStatus, StagesAnswer DEF Reached
<1>4. WritesFollowTheRules
  BY <1>3 DEF WritesFollowTheRules, write_authz_rejection, SignedIn, Pass
<1>5. ReadsFollowTheRules
  BY <1>3 DEF ReadsFollowTheRules, read_authz_rejection, ReadMethods, SignedIn, Pass
<1>6. SigningInNeverHurts
  BY <1>1, StrangersPassLast, AnswerStatus DEF SigningInNeverHurts
<1>7. FailsClosed
  BY <1>3 DEF FailsClosed, require_auth, Pass
<1> QED BY <1>2, <1>4, <1>5, <1>6, <1>7 DEF GateFollowsTheRules

(* Whatever tenants and roles there are: the early returns, in their order,*)
(* admit exactly what the declared rules put together admit.               *)
THEOREM EarlyReturnsFollowTheRules == SpecGate => []GateFollowsTheRules
  BY GateInit, GateStep, GateTells, PTL DEF SpecGate

(***************************************************************************)
(* Throttles                                                               *)
(***************************************************************************)
EntryTypes ==
    /\ entries \in [TKeys -> [count : 0..MaxRequests, start : Times \cup {Never}]]
    /\ windowLog \in [TKeys -> [Times -> Nat]]

BucketTypes ==
    /\ buckets \in [TKeys -> [tokens : 0..MaxTokens * Unit, last : Times \cup {Never}]]
    /\ bucketLog \in [TKeys -> [Times -> Nat]]

NonceTypes ==
    /\ nonces \in [Nonces -> Times \cup {Never}]
    /\ lastCleanup \in 0..now \cup {Never}
    /\ nonceLog \in [Nonces -> SUBSET Times]

(* Nothing is admitted in the future.                                      *)
UntilNow(log) == \A t \in Times : t >= now => log[t] = log[now]

(* A window that started at s follows others at least WindowTicks apart:   *)
(* what was admitted since a is its count and one full window for each     *)
(* that fits between a and s.                                              *)
WindowAt(k) ==
    LET e == entries[k]
        since(a) == Admitted(windowLog[k], a, now)
    IN
    /\ UntilNow(windowLog[k])
    /\ e.start = Never => \A a \in 0..now : since(a) = 0
    /\ e.start # Never =>
          /\ e.start <= now
          /\ \A a \in 0..now :
                since(a) <= e.count + (IF a > e.start THEN 0 ELSE MaxRequests * (1 + (e.start - a) \div WindowTicks))
Windows == EntryTypes /\ \A k \in TKeys : WindowAt(k)
WindowInv == Windows /\ WindowBurst

(* What was admitted since a and what is left in the bucket came out of a  *)
(* full bucket and what flowed in.                                         *)
BucketAt(k) ==
    LET b == buckets[k]
        since(a) == Admitted(bucketLog[k], a, now)
    IN
    /\ UntilNow(bucketLog[k])
    /\ b.last = Never => b = NoBucket /\ \A a \in 0..now : since(a) = 0
    /\ b.last # Never =>
          /\ b.last <= now
          /\ \A a \in 0..now :
                IF a > b.last THEN since(a) = 0
                ELSE since(a) * Unit + b.tokens <= MaxTokens * Unit + (b.last - a) * Rate
Buckets == BucketTypes /\ \A k \in TKeys : BucketAt(k)
BucketInv == Buckets /\ BucketBurst

(* The store knows the latest time a nonce was accepted until Expiry has   *)
(* passed, and a cleanup leaves none that was older than that.             *)
NonceAt(n) ==
    /\ \A t \in nonceLog[n] :
          t <= now /\ IF nonces[n] = Never THEN t + Expiry < now ELSE t <= nonces[n]
    /\ nonces[n] # Never =>
          nonces[n] <= now /\ lastCleanup # Never /\ nonces[n] + Expiry >= lastCleanup
NonceInv == NonceTypes /\ (\A n \in Nonces : NonceAt(n)) /\ NoReplayWithinExpiry

ThrottleInv == now \in Times /\ WindowInv /\ BucketInv /\ NonceInv

LEMMA DivGrows ==
  ASSUME NEW w \in Nat \ {0}, NEW x \in Nat, NEW y \in Nat, NEW d \in Nat, y >= x + d * w
  PROVE  x \div w \in Nat /\ y \div w \in Nat /\ y \div w >= x \div w + d
<1>1. x \div w \in Nat /\ y \div w \in Nat /\ x >= w * (x \div w) /\ y < w * (y \div w) + w
  OBVIOUS
<1>2. y \div w + 1 > x \div w + d
  <2> DEFINE q == x \div w
             r == y \div w
  <2>1. q \in Nat /\ r \in Nat /\ w * (q + d) < w * (r + 1)
    BY <1>1
  <2> HIDE DEF q, r
  <2> SUFFICES ASSUME r + 1 <= q + d PROVE FALSE
    BY <2>1
  <2>2. w * (r + 1) <= w * (q + d)
    BY <2>1
  <2> QED BY <2>1, <2>2
<1> QED BY <1>1, <1>2

LEMMA MoreWindows ==
  ASSUME NEW n \in Nat, NEW p \in Nat, NEW q \in Nat, NEW d \in {0, 1}, q >= p + d
  PROVE  n * (1 + q) >= n * (1 + p) + n * d
<1> DEFINE e == q - p - d
<1>1. e \in Nat /\ q = p + d + e
  OBVIOUS
<1>2. n * e \in Nat
  BY <1>1
<1> HIDE DEF e
<1>3. n * (1 + q) = n * (1 + p) + n * d + n * e
  BY <1>1
<1> QED BY <1>2, <1>3

LEMMA ClockTypes == now \in Times => now \in Nat /\ now <= MaxTime /\ MaxTime \in Nat /\ Never \notin Times
  BY ThrottleAssumption DEF Times, Never

LEMMA LogStays ==
  ASSUME NEW log \in [Times -> Nat], now \in Times, UntilNow(log), Tick
  PROVE  /\ now' \in Times /\ now' = now + 1
         /\ \A t \in Times : t >= now' => log[t] = log[now']
         /\ \A a \in 0..now : Admitted(log, a, now') = Admitted(log, a, now)
         /\ Admitted(log, now', now') = 0
<1>1. now \in Nat /\ now' = now + 1 /\ now' \in Times
  BY ThrottleAssumption DEF Tick, Times
<1>2. \A t \in Times : t >= now => log[t] = log[now]
  BY DEF UntilNow
<1>3. log[now'] = log[now] /\ log[now] \in Nat
  BY <1>1, <1>2
<1> QED BY <1>1, <1>2, <1>3 DEF Admitted

LEMMA LogGrows ==
  ASSUME NEW log \in [Times -> Nat], now \in Times, UntilNow(log)
  PROVE  /\ Logged(log) \in [Times -> Nat]
         /\ UntilNow(Logged(log))
         /\ \A a \in 0..now : Admitted(Logged(log), a, now) = Admitted(log, a, now) + 1
         /\ \A s \in Spans : s[2] < now => Admitted(Logged(log), s[1], s[2]) = Admitted(log, s[1], s[2])
<1>1. now \in Nat /\ now <= MaxTime /\ MaxTime \in Nat
  BY ClockTypes
<1>2. Logged(log) \in [Times -> Nat]
  BY DEF Logged
<1>3. \A t \in Times : Logged(log)[t] = IF t >= now THEN log[t] + 1 ELSE log[t]
  BY DEF Logged
<1>4. UntilNow(Logged(log))
  BY <1>1, <1>3 DEF UntilNow
<1>5. \A t \in 0..now : t \in Times /\ log[t] \in Nat /\ t - 1 < now
  BY <1>1 DEF Times
<1>6. \A t \in 0..now : t # 0 => t - 1 \in 0..now
  BY <1>1
<1>7. \A a \in 0..now : Admitted(Logged(log), a, now) = Admitted(log, a, now) + 1
  BY <1>1, <1>3, <1>5, <1>6 DEF Admitted
<1>8. \A a, b \in 0..now : a <= b /\ b < now => Admitted(Logged(log), a, b) = Admitted(log, a, b)
  BY <1>1, <1>3, <1>5, <1>6 DEF Admitted
<1> QED BY <1>2, <1>4, <1>7, <1>8 DEF Spans

LEMMA AdmittedIsInt ==
  ASSUME NEW log \in [Times -> Nat], NEW b \in Times, NEW a \in 0..b
  PROVE  Admitted(log, a, b) \in Int
<1>1. a \in Times /\ (a # 0 => a - 1 \in Times)
  BY ThrottleAssumption DEF Times
<1> QED BY <1>1 DEF Admitted

(* Spans of the past stay as they were; those that end now are the ones    *)
(* that an admission, or the clock, adds to.                               *)
LEMMA WindowTells ==
  ASSUME now \in Times, NEW k \in TKeys, EntryTypes, WindowAt(k), NEW a \in 0..now
  PROVE  Admitted(windowLog[k], a, now) <= MaxRequests * (2 + (now - a) \div WindowTicks)
<1> DEFINE e == entries[k]
           since == Admitted(windowLog[k], a, now)
           n == MaxRequests
<1>1. /\ e.count \in Nat /\ e.count <= n /\ n \in Nat
      /\ e.start \in Times \cup {Never} /\ WindowTicks \in Nat \ {0}
  BY ThrottleAssumption DEF EntryTypes
<1>2. since \in Int
  BY AdmittedIsInt DEF EntryTypes
<1>3. now \in Nat /\ Times \subseteq Nat
  BY ClockTypes DEF Times
<1>4. (now - a) \div WindowTicks \in Nat /\ 0 <= n * (2 + (now - a) \div WindowTicks)
  <2>1. (now - a) \div WindowTicks \in Nat
    BY <1>1, <1>3, DivGrows
  <2> QED BY <2>1, <1>1, MoreWindows
<1>5. n <= n * (2 + (now - a) \div WindowTicks)
  <2>1. n * (1 + ((now - a) \div WindowTicks + 1)) >= n * (1 + 0) + n * 1
    BY <1>1, <1>4, MoreWindows
  <2> QED BY <2>1, <1>1, <1>4
<1>6. CASE e.start = Never
  BY <1>4, <1>6 DEF WindowAt
<1>7. CASE e.start # Never
  <2>1. /\ e.start <= now /\ e.start \in Nat
        /\ since <= e.count + (IF a > e.start THEN 0 ELSE n * (1 + (e.start - a) \div WindowTicks))
    BY <1>1, <1>3, <1>7 DEF WindowAt
  <2>2. CASE a > e.start
    BY <2>1, <2>2, <1>1, <1>2, <1>4, <1>5
  <2>3. CASE a <= e.start
    <3>1. /\ (e.start - a) \div WindowTicks \in Nat
          /\ (now - a) \div WindowTicks >= (e.start - a) \div WindowTicks + 0
      <4>1. e.start - a \in Nat /\ now - a \in Nat /\ now - a >= e.start - a + 0 * WindowTicks
        BY <2>1, <2>3, <1>1, <1>3
      <4> HIDE DEF e
      <4> QED BY <4>1, <1>1, DivGrows
    <3>2. n * (1 + ((now - a) \div WindowTicks + 1)) >= n * (1 + (e.start - a) \div WindowTicks) + n * 1
      BY <3>1, <1>1, <1>4, MoreWindows
    <3> QED BY <2>1, <2>3, <3>1, <3>2, <1>1, <1>2, <1>4
  <2> QED BY <2>1, <2>2, <2>3, <1>3
<1> QED BY <1>6, <1>7

PastWindows ==
    \A k \in TKeys, s \in Spans : s[2] < now =>
        Admitted(windowLog[k], s[1], s[2]) <= MaxRequests * (2 + (s[2] - s[1]) \div WindowTicks)

LEMMA WindowBurstNow == now \in Times /\ Windows /\ PastWindows => WindowBurst
<1> SUFFICES ASSUME now \in Times, Windows, PastWindows, NEW k \in TKeys, NEW s \in Spans
             PROVE  Admitted(windowLog[k], s[1], s[2]) <= MaxRequests * (2 + (s[2] - s[1]) \div WindowTicks)
  BY DEF WindowBurst
<1>1. now \in Nat /\ s[1] \in 0..now /\ s[2] \in 0..now
  BY ClockTypes DEF Spans
<1>2. CASE s[2] < now
  BY <1>2 DEF PastWindows
<1>3. CASE s[2] = now
  BY <1>1, <1>3, WindowTells DEF Windows
<1> QED BY <1>1, <1>2, <1>3

LEMMA WindowTick == now \in Times /\ WindowInv /\ Tick => WindowInv'
<1> SUFFICES ASSUME now \in Times, WindowInv, Tick PROVE WindowInv'
  OBVIOUS
<1>1. EntryTypes /\ EntryTypes' /\ UNCHANGED <<entries, windowLog>>
  BY DEF WindowInv, Windows, EntryTypes, Tick
<1>2. now \in Nat /\ now' = now + 1 /\ now' \in Times
  BY ThrottleAssumption DEF Tick, Times
<1>3. ASSUME NEW k \in TKeys PROVE WindowAt(k)'
  <2> DEFINE e == entries[k]
             log == windowLog[k]
             bound(a) == e.count + (IF a > e.start THEN 0 ELSE MaxRequests * (1 + (e.start - a) \div WindowTicks))
  <2>1. /\ UntilNow(log) /\ log \in [Times -> Nat]
        /\ e.start = Never => \A a \in 0..now : Admitted(log, a, now) = 0
        /\ e.start # Never => e.start <= now /\ \A a \in 0..now : Admitted(log, a, now) <= bound(a)
    BY <1>1 DEF WindowInv, Windows, WindowAt, EntryTypes
  <2>2. /\ \A t \in Times : t >= now' => log[t] = log[now']
        /\ \A a \in 0..now : Admitted(log, a, now') = Admitted(log, a, now)
        /\ Admitted(log, now', now') = 0
    BY <2>1, LogStays
  <2>3. \A a \in 0..now' : a \in 0..now \/ a = now'
    BY <1>2
  <2>4. e.start # Never => bound(now') = e.count /\ e.count \in Nat /\ e.start <= now'
    <3>1. e.count \in Nat /\ e.start \in Times \cup {Never} /\ (e.start # Never => e.start \in Nat)
      BY <1>1, ThrottleAssumption DEF EntryTypes, Times
    <3> HIDE DEF e
    <3> QED BY <3>1, <2>1, <1>2
  <2>5. e.start = Never => \A a \in 0..now' : Admitted(log, a, now') = 0
    BY <2>1, <2>2, <2>3
  <2>6. e.start # Never => \A a \in 0..now' : Admitted(log, a, now') <= bound(a)
    <3> SUFFICES ASSUME e.start # Never, NEW a \in 0..now' PROVE Admitted(log, a, now') <= bound(a)
      OBVIOUS
    <3>1. CASE a \in 0..now
      BY <3>1, <2>1, <2>2
    <3>2. CASE a = now'
      BY <3>2, <2>2, <2>4
    <3> QED BY <3>1, <3>2, <2>3
  <2>7. entries'[k] = e /\ windowLog'[k] = log
    BY <1>1
  <2> HIDE DEF e, log
  <2> QED BY <2>2, <2>4, <2>5, <2>6, <2>7 DEF WindowAt, UntilNow, Admitted
<1>4. ASSUME NEW k \in TKeys, NEW s \in Spans', s[2] < now'
      PROVE  Admitted(windowLog'[k], s[1], s[2]) <= MaxRequests * (2 + (s[2] - s[1]) \div WindowTicks)
  <2>1. s \in Spans
    BY <1>2, <1>4 DEF Spans
  <2> QED BY <2>1, <1>1 DEF WindowInv, WindowBurst
<1>5. PastWindows'
  BY <1>4 DEF PastWindows, Admitted
<1>6. (now \in Times)' /\ Windows'
  BY <1>1, <1>2, <1>3 DEF Windows
<1>7. WindowBurst'
  BY <1>5, <1>6, WindowBurstNow, PTL
<1> QED BY <1>6, <1>7 DEF WindowInv

LEMMA WindowStays == WindowInv /\ UNCHANGED <<now, entries, windowLog>> => WindowInv'
  BY DEF WindowInv, Windows, EntryTypes, WindowAt, WindowBurst, UntilNow, Admitted, Spans

(* A new window starts at least WindowTicks after the last one, so one     *)
(* more full window fits before it.                                        *)
LEMMA CurrentIsCovered ==
  ASSUME now \in Times, EntryTypes, NEW k \in TKeys, WindowAt(k)
  PROVE  LET e == CurrentEntry(k) IN
         /\ e \in [count : 0..MaxRequests, start : Times] /\ e.start <= now
         /\ \A a \in 0..now :
               Admitted(windowLog[k], a, now)
                   <= e.count + (IF a > e.start THEN 0 ELSE MaxRequests * (1 + (e.start - a) \div WindowTicks))
<1> DEFINE old == entries[k]
           new == CurrentEntry(k)
           since(a) == Admitted(windowLog[k], a, now)
           before(e, a) == IF a > e.start THEN 0 ELSE MaxRequests * (1 + (e.start - a) \div WindowTicks)
<1>1. now \in Nat /\ Never \notin Times /\ Times \subseteq Nat /\ now <= MaxTime
  BY ClockTypes DEF Times
<1>2. MaxRequests \in Nat /\ WindowTicks \in Nat \ {0}
  BY ThrottleAssumption
<1>3. old \in [count : 0..MaxRequests, start : Times \cup {Never}]
  BY DEF EntryTypes
<1>4. \A a \in 0..now : since(a) \in Int
  BY AdmittedIsInt DEF EntryTypes
<1>5. CASE old.start # Never /\ now - old.start < WindowTicks
  <2>1. old.start \in Times /\ old.start <= now
    BY <1>3, <1>5 DEF WindowAt
  <2>2. new = old
    <3>1. old.start # Never /\ ~(now - old.start >= WindowTicks)
      <4>1. old.start \in Nat /\ now - old.start < WindowTicks
        BY <1>1, <1>5, <2>1
      <4> HIDE DEF old
      <4> QED BY <4>1, <1>1, <1>2, <1>5
    <3> QED BY <3>1, <1>5 DEF CurrentEntry
  <2>3. \A a \in 0..now : since(a) <= old.count + before(old, a)
    BY <1>5 DEF WindowAt
  <2>4. old \in [count : 0..MaxRequests, start : Times]
    BY <1>3, <2>1
  <2> QED BY <2>1, <2>2, <2>3, <2>4
<1>6. CASE old.start = Never \/ now - old.start >= WindowTicks
  <2>1. new = [count |-> 0, start |-> now]
    BY <1>6 DEF CurrentEntry
  <2>2. ASSUME NEW a \in 0..now PROVE since(a) <= MaxRequests * (1 + (now - a) \div WindowTicks)
    <3>1. now - a \in Nat /\ (now - a) \div WindowTicks \in Nat
      BY <1>1, <1>2, DivGrows
    <3>2. /\ MaxRequests * (1 + (now - a) \div WindowTicks) >= MaxRequests * (1 + 0) + MaxRequests * 0
          /\ MaxRequests * (1 + (now - a) \div WindowTicks) >= 0
      <4>1. MaxRequests * (1 + (now - a) \div WindowTicks) >= MaxRequests * (1 + 0) + MaxRequests * 0
        BY <3>1, <1>2, MoreWindows
      <4> QED BY <4>1, <3>1, <1>2
    <3>3. CASE old.start = Never
      <4>1. since(a) = 0
        BY <3>3 DEF WindowAt
      <4> QED BY <4>1, <3>2
    <3>4. CASE old.start # Never /\ a > old.start
      <4>1. since(a) <= old.count + before(old, a)
        BY <3>4 DEF WindowAt
      <4>2. old.count <= MaxRequests /\ old.count \in Nat /\ before(old, a) = 0
        BY <1>2, <1>3, <3>4
      <4>3. MaxRequests * (1 + (now - a) \div WindowTicks) \in Nat
        BY <1>2, <3>1
      <4> HIDE DEF old, since, before
      <4> QED BY <4>1, <4>2, <4>3, <3>2, <1>2, <1>4
    <3>5. CASE old.start # Never /\ a <= old.start
      <4>1. old.start \in Nat /\ old.start <= now /\ now - old.start >= WindowTicks
        BY <1>1, <1>3, <1>6, <3>5 DEF WindowAt
      <4>2. since(a) <= old.count + MaxRequests * (1 + (old.start - a) \div WindowTicks)
        BY <1>1, <4>1, <3>5 DEF WindowAt
      <4>3. old.count \in Nat /\ old.count <= MaxRequests
        BY <1>2, <1>3
      <4> HIDE DEF old, since
      <4>4. old.start - a \in Nat /\ now - a >= (old.start - a) + 1 * WindowTicks
        BY <4>1, <3>5, <1>1, <1>2
      <4>5. (old.start - a) \div WindowTicks \in Nat /\ (now - a) \div WindowTicks >= (old.start - a) \div WindowTicks + 1
        BY <4>4, <3>1, <1>2, DivGrows
      <4>6. MaxRequests * (1 + (now - a) \div WindowTicks)
                >= MaxRequests * (1 + (old.start - a) \div WindowTicks) + MaxRequests * 1
        BY <4>5, <3>1, <1>2, MoreWindows
      <4>7. MaxRequests * (1 + (old.start - a) \div WindowTicks) \in Nat /\ MaxRequests * (1 + (now - a) \div WindowTicks) \in Nat
        BY <4>5, <3>1, <1>2
      <4> QED BY <4>2, <4>3, <4>6, <4>7, <1>2, <1>4
    <3>6. old.start # Never => old.start \in Nat
      BY <1>1, <1>3
    <3> HIDE DEF old, since
    <3> QED BY <1>1, <3>3, <3>4, <3>5, <3>6
  <2>3. now \in Times /\ now <= now /\ 0 \in 0..MaxRequests
    BY <1>1, <1>2
  <2>4. \A a \in 0..now : ~(a > now)
    BY <1>1
  <2>5. \A a \in 0..now : MaxRequests * (1 + (now - a) \div WindowTicks) \in Nat
    BY <1>1, <1>2, DivGrows
  <2> QED BY <2>1, <2>2, <2>3, <2>4, <2>5
<1>7. old.start # Never => old.start \in Nat
  BY <1>1, <1>3
<1> QED BY <1>1, <1>2, <1>5, <1>6, <1>7

LEMMA WindowAllow ==
  ASSUME now \in Times, WindowInv, NEW k \in TKeys, AllowRequest(k)
  PROVE  WindowInv'
<1> DEFINE e == CurrentEntry(k)
           log == windowLog[k]
           before(a) == IF a > e.start THEN 0 ELSE MaxRequests * (1 + (e.start - a) \div WindowTicks)
           ok == e.count < MaxRequests
<1>1. now \in Nat /\ now' = now /\ MaxRequests \in Nat /\ Never \notin Times
  BY ClockTypes, ThrottleAssumption DEF AllowRequest
<1>2. EntryTypes /\ WindowAt(k) /\ UntilNow(log) /\ log \in [Times -> Nat]
  BY DEF WindowInv, Windows, WindowAt, EntryTypes
<1>3. /\ e \in [count : 0..MaxRequests, start : Times] /\ e.start <= now
      /\ \A a \in 0..now : Admitted(log, a, now) <= e.count + before(a)
  BY <1>2, CurrentIsCovered
<1>4. /\ Logged(log) \in [Times -> Nat] /\ UntilNow(Logged(log))
      /\ \A a \in 0..now : Admitted(Logged(log), a, now) = Admitted(log, a, now) + 1
      /\ \A s \in Spans : s[2] < now => Admitted(Logged(log), s[1], s[2]) = Admitted(log, s[1], s[2])
  BY <1>2, LogGrows
<1>5. /\ entries' = [entries EXCEPT ![k] = IF ok THEN [e EXCEPT !.count = @ + 1] ELSE e]
      /\ windowLog' = IF ok THEN [windowLog EXCEPT ![k] = Logged(log)] ELSE windowLog
  BY DEF AllowRequest
<1>6. /\ entries'[k] \in [count : 0..MaxRequests, start : Times] /\ entries'[k].start = e.start
      /\ entries'[k].count = (IF ok THEN e.count + 1 ELSE e.count)
      /\ windowLog'[k] = (IF ok THEN Logged(log) ELSE log)
      /\ \A j \in TKeys \ {k} : entries'[j] = entries[j] /\ windowLog'[j] = windowLog[j]
  <2>1. e.count \in 0..MaxRequests /\ (ok => e.count + 1 \in 0..MaxRequests)
    BY <1>1, <1>3
  <2>2. entries'[k] = IF ok THEN [e EXCEPT !.count = @ + 1] ELSE e
    BY <1>2, <1>5 DEF EntryTypes
  <2>3. windowLog'[k] = IF ok THEN Logged(log) ELSE log
    BY <1>2, <1>5 DEF EntryTypes
  <2>4. \A j \in TKeys \ {k} : entries'[j] = entries[j] /\ windowLog'[j] = windowLog[j]
    BY <1>2, <1>5 DEF EntryTypes
  <2> HIDE DEF e, log
  <2> QED BY <2>1, <2>2, <2>3, <2>4, <1>3
<1>7. EntryTypes'
  <2>1. \A j \in TKeys : entries'[j] \in [count : 0..MaxRequests, start : Times \cup {Never}]
    BY <1>2, <1>6 DEF EntryTypes
  <2>2. \A j \in TKeys : windowLog'[j] \in [Times -> Nat]
    BY <1>2, <1>4, <1>6 DEF EntryTypes
  <2>3. DOMAIN entries' = TKeys /\ DOMAIN windowLog' = TKeys
    BY <1>2, <1>5 DEF EntryTypes
  <2>4. entries' = [j \in TKeys |-> entries'[j]] /\ windowLog' = [j \in TKeys |-> windowLog'[j]]
    BY <1>2, <1>5 DEF EntryTypes
  <2> QED BY <2>1, <2>2, <2>4 DEF EntryTypes
<1>8. ASSUME NEW a \in 0..now
      PROVE  Admitted(windowLog'[k], a, now) <= entries'[k].count + before(a)
  <2>1. Admitted(log, a, now) \in Int /\ e.count \in Nat
    BY <1>2, <1>3, <1>1, AdmittedIsInt
  <2>2. before(a) \in Nat
    <3>1. e.start \in Nat /\ WindowTicks \in Nat \ {0} /\ a \in Nat
      BY <1>1, <1>3, ThrottleAssumption DEF Times
    <3> HIDE DEF e
    <3>2. a <= e.start => e.start - a \in Nat /\ (e.start - a) \div WindowTicks \in Nat
      BY <3>1, DivGrows
    <3> QED BY <3>1, <3>2, <1>1
  <2> HIDE DEF before, e, log
  <2> QED BY <2>1, <2>2, <1>3, <1>4, <1>6
<1>9. WindowAt(k)'
  <2>1. \A t \in Times : t >= now => windowLog'[k][t] = windowLog'[k][now]
    BY <1>2, <1>4, <1>6 DEF UntilNow
  <2>2. entries'[k].start # Never /\ entries'[k].start <= now
    BY <1>1, <1>3, <1>6
  <2>3. \A a \in 0..now : Admitted(windowLog'[k], a, now)
           <= entries'[k].count + (IF a > entries'[k].start THEN 0 ELSE MaxRequests * (1 + (entries'[k].start - a) \div WindowTicks))
    BY <1>6, <1>8
  <2> QED BY <2>1, <2>2, <2>3, <1>1 DEF WindowAt, UntilNow, Admitted
<1>10. ASSUME NEW j \in TKeys, j # k PROVE WindowAt(j)'
  <2>1. WindowAt(j) /\ entries'[j] = entries[j] /\ windowLog'[j] = windowLog[j]
    BY <1>6, <1>10 DEF WindowInv, Windows
  <2> QED BY <2>1, <1>1 DEF WindowAt, UntilNow, Admitted
<1>11. ASSUME NEW j \in TKeys, NEW s \in Spans, s[2] < now
       PROVE  Admitted(windowLog'[j], s[1], s[2]) <= MaxRequests * (2 + (s[2] - s[1]) \div WindowTicks)
  <2>1. Admitted(windowLog[j], s[1], s[2]) <= MaxRequests * (2 + (s[2] - s[1]) \div WindowTicks)
    BY DEF WindowInv, WindowBurst
  <2>2. Admitted(windowLog'[j], s[1], s[2]) = Admitted(windowLog[j], s[1], s[2])
    BY <1>4, <1>6, <1>11
  <2> QED BY <2>1, <2>2
<1>12. PastWindows'
  <2>1. Spans' = Spans
    BY <1>1 DEF Spans
  <2> QED BY <2>1, <1>1, <1>11 DEF PastWindows, Admitted
<1>13. (now \in Times)' /\ Windows'
  BY <1>1, <1>7, <1>9, <1>10 DEF Windows
<1>14. WindowBurst'
  BY <1>12, <1>13, WindowBurstNow, PTL
<1> QED BY <1>13, <1>14 DEF WindowInv

LEMMA FlowsIn ==
  ASSUME NEW r \in Nat, NEW x \in Nat, NEW y \in Nat, x >= y
  PROVE  x * r \in Nat /\ y * r \in Nat /\ (x - y) * r \in Nat /\ x * r = y * r + (x - y) * r
<1>1. x - y \in Nat
  OBVIOUS
<1>2. \A m, n \in Nat : m * n \in Nat
  OBVIOUS
<1> QED BY <1>1, <1>2

PastBuckets ==
    \A k \in TKeys, s \in Spans : s[2] < now =>
        Admitted(bucketLog[k], s[1], s[2]) * Unit <= MaxTokens * Unit + (s[2] - s[1]) * Rate

LEMMA BucketTells ==
  ASSUME now \in Times, NEW k \in TKeys, BucketTypes, BucketAt(k), NEW a \in 0..now
  PROVE  Admitted(bucketLog[k], a, now) * Unit <= MaxTokens * Unit + (now - a) * Rate
<1> DEFINE b == buckets[k]
           since == Admitted(bucketLog[k], a, now)
           brim == MaxTokens * Unit
<1>1. now \in Nat /\ Never \notin Times /\ Times \subseteq Nat
  BY ClockTypes DEF Times
<1>2. Unit \in Nat /\ Rate \in Nat /\ MaxTokens \in Nat /\ brim \in Nat
  BY ThrottleAssumption
<1>3. b.tokens \in 0..brim /\ b.last \in Times \cup {Never}
  BY DEF BucketTypes
<1>4. since \in Int
  BY AdmittedIsInt DEF BucketTypes
<1>5. (now - a) * Rate \in Nat
  BY <1>1, <1>2, FlowsIn
<1>6. ASSUME since = 0 PROVE since * Unit <= brim + (now - a) * Rate
  <2> DEFINE flow == (now - a) * Rate
  <2>1. flow \in Nat
    BY <1>5
  <2> HIDE DEF since, brim, flow
  <2>2. since * Unit <= brim + flow
    BY <1>6, <1>2, <2>1
  <2> QED BY <2>2 DEF flow
<1>7. CASE b.last # Never /\ a <= b.last
  <2>1. b.last \in Nat /\ b.last <= now /\ since * Unit + b.tokens <= brim + (b.last - a) * Rate
    <3>1. b.last \in Nat /\ ~(a > b.last)
      <4>1. b.last \in Nat
        BY <1>1, <1>3, <1>7
      <4> HIDE DEF b
      <4> QED BY <4>1, <1>1, <1>7
    <3> QED BY <3>1, <1>7 DEF BucketAt
  <2>2. b.tokens \in Nat
    BY <1>2, <1>3
  <2> HIDE DEF b, since, brim
  <2>3. (now - a) * Rate = (b.last - a) * Rate + ((now - a) - (b.last - a)) * Rate
        /\ (b.last - a) * Rate \in Nat /\ ((now - a) - (b.last - a)) * Rate \in Nat
    <3>1. now - a \in Nat /\ b.last - a \in Nat /\ now - a >= b.last - a
      BY <2>1, <1>1, <1>7
    <3> QED BY <3>1, <1>2, FlowsIn
  <2>4. since * Unit \in Int
    BY <1>2, <1>4
  <2> DEFINE f == (now - a) * Rate
             g == (b.last - a) * Rate
             h == ((now - a) - (b.last - a)) * Rate
             u == since * Unit
  <2>5. f = g + h /\ g \in Nat /\ h \in Nat /\ u \in Int /\ u + b.tokens <= brim + g
    BY <2>1, <2>3, <2>4
  <2> HIDE DEF f, g, h, u
  <2>6. u <= brim + f
    BY <2>2, <2>5, <1>2
  <2> QED BY <2>6 DEF f, u, since, brim
<1>8. CASE b.last = Never
  BY <1>8, <1>6 DEF BucketAt
<1>9. CASE b.last # Never /\ a > b.last
  BY <1>9, <1>6 DEF BucketAt
<1>10. b.last # Never => b.last \in Nat
  BY <1>1, <1>3
<1> HIDE DEF b, since, brim
<1> QED BY <1>1, <1>7, <1>8, <1>9, <1>10

LEMMA BucketBurstNow == now \in Times /\ Buckets /\ PastBuckets => BucketBurst
<1> SUFFICES ASSUME now \in Times, Buckets, PastBuckets, NEW k \in TKeys, NEW s \in Spans
             PROVE  Admitted(bucketLog[k], s[1], s[2]) * Unit <= MaxTokens * Unit + (s[2] - s[1]) * Rate
  BY DEF BucketBurst
<1>1. now \in Nat /\ s[1] \in 0..now /\ s[2] \in 0..now
  BY ClockTypes DEF Spans
<1>2. CASE s[2] < now
  BY <1>2 DEF PastBuckets
<1>3. CASE s[2] = now
  BY <1>1, <1>3, BucketTells DEF Buckets
<1> QED BY <1>1, <1>2, <1>3

LEMMA BucketStays == BucketInv /\ UNCHANGED <<now, buckets, bucketLog>> => BucketInv'
  BY DEF BucketInv, Buckets, BucketTypes, BucketAt, BucketBurst, UntilNow, Admitted, Spans

LEMMA BucketTick == now \in Times /\ BucketInv /\ Tick => BucketInv'
<1> SUFFICES ASSUME now \in Times, BucketInv, Tick PROVE BucketInv'
  OBVIOUS
<1>1. BucketTypes /\ BucketTypes' /\ UNCHANGED <<buckets, bucketLog>>
  BY DEF BucketInv, Buckets, BucketTypes, Tick
<1>2. now \in Nat /\ now' = now + 1 /\ now' \in Times
  BY ThrottleAssumption DEF Tick, Times
<1>3. ASSUME NEW k \in TKeys PROVE BucketAt(k)'
  <2> DEFINE b == buckets[k]
             log == bucketLog[k]
  <2>1. /\ UntilNow(log) /\ log \in [Times -> Nat]
        /\ b.last = Never => b = NoBucket /\ \A a \in 0..now : Admitted(log, a, now) = 0
        /\ b.last # Never =>
              /\ b.last <= now
              /\ \A a \in 0..now : IF a > b.last THEN Admitted(log, a, now) = 0
                                   ELSE Admitted(log, a, now) * Unit + b.tokens <= MaxTokens * Unit + (b.last - a) * Rate
    BY <1>1 DEF BucketInv, Buckets, BucketAt, BucketTypes
  <2>2. /\ \A t \in Times : t >= now' => log[t] = log[now']
        /\ \A a \in 0..now : Admitted(log, a, now') = Admitted(log, a, now)
        /\ Admitted(log, now', now') = 0
    BY <2>1, LogStays
  <2>3. \A a \in 0..now' : a \in 0..now \/ a = now'
    BY <1>2
  <2>4. b.last # Never => b.last <= now' /\ now' > b.last
    <3>1. b.last # Never => b.last \in Nat
      BY <1>1, ThrottleAssumption DEF BucketTypes, Times
    <3> HIDE DEF b
    <3> QED BY <3>1, <2>1, <1>2
  <2>5. b.last = Never => b = NoBucket /\ \A a \in 0..now' : Admitted(log, a, now') = 0
    BY <2>1, <2>2, <2>3
  <2>6. b.last # Never =>
          \A a \in 0..now' : IF a > b.last THEN Admitted(log, a, now') = 0
                             ELSE Admitted(log, a, now') * Unit + b.tokens <= MaxTokens * Unit + (b.last - a) * Rate
    <3> HIDE DEF b, log
    <3> QED BY <2>1, <2>2, <2>3, <2>4
  <2>7. buckets'[k] = b /\ bucketLog'[k] = log
    BY <1>1
  <2> HIDE DEF b, log
  <2> QED BY <2>2, <2>4, <2>5, <2>6, <2>7 DEF BucketAt, UntilNow, Admitted
<1>4. ASSUME NEW k \in TKeys, NEW s \in Spans', s[2] < now'
      PROVE  Admitted(bucketLog'[k], s[1], s[2]) * Unit <= MaxTokens * Unit + (s[2] - s[1]) * Rate
  <2>1. s \in Spans
    BY <1>2, <1>4 DEF Spans
  <2> QED BY <2>1, <1>1 DEF BucketInv, BucketBurst
<1>5. PastBuckets'
  BY <1>4 DEF PastBuckets, Admitted
<1>6. (now \in Times)' /\ Buckets'
  BY <1>1, <1>2, <1>3 DEF Buckets
<1>7. BucketBurst'
  BY <1>5, <1>6, BucketBurstNow, PTL
<1> QED BY <1>6, <1>7 DEF BucketInv

(* What flows in since the last call is covered by what the span grows by. *)
LEMMA RefilledIsCovered ==
  ASSUME now \in Times, BucketTypes, NEW k \in TKeys, BucketAt(k)
  PROVE  /\ Refilled(k) \in 0..MaxTokens * Unit
         /\ \A a \in 0..now :
               Admitted(bucketLog[k], a, now) * Unit + Refilled(k) <= MaxTokens * Unit + (now - a) * Rate
<1> DEFINE b == buckets[k]
           t == Refilled(k)
           brim == MaxTokens * Unit
           since(a) == Admitted(bucketLog[k], a, now)
           flow(x) == x * Rate
<1>1. now \in Nat /\ Never \notin Times /\ Times \subseteq Nat /\ Never \in Nat
  BY ClockTypes DEF Times, Never
<1>2. Unit \in Nat /\ Rate \in Nat /\ MaxTokens \in Nat /\ brim \in Nat
  BY ThrottleAssumption
<1>3. b \in [tokens : 0..brim, last : Times \cup {Never}]
  BY DEF BucketTypes
<1>4. \A a \in 0..now : flow(now - a) \in Nat
  BY <1>1, <1>2, FlowsIn
<1>5. CASE b.last = Never
  <2>1. b = NoBucket /\ \A a \in 0..now : since(a) = 0
    BY <1>5 DEF BucketAt
  <2>2. t = brim
    BY <2>1 DEF Refilled
  <2>3. \A a \in 0..now : since(a) * Unit = 0
    BY <2>1, <1>2
  <2> HIDE DEF t, brim, since, flow
  <2>4. \A a \in 0..now : since(a) * Unit + t <= brim + flow(now - a)
    BY <2>2, <2>3, <1>2, <1>4
  <2> QED BY <2>2, <2>4, <1>2 DEF t, brim, since, flow
<1>6. CASE b.last # Never
  <2>1. b.last \in Nat /\ b.last <= now /\ b # NoBucket /\ b.tokens \in Nat /\ b.tokens <= brim
    <3>1. b.last \in Nat /\ b.tokens \in Nat /\ b.tokens <= brim
      <4>1. b.last \in Times /\ b.tokens \in 0..brim
        BY <1>3, <1>6
      <4>2. b.last \in Nat
        BY <4>1, <1>1
      <4> HIDE DEF b, brim
      <4>3. brim \in Nat
        BY <1>2
      <4>4. b.tokens \in Nat /\ b.tokens <= brim
        BY <4>1, <4>3
      <4> QED BY <4>2, <4>4
    <3> QED BY <3>1, <1>6 DEF BucketAt, NoBucket
  <2> DEFINE flowed == b.tokens + flow(now - b.last)
  <2>2. flow(now - b.last) \in Nat
    BY <2>1, <1>1, <1>4
  <2>3. t = IF flowed > brim THEN brim ELSE flowed
    BY <2>1 DEF Refilled
  <2>4. t \in Nat /\ t <= brim /\ t <= flowed
    <3>1. flowed \in Nat
      BY <2>1, <2>2
    <3> HIDE DEF t, brim, flowed
    <3> QED BY <3>1, <2>3, <1>2
  <2>5. ASSUME NEW a \in 0..now PROVE since(a) * Unit + t <= brim + flow(now - a)
    <3>1. CASE a > b.last
      <4>1. since(a) * Unit = 0
        BY <3>1, <1>2, <1>6 DEF BucketAt
      <4> HIDE DEF t, brim, since, flow
      <4> QED BY <4>1, <2>4, <1>2, <1>4
    <3>2. CASE a <= b.last
      <4>1. ~(a > b.last)
        BY <3>2, <2>1, <1>1
      <4>2. since(a) * Unit + b.tokens <= brim + flow(b.last - a)
        BY <4>1, <1>6 DEF BucketAt
      <4>3. since(a) * Unit \in Int
        BY <1>2, AdmittedIsInt DEF BucketTypes
      <4>4. flow(now - a) = flow(b.last - a) + flow(now - b.last) /\ flow(b.last - a) \in Nat
        <5>1. now - a \in Nat /\ b.last - a \in Nat /\ now - a >= b.last - a /\ (now - a) - (b.last - a) = now - b.last
          BY <2>1, <1>1, <3>2
        <5> HIDE DEF b
        <5> QED BY <5>1, <1>2, FlowsIn
      <4>5. t <= b.tokens + flow(now - b.last)
        BY <2>4
      <4> DEFINE u == since(a) * Unit
      <4> HIDE DEF t, brim, since, flow, b, u
      <4>6. u + t <= brim + flow(now - a)
        <5>1. u \in Int /\ u + b.tokens <= brim + flow(b.last - a)
          BY <4>2, <4>3 DEF u
        <5> QED BY <5>1, <4>4, <4>5, <2>1, <2>2, <2>4, <1>2
      <4> QED BY <4>6 DEF u
    <3> QED BY <3>1, <3>2, <2>1, <1>1
  <2>6. t \in 0..brim
    <3> HIDE DEF t, brim
    <3> QED BY <2>4, <1>2
  <2> QED BY <2>5, <2>6
<1> QED BY <1>5, <1>6

LEMMA BucketAcquire ==
  ASSUME now \in Times, BucketInv, NEW k \in TKeys, TryAcquire(k)
  PROVE  BucketInv'
<1> DEFINE t == Refilled(k)
           log == bucketLog[k]
           ok == t >= Unit
           left == IF ok THEN t - Unit ELSE t
           brim == MaxTokens * Unit
<1>1. now \in Nat /\ now' = now /\ Never \notin Times /\ Unit \in Nat /\ brim \in Nat
  BY ClockTypes, ThrottleAssumption DEF TryAcquire
<1>2. BucketTypes /\ BucketAt(k) /\ UntilNow(log) /\ log \in [Times -> Nat]
  BY DEF BucketInv, Buckets, BucketAt, BucketTypes
<1>3. t \in 0..brim /\ \A a \in 0..now : Admitted(log, a, now) * Unit + t <= brim + (now - a) * Rate
  BY <1>2, RefilledIsCovered
<1>4. /\ Logged(log) \in [Times -> Nat] /\ UntilNow(Logged(log))
      /\ \A a \in 0..now : Admitted(Logged(log), a, now) = Admitted(log, a, now) + 1
      /\ \A s \in Spans : s[2] < now => Admitted(Logged(log), s[1], s[2]) = Admitted(log, s[1], s[2])
  BY <1>2, LogGrows
<1>5. /\ buckets' = [buckets EXCEPT ![k] = [tokens |-> left, last |-> now]]
      /\ bucketLog' = IF ok THEN [bucketLog EXCEPT ![k] = Logged(log)] ELSE bucketLog
  BY DEF TryAcquire
<1>6. /\ buckets'[k] = [tokens |-> left, last |-> now]
      /\ bucketLog'[k] = (IF ok THEN Logged(log) ELSE log)
      /\ \A j \in TKeys \ {k} : buckets'[j] = buckets[j] /\ bucketLog'[j] = bucketLog[j]
      /\ buckets' = [j \in TKeys |-> buckets'[j]] /\ bucketLog' = [j \in TKeys |-> bucketLog'[j]]
  <2>1. buckets \in [TKeys -> [tokens : 0..brim, last : Times \cup {Never}]] /\ bucketLog \in [TKeys -> [Times -> Nat]]
    BY <1>2 DEF BucketTypes
  <2> HIDE DEF t, log, left, brim, ok
  <2>2. buckets'[k] = [tokens |-> left, last |-> now] /\ buckets' = [j \in TKeys |-> buckets'[j]]
    BY <2>1, <1>5
  <2>3. \A j \in TKeys \ {k} : buckets'[j] = buckets[j] /\ bucketLog'[j] = bucketLog[j]
    BY <2>1, <1>5
  <2>4. bucketLog'[k] = IF ok THEN Logged(log) ELSE log
    BY <2>1, <1>5 DEF log
  <2>5. bucketLog' = [j \in TKeys |-> bucketLog'[j]]
    BY <2>1, <1>5
  <2> QED BY <2>2, <2>3, <2>4, <2>5
<1>7. left \in 0..brim
  <2> HIDE DEF t, brim
  <2> QED BY <1>1, <1>3
<1>8. BucketTypes'
  <2>1. \A j \in TKeys : buckets'[j] \in [tokens : 0..brim, last : Times \cup {Never}]
    BY <1>2, <1>6, <1>7 DEF BucketTypes
  <2>2. \A j \in TKeys : bucketLog'[j] \in [Times -> Nat]
    BY <1>2, <1>4, <1>6 DEF BucketTypes
  <2> QED BY <2>1, <2>2, <1>6 DEF BucketTypes
<1>9. ASSUME NEW a \in 0..now
      PROVE  Admitted(bucketLog'[k], a, now) * Unit + left <= brim + (now - a) * Rate
  <2>1. Admitted(log, a, now) \in Int
    BY <1>2, AdmittedIsInt
  <2>2. Admitted(log, a, now) * Unit + t <= brim + (now - a) * Rate
    BY <1>3
  <2>3. CASE ok
    <3>1. Admitted(bucketLog'[k], a, now) = Admitted(log, a, now) + 1
      BY <1>4, <1>6, <2>3
    <3>2. Admitted(bucketLog'[k], a, now) * Unit + left = Admitted(log, a, now) * Unit + t
      <4> DEFINE x == Admitted(log, a, now)
      <4>1. x \in Int /\ t \in Int /\ left = t - Unit /\ Admitted(bucketLog'[k], a, now) = x + 1
        BY <2>1, <2>3, <3>1, <1>3
      <4> HIDE DEF x, t, left
      <4>2. (x + 1) * Unit + left = x * Unit + t
        BY <4>1, <1>1
      <4> QED BY <4>1, <4>2 DEF x
    <3> QED BY <2>2, <3>2
  <2>4. CASE ~ok
    BY <1>6, <2>2, <2>4
  <2> QED BY <2>3, <2>4
<1>10. BucketAt(k)'
  <2>1. \A u \in Times : u >= now => bucketLog'[k][u] = bucketLog'[k][now]
    BY <1>2, <1>4, <1>6 DEF UntilNow
  <2>2. buckets'[k].last = now /\ buckets'[k].tokens = left /\ now # Never
    BY <1>1, <1>6
  <2>3. \A a \in 0..now : ~(a > now)
    BY <1>1
  <2> HIDE DEF left
  <2> QED BY <2>1, <2>2, <2>3, <1>1, <1>9 DEF BucketAt, UntilNow, Admitted
<1>11. ASSUME NEW j \in TKeys, j # k PROVE BucketAt(j)'
  <2>1. BucketAt(j) /\ buckets'[j] = buckets[j] /\ bucketLog'[j] = bucketLog[j]
    BY <1>6, <1>11 DEF BucketInv, Buckets
  <2> QED BY <2>1, <1>1 DEF BucketAt, UntilNow, Admitted
<1>12. ASSUME NEW j \in TKeys, NEW s \in Spans, s[2] < now
       PROVE  Admitted(bucketLog'[j], s[1], s[2]) * Unit <= MaxTokens * Unit + (s[2] - s[1]) * Rate
  <2>1. Admitted(bucketLog[j], s[1], s[2]) * Unit <= MaxTokens * Unit + (s[2] - s[1]) * Rate
    BY DEF BucketInv, BucketBurst
  <2>2. Admitted(bucketLog'[j], s[1], s[2]) = Admitted(bucketLog[j], s[1], s[2])
    BY <1>4, <1>6, <1>12
  <2> QED BY <2>1, <2>2
<1>13. PastBuckets'
  <2>1. Spans' = Spans
    BY <1>1 DEF Spans
  <2> QED BY <2>1, <1>1, <1>12 DEF PastBuckets, Admitted
<1>14. (now \in Times)' /\ Buckets'
  BY <1>1, <1>8, <1>10, <1>11 DEF Buckets
<1>15. BucketBurst'
  BY <1>13, <1>14, BucketBurstNow, PTL
<1> QED BY <1>14, <1>15 DEF BucketInv

LEMMA BucketReset ==
  ASSUME now \in Times, BucketInv, NEW k \in TKeys, ResetBucket(k)
  PROVE  BucketInv'
<1>1. now \in Nat /\ now' = now /\ Times \subseteq Nat /\ MaxTokens * Unit \in Nat
  BY ClockTypes, ThrottleAssumption DEF ResetBucket, Times
<1>2. BucketTypes
  BY DEF BucketInv, Buckets
<1>3. /\ buckets'[k] = NoBucket /\ bucketLog'[k] = NoLog
      /\ \A j \in TKeys \ {k} : buckets'[j] = buckets[j] /\ bucketLog'[j] = bucketLog[j]
      /\ buckets' = [j \in TKeys |-> buckets'[j]] /\ bucketLog' = [j \in TKeys |-> bucketLog'[j]]
  BY <1>2 DEF BucketTypes, ResetBucket
<1>4. BucketTypes'
  <2>1. NoBucket \in [tokens : 0..MaxTokens * Unit, last : Times \cup {Never}] /\ NoLog \in [Times -> Nat]
    BY <1>1 DEF NoBucket, NoLog
  <2> HIDE DEF NoBucket, NoLog
  <2>2. \A j \in TKeys : buckets'[j] \in [tokens : 0..MaxTokens * Unit, last : Times \cup {Never}]
    BY <1>2, <1>3, <2>1 DEF BucketTypes
  <2>3. \A j \in TKeys : bucketLog'[j] \in [Times -> Nat]
    BY <1>2, <1>3, <2>1 DEF BucketTypes
  <2> QED BY <2>2, <2>3, <1>3 DEF BucketTypes
<1>5. \A t \in 0..now : t \in Times /\ (t # 0 => t - 1 \in Times)
  BY <1>1, ClockTypes DEF Times
<1>6. \A a, b \in 0..now : Admitted(NoLog, a, b) = 0
  BY <1>5 DEF Admitted, NoLog
<1>7. BucketAt(k)'
  BY <1>1, <1>3, <1>6 DEF BucketAt, UntilNow, NoLog, NoBucket, Admitted
<1>8. ASSUME NEW j \in TKeys, j # k PROVE BucketAt(j)'
  <2>1. BucketAt(j) /\ buckets'[j] = buckets[j] /\ bucketLog'[j] = bucketLog[j]
    BY <1>3, <1>8 DEF BucketInv, Buckets
  <2> QED BY <2>1, <1>1 DEF BucketAt, UntilNow, Admitted
<1>9. ASSUME NEW j \in TKeys, NEW s \in Spans, s[2] < now
      PROVE  Admitted(bucketLog'[j], s[1], s[2]) * Unit <= MaxTokens * Unit + (s[2] - s[1]) * Rate
  <2>1. CASE j = k
    <3>1. s[1] \in 0..now /\ s[2] \in 0..now /\ s[2] - s[1] \in Nat
      BY <1>1 DEF Spans
    <3>2. (s[2] - s[1]) * Rate \in Nat /\ 0 * Unit = 0
      BY <3>1, ThrottleAssumption
    <3>3. Admitted(bucketLog'[j], s[1], s[2]) = 0
      BY <2>1, <3>1, <1>3, <1>6
    <3> QED BY <3>2, <3>3, <1>1
  <2>2. CASE j # k
    BY <2>2, <1>3 DEF BucketInv, BucketBurst
  <2> QED BY <2>1, <2>2
<1>10. PastBuckets'
  <2>1. Spans' = Spans
    BY <1>1 DEF Spans
  <2> QED BY <2>1, <1>1, <1>9 DEF PastBuckets, Admitted
<1>11. (now \in Times)' /\ Buckets'
  BY <1>1, <1>4, <1>7, <1>8 DEF Buckets
<1>12. BucketBurst'
  BY <1>10, <1>11, BucketBurstNow, PTL
<1> QED BY <1>11, <1>12 DEF BucketInv

(* What NonceAt says of a store that holds kept and was cleaned at last.   *)
StoredAt(n, kept, last) ==
    /\ kept[n] \in Times \cup {Never}
    /\ \A t \in nonceLog[n] : t <= now /\ IF kept[n] = Never THEN t + Expiry < now ELSE t <= kept[n]
    /\ kept[n] # Never => kept[n] <= now /\ last # Never /\ kept[n] + Expiry >= last

LEMMA NonceFacts ==
  ASSUME now \in Times, NonceInv, NEW n \in Nonces
  PROVE  /\ now \in Nat /\ Expiry \in Nat /\ CleanupEvery \in Nat /\ Times \subseteq Nat
         /\ Never \notin Times /\ now # Never /\ now <= now
         /\ nonces[n] \in Times \cup {Never} /\ nonceLog[n] \subseteq Times
         /\ StoredAt(n, nonces, lastCleanup)
<1>1. now \in Nat /\ Never \notin Times /\ Times \subseteq Nat
  BY ClockTypes DEF Times
<1> QED BY <1>1, ThrottleAssumption DEF NonceInv, NonceTypes, NonceAt, StoredAt

LEMMA CleanedIsStored ==
  ASSUME now \in Times, NonceInv, NEW n \in Nonces
  PROVE  /\ StoredAt(n, Cleaned, now)
         /\ Cleaned[n] # Never => now - Cleaned[n] <= Expiry
<1>1. /\ now \in Nat /\ Expiry \in Nat /\ Times \subseteq Nat /\ now # Never
      /\ nonces[n] \in Times \cup {Never} /\ nonceLog[n] \subseteq Times /\ StoredAt(n, nonces, lastCleanup)
  BY NonceFacts
<1>2. Cleaned[n] = IF Expired(n) THEN Never ELSE nonces[n]
  BY DEF Cleaned
<1>3. CASE Expired(n)
  <2>1. nonces[n] \in Nat /\ nonces[n] + Expiry < now
    BY <1>1, <1>3 DEF Expired
  <2>2. \A t \in nonceLog[n] : t \in Nat /\ t <= nonces[n]
    BY <1>1, <1>3 DEF Expired, StoredAt
  <2>3. \A t \in nonceLog[n] : t <= now /\ t + Expiry < now
    BY <2>1, <2>2, <1>1
  <2> QED BY <2>3, <1>2, <1>3 DEF StoredAt
<1>4. CASE ~Expired(n)
  <2>1. Cleaned[n] = nonces[n]
    BY <1>2, <1>4
  <2>2. nonces[n] # Never => nonces[n] \in Nat /\ nonces[n] <= now /\ nonces[n] + Expiry >= now /\ now - nonces[n] <= Expiry
    <3>1. nonces[n] # Never => nonces[n] \in Nat /\ ~(nonces[n] + Expiry < now) /\ nonces[n] <= now
      BY <1>1, <1>4 DEF Expired, StoredAt
    <3> QED BY <3>1, <1>1
  <2> QED BY <2>1, <2>2, <1>1 DEF StoredAt
<1> QED BY <1>3, <1>4

(* A check acts on nonces that were cleaned at most CleanupEvery ago.      *)
LEMMA KeptIsStored ==
  ASSUME now \in Times, NonceInv, NEW n \in Nonces,
         NEW kept, kept = (IF CleanupIsDue THEN Cleaned ELSE nonces),
         NEW last, last = (IF CleanupIsDue THEN now ELSE lastCleanup)
  PROVE  /\ StoredAt(n, kept, last)
         /\ kept[n] # Never => now - kept[n] < Expiry + CleanupEvery \/ now - kept[n] <= Expiry
<1>1. CASE CleanupIsDue
  BY <1>1, CleanedIsStored
<1>2. CASE ~CleanupIsDue
  <2>1. /\ now \in Nat /\ Expiry \in Nat /\ CleanupEvery \in Nat /\ Times \subseteq Nat
        /\ nonces[n] \in Times \cup {Never} /\ StoredAt(n, nonces, lastCleanup)
    BY NonceFacts
  <2>2. ASSUME nonces[n] # Never PROVE now - nonces[n] < Expiry + CleanupEvery
    <3>1. nonces[n] \in Nat /\ nonces[n] + Expiry >= lastCleanup /\ lastCleanup # Never
      BY <2>1, <2>2 DEF StoredAt
    <3>2. lastCleanup \in Nat
      BY <2>1, <3>1 DEF NonceInv, NonceTypes
    <3>3. now - lastCleanup < CleanupEvery
      BY <2>1, <3>1, <3>2, <1>2 DEF CleanupIsDue
    <3> QED BY <2>1, <3>1, <3>2, <3>3
  <2> QED BY <2>1, <2>2, <1>2
<1> QED BY <1>1, <1>2

LEMMA NonceStays == NonceInv /\ UNCHANGED <<now, nonces, lastCleanup, nonceLog>> => NonceInv'
  BY DEF NonceInv, NonceTypes, NonceAt, NoReplayWithinExpiry

LEMMA NonceTick == now \in Times /\ NonceInv /\ Tick => NonceInv'
<1> SUFFICES ASSUME now \in Times, NonceInv, Tick PROVE NonceInv'
  OBVIOUS
<1>1. /\ now \in Nat /\ now' = now + 1 /\ now' \in Times /\ Expiry \in Nat /\ Times \subseteq Nat
      /\ UNCHANGED <<nonces, lastCleanup, nonceLog>>
  BY ThrottleAssumption DEF Tick, Times
<1>2. NonceTypes'
  <2>1. lastCleanup \in 0..now' \cup {Never}
    BY <1>1 DEF NonceInv, NonceTypes
  <2> QED BY <2>1, <1>1 DEF NonceInv, NonceTypes
<1>3. ASSUME NEW n \in Nonces PROVE NonceAt(n)'
  <2>1. NonceAt(n) /\ nonceLog[n] \subseteq Nat /\ (nonces[n] # Never => nonces[n] \in Nat)
    BY <1>1 DEF NonceInv, NonceTypes
  <2> QED BY <2>1, <1>1 DEF NonceAt
<1>4. NoReplayWithinExpiry'
  BY <1>1 DEF NonceInv, NoReplayWithinExpiry
<1> QED BY <1>2, <1>3, <1>4 DEF NonceInv

LEMMA NonceClean == now \in Times /\ NonceInv /\ CleanupNonces => NonceInv'
<1> SUFFICES ASSUME now \in Times, NonceInv, CleanupNonces PROVE NonceInv'
  OBVIOUS
<1>1. nonces' = Cleaned /\ lastCleanup' = now /\ now' = now /\ nonceLog' = nonceLog
  BY DEF CleanupNonces
<1>2. \A n \in Nonces : StoredAt(n, Cleaned, now)
  BY CleanedIsStored
<1>3. now \in Nat
  BY ClockTypes
<1>4. NonceTypes'
  <2>1. Cleaned \in [Nonces -> Times \cup {Never}]
    BY <1>2 DEF StoredAt, Cleaned
  <2> QED BY <2>1, <1>1, <1>3 DEF NonceInv, NonceTypes
<1>5. \A n \in Nonces : NonceAt(n)'
  BY <1>1, <1>2 DEF StoredAt, NonceAt
<1>6. NoReplayWithinExpiry'
  BY <1>1 DEF NonceInv, NoReplayWithinExpiry
<1> QED BY <1>4, <1>5, <1>6 DEF NonceInv

LEMMA NonceCheck ==
  ASSUME now \in Times, NonceInv, NEW n \in Nonces, CheckAndStore(n)
  PROVE  /\ NonceInv'
         /\ \A m \in Nonces : nonces'[m] # Never => now - nonces'[m] < Expiry + CleanupEvery
                                                  \/ now - nonces'[m] <= Expiry
<1> DEFINE kept == IF CleanupIsDue THEN Cleaned ELSE nonces
           last == IF CleanupIsDue THEN now ELSE lastCleanup
           fresh == kept[n] = Never
<1>1. /\ now' = now /\ lastCleanup' = last
      /\ nonces' = (IF fresh THEN [kept EXCEPT ![n] = now] ELSE kept)
      /\ nonceLog' = (IF fresh THEN [nonceLog EXCEPT ![n] = @ \cup {now}] ELSE nonceLog)
  BY DEF CheckAndStore
<1>2. \A m \in Nonces :
        /\ StoredAt(m, kept, last)
        /\ kept[m] # Never => now - kept[m] < Expiry + CleanupEvery \/ now - kept[m] <= Expiry
  BY KeptIsStored
<1>3. /\ now \in Nat /\ Expiry \in Nat /\ Times \subseteq Nat /\ now # Never /\ now <= now /\ now - now <= Expiry
      /\ \A m \in Nonces : nonceLog[m] \subseteq Times
  <2>1. /\ now \in Nat /\ Expiry \in Nat /\ Times \subseteq Nat /\ now # Never
        /\ \A m \in Nonces : nonceLog[m] \subseteq Times
    BY NonceFacts
  <2> QED BY <2>1
<1>4. kept \in [Nonces -> Times \cup {Never}] /\ last \in 0..now \cup {Never}
      /\ nonceLog \in [Nonces -> SUBSET Times]
  <2>1. kept = [m \in Nonces |-> kept[m]]
    BY DEF Cleaned, NonceInv, NonceTypes
  <2>2. \A m \in Nonces : kept[m] \in Times \cup {Never}
    BY <1>2 DEF StoredAt
  <2>3. last \in 0..now \cup {Never} /\ nonceLog \in [Nonces -> SUBSET Times]
    BY <1>3 DEF NonceInv, NonceTypes
  <2> HIDE DEF kept, last
  <2> QED BY <2>1, <2>2, <2>3
<1>5. last # Never \/ \A m \in Nonces : kept[m] = Never
  BY <1>2 DEF StoredAt
<1>6. CleanupIsDue \/ lastCleanup # Never
  BY DEF CleanupIsDue
<1>7. last # Never /\ now + Expiry >= last
  <2>1. last # Never
    BY <1>3, <1>6
  <2> HIDE DEF last
  <2> QED BY <2>1, <1>3, <1>4
<1>8. \A m \in Nonces :
        /\ nonces'[m] = (IF fresh /\ m = n THEN now ELSE kept[m])
        /\ nonceLog'[m] = (IF fresh /\ m = n THEN nonceLog[m] \cup {now} ELSE nonceLog[m])
  <2> HIDE DEF kept
  <2> QED BY <1>1, <1>4
<1>9. NonceTypes'
  <2>1. nonces' \in [Nonces -> Times \cup {Never}] /\ nonceLog' \in [Nonces -> SUBSET Times]
    <3> HIDE DEF kept
    <3> QED BY <1>1, <1>4
  <2> QED BY <2>1, <1>1, <1>4 DEF NonceTypes
<1>10. ASSUME NEW m \in Nonces PROVE NonceAt(m)'
  <2>1. StoredAt(m, kept, last)
    BY <1>2
  <2>2. CASE fresh /\ m = n
    <3>1. nonces'[m] = now /\ \A t \in nonceLog'[m] : t <= now
      BY <2>1, <2>2, <1>3, <1>8 DEF StoredAt
    <3> HIDE DEF last
    <3> QED BY <3>1, <1>1, <1>3, <1>7 DEF NonceAt
  <2>3. CASE ~(fresh /\ m = n)
    <3> HIDE DEF kept, last
    <3> QED BY <2>1, <2>3, <1>1, <1>8 DEF StoredAt, NonceAt
  <2> QED BY <2>2, <2>3
<1>11. ASSUME NEW m \in Nonces, NEW t \in nonceLog'[m], NEW u \in nonceLog'[m], t < u
       PROVE  u - t > Expiry
  <2>1. CASE fresh /\ m = n
    <3>1. \A v \in nonceLog[m] : v \in Nat /\ v <= now /\ v + Expiry < now
      BY <2>1, <1>2, <1>3 DEF StoredAt
    <3>2. nonceLog'[m] = nonceLog[m] \cup {now}
      BY <2>1, <1>8
    <3>3. CASE t \in nonceLog[m] /\ u \in nonceLog[m]
      BY <3>3, <1>11 DEF NonceInv, NoReplayWithinExpiry
    <3>4. CASE t \in nonceLog[m] /\ u = now
      BY <3>1, <3>4, <1>3
    <3>5. CASE t = now
      BY <3>1, <3>2, <3>5, <1>3, <1>11
    <3> QED BY <3>2, <3>3, <3>4, <3>5
  <2>2. CASE ~(fresh /\ m = n)
    BY <2>2, <1>8, <1>11 DEF NonceInv, NoReplayWithinExpiry
  <2> QED BY <2>1, <2>2
<1>12. NonceInv'
  BY <1>9, <1>10, <1>11 DEF NonceInv, NoReplayWithinExpiry
<1>13. ASSUME NEW m \in Nonces, nonces'[m] # Never
       PROVE  now - nonces'[m] < Expiry + CleanupEvery \/ now - nonces'[m] <= Expiry
  <2>1. CASE fresh /\ m = n
    BY <2>1, <1>3, <1>8
  <2>2. CASE ~(fresh /\ m = n)
    <3>1. nonces'[m] = kept[m]
      BY <2>2, <1>8
    <3> HIDE DEF kept
    <3> QED BY <3>1, <1>2, <1>13
  <2> QED BY <2>1, <2>2
<1> QED BY <1>12, <1>13

LEMMA ThrottleInit == InitThrottles => ThrottleInv
<1> SUFFICES ASSUME InitThrottles PROVE ThrottleInv
  OBVIOUS
<1>1. /\ now = 0 /\ now \in Times /\ MaxRequests \in Nat /\ WindowTicks \in Nat \ {0} /\ Rate \in Nat
      /\ MaxTokens * Unit \in Nat /\ Times \subseteq Nat
  BY ThrottleAssumption DEF InitThrottles, Times
<1>2. \A s \in Spans : s[1] = 0 /\ s[2] = 0 /\ 0 \in 0..now
  BY <1>1 DEF Spans
<1>3. Admitted(NoLog, 0, 0) = 0
  BY <1>1 DEF Admitted, NoLog
<1>4. EntryTypes
  <2>1. NoEntry \in [count : 0..MaxRequests, start : Times \cup {Never}] /\ NoLog \in [Times -> Nat]
    BY <1>1 DEF NoEntry, NoLog
  <2> HIDE DEF NoEntry, NoLog
  <2> QED BY <2>1 DEF InitThrottles, EntryTypes
<1>5. BucketTypes
  <2>1. NoBucket \in [tokens : 0..MaxTokens * Unit, last : Times \cup {Never}] /\ NoLog \in [Times -> Nat]
    BY <1>1 DEF NoBucket, NoLog
  <2> HIDE DEF NoBucket, NoLog
  <2> QED BY <2>1 DEF InitThrottles, BucketTypes
<1>6. UntilNow(NoLog)
  BY <1>1 DEF UntilNow, NoLog
<1>7. \A k \in TKeys : WindowAt(k)
  <2>1. \A a \in 0..now : a = 0
    BY <1>1
  <2> QED BY <2>1, <1>1, <1>3, <1>6 DEF InitThrottles, WindowAt, NoEntry
<1>8. \A k \in TKeys : BucketAt(k)
  <2>1. \A a \in 0..now : a = 0
    BY <1>1
  <2> QED BY <2>1, <1>1, <1>3, <1>6 DEF InitThrottles, BucketAt, NoBucket
<1>9. PastWindows /\ PastBuckets
  <2>1. \A s \in Spans : ~(s[2] < now)
    BY <1>1, <1>2
  <2> QED BY <2>1 DEF PastWindows, PastBuckets
<1>10. WindowInv /\ BucketInv
  BY <1>1, <1>4, <1>5, <1>7, <1>8, <1>9, WindowBurstNow, BucketBurstNow DEF WindowInv, BucketInv, Windows, Buckets
<1>11. NonceInv
  BY <1>1 DEF InitThrottles, NonceInv, NonceTypes, NonceAt, NoReplayWithinExpiry
<1> QED BY <1>1, <1>10, <1>11 DEF ThrottleInv

LEMMA ThrottleStep == ThrottleInv /\ [NextThrottles]_throttleVars => ThrottleInv'
<1> SUFFICES ASSUME ThrottleInv, [NextThrottles]_throttleVars PROVE ThrottleInv'
  OBVIOUS
<1>1. now \in Times /\ WindowInv /\ BucketInv /\ NonceInv
  BY DEF ThrottleInv
<1>2. CASE Tick
  <2>1. now' \in Times
    BY <1>1, <1>2, ThrottleAssumption DEF Tick, Times
  <2> QED BY <1>1, <1>2, <2>1, WindowTick, BucketTick, NonceTick DEF ThrottleInv
<1>3. ASSUME NEW k \in TKeys, AllowRequest(k) PROVE ThrottleInv'
  <2>1. UNCHANGED <<now, buckets, bucketLog, nonces, lastCleanup, nonceLog>>
    BY <1>3 DEF AllowRequest
  <2> QED BY <1>1, <1>3, <2>1, WindowAllow, BucketStays, NonceStays DEF ThrottleInv
<1>4. ASSUME NEW k \in TKeys, TryAcquire(k) PROVE ThrottleInv'
  <2>1. UNCHANGED <<now, entries, windowLog, nonces, lastCleanup, nonceLog>>
    BY <1>4 DEF TryAcquire
  <2> QED BY <1>1, <1>4, <2>1, BucketAcquire, WindowStays, NonceStays DEF ThrottleInv
<1>5. ASSUME NEW k \in TKeys, ResetBucket(k) PROVE ThrottleInv'
  <2>1. UNCHANGED <<now, entries, windowLog, nonces, lastCleanup, nonceLog>>
    BY <1>5 DEF ResetBucket
  <2> QED BY <1>1, <1>5, <2>1, BucketReset, WindowStays, NonceStays DEF ThrottleInv
<1>6. ASSUME NEW n \in Nonces, CheckAndStore(n) PROVE ThrottleInv'
  <2>1. UNCHANGED <<now, entries, windowLog, buckets, bucketLog>>
    BY <1>6 DEF CheckAndStore
  <2> QED BY <1>1, <1>6, <2>1, NonceCheck, WindowStays, BucketStays DEF ThrottleInv
<1>7. CASE CleanupNonces
  <2>1. UNCHANGED <<now, entries, windowLog, buckets, bucketLog>>
    BY <1>7 DEF CleanupNonces
  <2> QED BY <1>1, <1>7, <2>1, NonceClean, WindowStays, BucketStays DEF ThrottleInv
<1>8. CASE UNCHANGED throttleVars
  BY <1>1, <1>8, WindowStays, BucketStays, NonceStays DEF ThrottleInv, throttleVars
<1> QED BY <1>2, <1>3, <1>4, <1>5, <1>6, <1>7, <1>8 DEF NextThrottles, NextWindow, NextBucket, NextNonce

(* For every clock, key, rate and size: the counters keep their bounds, no *)
(* span of time admits more than the windows it touches or the bucket and  *)
(* its refill allow, an accepted nonce is not accepted again before its    *)
(* expiry, and a check leaves no nonce that is older than its expiry and   *)
(* one cleanup interval.                                                   *)
THEOREM ThrottlesKeepTheirLimits == SpecThrottles => LimitsHold
<1> DEFINE Expiring == nonceLog' # nonceLog =>
               \A n \in Nonces : nonces'[n] # Never => now - nonces'[n] < Expiry + CleanupEvery
                                                     \/ now - nonces'[n] <= Expiry
<1>1. ThrottleInv => TypeOKThrottles /\ WindowBurst /\ BucketBurst /\ NoReplayWithinExpiry
  <2>1. ThrottleInv => /\ \A k \in TKeys : entries[k].count \in 0..MaxRequests
                       /\ \A k \in TKeys : buckets[k].tokens \in 0..MaxTokens * Unit
                       /\ lastCleanup \in 0..now \cup {Never}
    BY DEF ThrottleInv, WindowInv, Windows, EntryTypes, BucketInv, Buckets, BucketTypes, NonceInv, NonceTypes
  <2> QED BY <2>1 DEF ThrottleInv, WindowInv, BucketInv, NonceInv, TypeOKThrottles
<1>2. ThrottleInv /\ [NextThrottles]_throttleVars => [Expiring]_throttleVars
  <2> SUFFICES ASSUME ThrottleInv, NextThrottles PROVE Expiring
    BY DEF throttleVars
  <2>1. now \in Times /\ NonceInv
    BY DEF ThrottleInv
  <2>2. ASSUME NEW n \in Nonces, CheckAndStore(n) PROVE Expiring
    BY <2>1, <2>2, NonceCheck
  <2>3. ASSUME ~\E n \in Nonces : CheckAndStore(n) PROVE nonceLog' = nonceLog
    BY <2>3 DEF NextThrottles, NextWindow, NextBucket, NextNonce, Tick, AllowRequest, TryAcquire, ResetBucket, CleanupNonces
  <2> QED BY <2>2, <2>3
<1>3. SpecThrottles => []ThrottleInv
  BY ThrottleInit, ThrottleStep, PTL DEF SpecThrottles
<1>4. SpecThrottles => [][Expiring]_throttleVars
  BY <1>2, <1>3, PTL DEF SpecThrottles
<1>5. SpecThrottles => [](TypeOKThrottles /\ WindowBurst /\ BucketBurst /\ NoReplayWithinExpiry)
  BY <1>1, <1>3, PTL
<1> QED BY <1>4, <1>5, PTL DEF LimitsHold, NoncesExpire

(***************************************************************************)
(* Credentials                                                             *)
(***************************************************************************)
Idents == CredNames \cup Mails
Hashes == [of : CPasswords \cup {"not argon2id"}]
CredTenants == CTenants \cup {NoValue}
CredRows == [hash : Hashes, tenant : CredTenants, email : Mails \cup {NoValue}]
CredTables == [CredNames -> CredRows \cup {NoCred}]
EmailsDiffer(table) ==
    \A u, v \in CredNames : table[u].email = table[v].email /\ table[u].email # NoValue => u = v

Setters == [step : {"find", "create", "update"}, name : CredNames, pw : CPasswords, tenant : CredTenants,
            email : Mails \cup {NoValue}]
SetAnswered == [step : {"answered"}, ok : BOOLEAN]
Signers == [step : {"read", "byEmail", "again", "tenant"}, ident : Idents, pw : CPasswords, mail : BOOLEAN,
            user : Idents]
SignedInAs == [step : {"done"}, user : CredNames, tenant : CredTenants \cup {SystemTenant}, pw : CPasswords,
             ident : Idents]
Notes == [password : BOOLEAN, known : BOOLEAN, tenants : SUBSET CredTenants]

CredTypes ==
    /\ creds \in CredTables /\ EmailsDiffer(creds)
    /\ setter \in {Resting} \cup SetAnswered \cup Setters
    /\ signer \in {Resting} \cup Signers \cup SignedInAs
    /\ heldBy \in [CredNames -> Notes]
    /\ credWrites \in 0..MaxCredWrites

(* While a sign-in is on its way, what a row says now has been noted.      *)
RowNoted(u, row, call, note) ==
    row # NoCred =>
        /\ VerifyPassword(call.pw, row.hash) => note.password = TRUE
        /\ call.ident \in {u, row.email} => note.known = TRUE
        /\ row.tenant \in note.tenants

(* What a sign-in has found out so far was true at some moment of it.      *)
SignInv ==
    /\ signer \in Signers => \A u \in CredNames : RowNoted(u, creds[u], signer, heldBy[u])
    /\ signer \in Signers /\ signer.step \in {"again", "tenant"} =>
          signer.user \in CredNames /\ heldBy[signer.user].known = TRUE
    /\ signer \in Signers /\ signer.step = "tenant" => heldBy[signer.user].password = TRUE
    /\ signer \in SignedInAs =>
          /\ heldBy[signer.user].password = TRUE /\ heldBy[signer.user].known = TRUE
          /\ signer.tenant \in heldBy[signer.user].tenants \cup {SystemTenant}

CredInv == CredTypes /\ SignInv /\ SetMeansStored

LEMMA StepsDiffer ==
    /\ \A c \in Signers : c # Resting /\ c.step \notin {"rest", "done"} /\ c \notin SignedInAs
    /\ \A c \in SignedInAs : c # Resting /\ c.step = "done"
    /\ \A c \in Setters \cup SetAnswered : c # Resting
    /\ Resting.step = "rest"
  BY DEF Signers, SignedInAs, Setters, SetAnswered, Resting

LEMMA NoCredIsOutside == NoCred \notin CredRows /\ NoHash \notin Hashes
<1>1. NoHash \notin Hashes
  <2>1. NoHash.of \notin CPasswords \cup {"not argon2id"}
    BY CredentialAssumption DEF NoHash, NoValue
  <2> QED BY <2>1 DEF Hashes
<1> QED BY <1>1 DEF CredRows, NoCred

LEMMA CredInit == InitCredentials => CredInv
<1> SUFFICES ASSUME InitCredentials PROVE CredInv
  OBVIOUS
<1>1. creds \in CredTables
  <2>1. [hash |-> OldHash, tenant |-> NoValue, email |-> NoValue] \in CredRows
    <3>1. OldHash \in Hashes
      BY DEF Hashes, OldHash
    <3> QED BY <3>1 DEF CredRows, CredTenants
  <2> QED BY <2>1 DEF InitCredentials, CredTables
<1>2. EmailsDiffer(creds)
  BY DEF InitCredentials, EmailsDiffer, NoCred
<1>3. heldBy \in [CredNames -> Notes]
  BY DEF InitCredentials, Unheld, Notes
<1>4. setter = Resting /\ signer = Resting /\ credWrites \in 0..MaxCredWrites
  BY CredentialAssumption DEF InitCredentials
<1>5. SetMeansStored
  BY <1>4 DEF SetMeansStored, Resting
<1>6. SignInv
  BY <1>4, StepsDiffer DEF SignInv
<1> QED BY <1>1, <1>2, <1>3, <1>4, <1>5, <1>6 DEF CredInv, CredTypes

(***************************************************************************)
(* Writes of the table                                                     *)
(***************************************************************************)
LEMMA NotedTypes ==
    ASSUME NEW old \in [CredNames -> Notes], NEW table \in CredTables, NEW call \in Signers
    PROVE  /\ Noted(old, table, call) \in [CredNames -> Notes]
           /\ \A u \in CredNames :
                 /\ RowNoted(u, table[u], call, Noted(old, table, call)[u])
                 /\ old[u].password = TRUE => Noted(old, table, call)[u].password = TRUE
                 /\ old[u].known = TRUE => Noted(old, table, call)[u].known = TRUE
                 /\ old[u].tenants \subseteq Noted(old, table, call)[u].tenants
<1> SUFFICES ASSUME NEW u \in CredNames
             PROVE  /\ Noted(old, table, call)[u] \in Notes
                    /\ RowNoted(u, table[u], call, Noted(old, table, call)[u])
                    /\ old[u].password = TRUE => Noted(old, table, call)[u].password = TRUE
                    /\ old[u].known = TRUE => Noted(old, table, call)[u].known = TRUE
                    /\ old[u].tenants \subseteq Noted(old, table, call)[u].tenants
  BY DEF Noted
<1> DEFINE note == Noted(old, table, call)[u]
<1>1. old[u] \in Notes
  OBVIOUS
<1>2. CASE table[u] = NoCred
  <2>1. note = old[u]
    BY <1>2 DEF Noted
  <2> QED BY <1>1, <1>2, <2>1 DEF RowNoted
<1>3. CASE table[u] # NoCred
  <2> DEFINE pass == old[u].password \/ VerifyPassword(call.pw, table[u].hash)
             know == old[u].known \/ call.ident \in {u, table[u].email}
             tens == old[u].tenants \cup {table[u].tenant}
  <2>1. note = [password |-> pass, known |-> know, tenants |-> tens]
    BY <1>3 DEF Noted
  <2>2. table[u] \in CredRows
    BY <1>3 DEF CredTables
  <2>3. tens \in SUBSET CredTenants
    BY <1>1, <2>2 DEF Notes, CredRows
  <2>4. pass \in BOOLEAN /\ know \in BOOLEAN
    BY <1>1 DEF Notes, VerifyPassword
  <2>5. /\ VerifyPassword(call.pw, table[u].hash) => pass = TRUE
        /\ call.ident \in {u, table[u].email} => know = TRUE
        /\ old[u].password = TRUE => pass = TRUE
        /\ old[u].known = TRUE => know = TRUE
    OBVIOUS
  <2>6. table[u].tenant \in tens /\ old[u].tenants \subseteq tens
    OBVIOUS
  <2> HIDE DEF pass, know, tens
  <2>7. note.password = pass /\ note.known = know /\ note.tenants = tens /\ note \in Notes
    BY <2>1, <2>3, <2>4 DEF Notes
  <2> HIDE DEF note
  <2>8. RowNoted(u, table[u], call, note)
    BY <2>5, <2>6, <2>7 DEF RowNoted
  <2> QED BY <2>5, <2>6, <2>7, <2>8 DEF note
<1> QED BY <1>2, <1>3

LEMMA Became ==
    ASSUME CredInv, NEW table \in CredTables, EmailsDiffer(table), Becomes(table), UNCHANGED signer
    PROVE  creds' \in CredTables /\ EmailsDiffer(creds') /\ heldBy' \in [CredNames -> Notes] /\ SignInv'
<1>1. creds' = table /\ heldBy \in [CredNames -> Notes]
  BY DEF Becomes, CredInv, CredTypes
<1>2. CASE signer \in Signers
  <2>1. heldBy' = Noted(heldBy, table, signer)
    BY <1>2, StepsDiffer DEF Becomes
  <2>2. heldBy' \in [CredNames -> Notes]
    BY <1>1, <1>2, <2>1, NotedTypes
  <2>3. ASSUME NEW u \in CredNames
        PROVE  /\ RowNoted(u, creds'[u], signer', heldBy'[u])
               /\ heldBy[u].password = TRUE => heldBy'[u].password = TRUE
               /\ heldBy[u].known = TRUE => heldBy'[u].known = TRUE
    BY <1>1, <1>2, <2>1, NotedTypes
  <2>4. signer' \in Signers /\ signer' \notin SignedInAs /\ signer' = signer
    BY <1>2, StepsDiffer
  <2>5. signer.step = "tenant" => signer.user \in CredNames
    BY <1>2 DEF CredInv, SignInv
  <2> QED BY <1>1, <1>2, <2>2, <2>3, <2>4, <2>5 DEF CredInv, SignInv
<1>3. CASE signer \notin Signers
  <2>1. signer.step \in {"rest", "done"}
    BY <1>3, StepsDiffer DEF CredInv, CredTypes
  <2>2. heldBy' = heldBy
    BY <2>1 DEF Becomes
  <2> QED BY <1>1, <1>3, <2>2 DEF CredInv, SignInv
<1> QED BY <1>2, <1>3

(* Nothing is written, and no sign-in goes on.                             *)
LEMMA SignStays == ASSUME CredInv, UNCHANGED <<creds, signer, heldBy>>
                   PROVE  SignInv' /\ creds' \in CredTables /\ EmailsDiffer(creds') /\ heldBy' \in [CredNames -> Notes]
  BY DEF CredInv, CredTypes, SignInv

LEMMA SettersMove ==
    ASSUME NEW c \in Setters, NEW step \in {"find", "create", "update"}
    PROVE  [c EXCEPT !.step = step] \in Setters /\ [c EXCEPT !.step = step].step = step
  BY DEF Setters

(***************************************************************************)
(* setCredential and deleteCredential                                      *)
(***************************************************************************)
LEMMA WriteCounts == ASSUME CredInv, credWrites < MaxCredWrites, credWrites' = credWrites + 1
                     PROVE  credWrites' \in 0..MaxCredWrites
  BY CredentialAssumption DEF CredInv, CredTypes

LEMMA SetBegun ==
    ASSUME CredInv, NEW u \in CredNames \cup {Weak}, NEW pw \in CPasswords \cup {Weak}, NEW t \in CTenants \cup {NoValue},
           NEW e \in Mails \cup {NoValue}, NEW hashes \in BOOLEAN, SetCredential(u, pw, t, e, hashes)
    PROVE  CredInv'
<1>1. UNCHANGED <<creds, signer, heldBy>> /\ credWrites' \in 0..MaxCredWrites
  BY WriteCounts DEF SetCredential
<1>2. setter' \in SetAnswered \cup Setters /\ SetMeansStored'
  <2>1. CASE setter' = [step |-> "answered", ok |-> FALSE]
    BY <2>1 DEF SetAnswered, SetMeansStored
  <2>2. CASE u # Weak /\ pw # Weak /\ setter' = [step |-> "find", name |-> u, pw |-> pw, tenant |-> t, email |-> e]
    BY <2>2 DEF Setters, SetMeansStored, CredTenants
  <2> QED BY <2>1, <2>2 DEF SetCredential
<1> QED BY <1>1, <1>2, SignStays DEF CredInv, CredTypes

LEMMA UpsertFound == ASSUME CredInv, NEW fails \in BOOLEAN, UpsertFind(fails) PROVE CredInv'
<1>1. setter \in Setters
  BY DEF UpsertFind, CredInv, CredTypes, Resting, SetAnswered
<1>2. PICK step \in {"create", "update"} : setter' = [setter EXCEPT !.step = step]
  BY DEF UpsertFind
<1>3. setter' \in Setters /\ setter'.step # "answered"
  BY <1>1, <1>2, SettersMove
<1>4. UNCHANGED <<creds, signer, heldBy, credWrites>>
  BY DEF UpsertFind
<1> QED BY <1>3, <1>4, SignStays DEF CredInv, CredTypes, SetMeansStored

(* What both ends of an upsert leave.                                      *)
LEMMA CredAnswered ==
    ASSUME CredInv, NEW ok \in BOOLEAN, SetAnswers(ok), ok => stored' = TRUE,
           SignInv', creds' \in CredTables, EmailsDiffer(creds'), heldBy' \in [CredNames -> Notes],
           UNCHANGED <<signer, credWrites>>
    PROVE  CredInv'
<1>1. setter' \in SetAnswered /\ SetMeansStored'
  BY DEF SetAnswers, SetAnswered, SetMeansStored
<1> QED BY <1>1 DEF CredInv, CredTypes

LEMMA SetCreated == ASSUME CredInv, NEW told \in BOOLEAN, UpsertCreate(told) PROVE CredInv' /\ (creds' # creds => creds[setter.name] = NoCred)
<1> DEFINE u == setter.name
           row == [hash |-> HashPassword(setter.pw), tenant |-> setter.tenant, email |-> setter.email]
           table == [creds EXCEPT ![u] = row]
<1>1. setter \in Setters /\ UNCHANGED <<signer, credWrites>>
  BY DEF UpsertCreate, CredInv, CredTypes, Resting, SetAnswered
<1>2. CASE SetAnswers(FALSE) /\ UNCHANGED <<creds, heldBy, stored>>
  BY <1>1, <1>2, SignStays, CredAnswered
<1>3. CASE ~Conflicts(u, setter.email) /\ Becomes(table) /\ stored' = TRUE /\ SetAnswers(told)
  <2>1. u \in CredNames /\ row \in CredRows /\ row.email = setter.email
    BY <1>1 DEF Setters, CredRows, Hashes, HashPassword
  <2> HIDE DEF row
  <2>2. table \in CredTables
    BY <2>1 DEF CredInv, CredTypes, CredTables
  <2>3. table[u] = row /\ \A v \in CredNames \ {u} : table[v] = creds[v]
    BY <2>1 DEF CredInv, CredTypes, CredTables
  <2>4. creds[u] = NoCred /\ (setter.email # NoValue => \A v \in CredNames : creds[v].email # setter.email)
    BY <1>3 DEF Conflicts
  <2> HIDE DEF table, u
  <2>5. EmailsDiffer(table)
    BY <2>1, <2>3, <2>4 DEF EmailsDiffer, CredInv, CredTypes
  <2>6. CredInv'
    BY <1>1, <1>3, <2>2, <2>5, Became, CredAnswered
  <2> QED BY <2>4, <2>6 DEF u
<1> QED BY <1>2, <1>3 DEF UpsertCreate

LEMMA SetUpdated ==
    ASSUME CredInv, NEW told \in BOOLEAN, UpsertUpdate(told)
    PROVE  /\ CredInv'
           /\ \A u \in CredNames : creds'[u].tenant = creds[u].tenant /\ creds'[u].email = creds[u].email
<1> DEFINE u == setter.name
           row == UpdateData(creds[u])
           table == [creds EXCEPT ![u] = row]
<1>1. setter \in Setters /\ UNCHANGED <<signer, credWrites>>
  BY DEF UpsertUpdate, CredInv, CredTypes, Resting, SetAnswered
<1>2. CASE SetAnswers(FALSE) /\ UNCHANGED <<creds, heldBy, stored>>
  BY <1>1, <1>2, SignStays, CredAnswered
<1>3. CASE creds[u] # NoCred /\ Becomes(table) /\ stored' = TRUE /\ SetAnswers(told)
  <2>1. u \in CredNames /\ setter.pw \in CPasswords
    BY <1>1 DEF Setters
  <2>2. creds[u] \in CredRows
    BY <1>3, <2>1 DEF CredInv, CredTypes, CredTables
  <2>3. row \in CredRows /\ row.tenant = creds[u].tenant /\ row.email = creds[u].email
    BY <2>1, <2>2 DEF CredRows, Hashes, HashPassword, UpdateData
  <2> HIDE DEF row
  <2>4. table \in CredTables
    BY <2>1, <2>3 DEF CredInv, CredTypes, CredTables
  <2>5. table[u] = row /\ \A v \in CredNames \ {u} : table[v] = creds[v]
    BY <2>1 DEF CredInv, CredTypes, CredTables
  <2> HIDE DEF table, u
  <2>6. EmailsDiffer(table)
    BY <2>1, <2>3, <2>5 DEF EmailsDiffer, CredInv, CredTypes
  <2>7. CredInv' /\ creds' = table
    BY <1>1, <1>3, <2>4, <2>6, Became, CredAnswered DEF Becomes
  <2> QED BY <2>3, <2>5, <2>7
<1> QED BY <1>2, <1>3 DEF UpsertUpdate

LEMMA SetRefused == ASSUME CredInv, UpsertFails PROVE CredInv' /\ creds' = creds
  BY SignStays, CredAnswered DEF UpsertFails, CredInv, CredTypes

LEMMA CredDeleted ==
    ASSUME CredInv, NEW u \in CredNames, deleteCredential(u)
    PROVE  CredInv' /\ creds' = [creds EXCEPT ![u] = NoCred]
<1> DEFINE table == [creds EXCEPT ![u] = NoCred]
<1>1. Becomes(table) /\ UNCHANGED <<setter, signer, stored>> /\ credWrites' \in 0..MaxCredWrites /\ creds' = table
  BY WriteCounts DEF deleteCredential, Becomes
<1>2. table \in CredTables
  BY DEF CredInv, CredTypes, CredTables
<1>3. table[u].email = NoValue /\ \A v \in CredNames \ {u} : table[v] = creds[v]
  BY DEF CredInv, CredTypes, CredTables, NoCred
<1> HIDE DEF table
<1>4. EmailsDiffer(table)
  BY <1>3 DEF EmailsDiffer, CredInv, CredTypes
<1>5. CredInv'
  BY <1>1, <1>2, <1>4, Became DEF CredInv, CredTypes, SetMeansStored
<1> QED BY <1>1, <1>5 DEF table

(***************************************************************************)
(* Sign-ins                                                                *)
(***************************************************************************)
(* A sign-in that goes on keeps what was noted of it; one that is turned   *)
(* away is forgotten.                                                      *)
LEMMA Said ==
    ASSUME CredInv, NEW next, Say(next), next = Resting \/ next \in Signers \cup SignedInAs,
           next \in Signers => /\ \A u \in CredNames : RowNoted(u, creds[u], next, heldBy[u])
                               /\ next.step \in {"again", "tenant"} =>
                                     next.user \in CredNames /\ heldBy[next.user].known = TRUE
                               /\ next.step = "tenant" => heldBy[next.user].password = TRUE,
           next \in SignedInAs => /\ heldBy[next.user].password = TRUE /\ heldBy[next.user].known = TRUE
                                /\ next.tenant \in heldBy[next.user].tenants \cup {SystemTenant}
    PROVE  CredInv'
<1>1. /\ signer' = next /\ UNCHANGED <<creds, setter, stored, credWrites>>
      /\ heldBy' = IF next = Resting THEN Unheld ELSE heldBy
  BY DEF Say, TurnedAway
<1>2. Unheld \in [CredNames -> Notes]
  BY DEF Unheld, Notes
<1>3. heldBy' \in [CredNames -> Notes]
  BY <1>1, <1>2 DEF CredInv, CredTypes
<1>4. next # Resting => heldBy' = heldBy
  BY <1>1
<1>5. SignInv'
  BY <1>1, <1>4, StepsDiffer DEF SignInv
<1> QED BY <1>1, <1>3, <1>5 DEF CredInv, CredTypes, SetMeansStored

(* A row that is compared with the password is one that was noted.         *)
LEMMA Verified ==
    ASSUME CredInv, signer \in Signers, NEW u \in CredNames, creds[u] # NoCred,
           u = signer.ident \/ heldBy[u].known = TRUE, Say(VerifiedAs(u))
    PROVE  CredInv'
<1>1. RowNoted(u, creds[u], signer, heldBy[u]) /\ u \in Idents
  BY DEF CredInv, SignInv, Idents
<1>2. CASE VerifyPassword(signer.pw, creds[u].hash)
  <2> DEFINE next == [signer EXCEPT !.step = "tenant", !.user = u]
  <2>1. next \in Signers /\ next.step = "tenant" /\ next.user = u /\ next.ident = signer.ident /\ next.pw = signer.pw
    BY <1>1 DEF Signers
  <2>2. Say(next)
    BY <1>2 DEF VerifiedAs
  <2>3. heldBy[u].password = TRUE /\ heldBy[u].known = TRUE
    BY <1>1, <1>2 DEF RowNoted
  <2> HIDE DEF next
  <2>4. \A v \in CredNames : RowNoted(v, creds[v], next, heldBy[v])
    BY <2>1 DEF RowNoted, CredInv, SignInv
  <2> QED BY <2>1, <2>2, <2>3, <2>4, Said, StepsDiffer
<1>3. CASE ~VerifyPassword(signer.pw, creds[u].hash)
  BY <1>3, Said, StepsDiffer DEF VerifiedAs, TurnedAway
<1> QED BY <1>2, <1>3

LEMMA Signing == ASSUME CredInv, signer.step \in {"read", "byEmail", "again", "tenant"} PROVE signer \in Signers
  BY DEF CredInv, CredTypes, Resting, SignedInAs

LEMMA AwayIsFine == ASSUME CredInv, Say(TurnedAway) PROVE CredInv'
  BY Said, StepsDiffer DEF TurnedAway

LEMMA SignBegun ==
    ASSUME CredInv, NEW ident \in Idents, NEW pw \in CPasswords, NEW mailToo \in BOOLEAN, BeginSignIn(ident, pw, mailToo)
    PROVE  CredInv'
<1> DEFINE call == [step |-> "read", ident |-> ident, pw |-> pw, mail |-> mailToo, user |-> ident]
<1>1. signer' = call /\ heldBy' = Noted(Unheld, creds, call) /\ UNCHANGED <<creds, setter, stored, credWrites>>
  BY DEF BeginSignIn
<1>2. call \in Signers /\ call.step = "read"
  BY DEF Signers
<1> HIDE DEF call
<1>3. Unheld \in [CredNames -> Notes] /\ creds \in CredTables
  BY DEF Unheld, Notes, CredInv, CredTypes
<1>4. heldBy' \in [CredNames -> Notes] /\ \A u \in CredNames : RowNoted(u, creds[u], call, heldBy'[u])
  BY <1>1, <1>2, <1>3, NotedTypes
<1>5. SignInv'
  BY <1>1, <1>2, <1>4, StepsDiffer DEF SignInv
<1> QED BY <1>1, <1>2, <1>4, <1>5 DEF CredInv, CredTypes, SetMeansStored

LEMMA SignStep ==
    ASSUME CredInv, NEW fails \in BOOLEAN,
           \/ verifyCredential(fails) \/ verifyCredentialIdentifier(fails) \/ FindByEmail(fails)
           \/ ReadAgain(fails) \/ getCredentialTenantId(fails)
    PROVE  CredInv'
<1>1. CASE verifyCredential(fails)
  <2>1. signer \in Signers
    BY <1>1, Signing DEF verifyCredential
  <2>2. CASE signer.ident \in CredNames /\ creds[signer.ident] # NoCred /\ Say(VerifiedAs(signer.ident))
    BY <2>1, <2>2, Verified
  <2> QED BY <1>1, <2>2, AwayIsFine DEF verifyCredential
<1>2. CASE verifyCredentialIdentifier(fails)
  <2>1. signer \in Signers
    BY <1>2, Signing DEF verifyCredentialIdentifier
  <2>2. CASE signer.ident \in CredNames /\ creds[signer.ident] # NoCred /\ Say(VerifiedAs(signer.ident))
    BY <2>1, <2>2, Verified
  <2>3. CASE Say([signer EXCEPT !.step = "byEmail"])
    <3> DEFINE next == [signer EXCEPT !.step = "byEmail"]
    <3>1. next \in Signers /\ next.step = "byEmail" /\ next.ident = signer.ident /\ next.pw = signer.pw
      BY <2>1 DEF Signers
    <3> HIDE DEF next
    <3>2. \A v \in CredNames : RowNoted(v, creds[v], next, heldBy[v])
      BY <2>1, <3>1 DEF RowNoted, CredInv, SignInv
    <3> QED BY <2>3, <3>1, <3>2, Said, StepsDiffer DEF next
  <2> QED BY <1>2, <2>2, <2>3 DEF verifyCredentialIdentifier
<1>3. CASE FindByEmail(fails)
  <2>1. signer \in Signers
    BY <1>3, Signing DEF FindByEmail
  <2>2. ASSUME NEW u \in CredNames, creds[u] # NoCred, creds[u].email = signer.ident,
               Say([signer EXCEPT !.step = "again", !.user = u])
        PROVE  CredInv'
    <3> DEFINE next == [signer EXCEPT !.step = "again", !.user = u]
    <3>1. next \in Signers /\ next.step = "again" /\ next.user = u /\ next.ident = signer.ident /\ next.pw = signer.pw
      BY <2>1 DEF Signers, Idents
    <3> HIDE DEF next
    <3>2. \A v \in CredNames : RowNoted(v, creds[v], next, heldBy[v])
      BY <2>1, <3>1 DEF RowNoted, CredInv, SignInv
    <3>3. heldBy[u].known = TRUE
      BY <2>1, <2>2 DEF RowNoted, CredInv, SignInv
    <3> QED BY <2>2, <3>1, <3>2, <3>3, Said, StepsDiffer DEF next
  <2> QED BY <1>3, <2>2, AwayIsFine DEF FindByEmail
<1>4. CASE ReadAgain(fails)
  <2>1. signer \in Signers /\ signer.step = "again"
    BY <1>4, Signing DEF ReadAgain
  <2>2. signer.user \in CredNames /\ heldBy[signer.user].known = TRUE
    BY <2>1 DEF CredInv, SignInv
  <2> QED BY <1>4, <2>1, <2>2, Verified, AwayIsFine DEF ReadAgain
<1>5. CASE getCredentialTenantId(fails)
  <2> DEFINE u == signer.user
             t == IF fails \/ Exposed(creds[u]).tenant = NoValue THEN SystemTenant ELSE Exposed(creds[u]).tenant
  <2>1. signer \in Signers /\ signer.step = "tenant" /\ Say(Done(u, t))
    BY <1>5, Signing DEF getCredentialTenantId
  <2>2. u \in CredNames /\ heldBy[u].known = TRUE /\ heldBy[u].password = TRUE
    BY <2>1 DEF CredInv, SignInv
  <2>3. t \in (heldBy[u].tenants \cap CredTenants) \cup {SystemTenant}
    <3>1. Exposed(creds[u]).tenant = creds[u].tenant
      BY <2>2 DEF Exposed, CredInv, CredTypes, CredTables, CredRows, NoCred
    <3>2. CASE creds[u] = NoCred
      BY <3>1, <3>2 DEF NoCred
    <3>3. CASE creds[u] # NoCred
      <4>1. creds[u].tenant \in heldBy[u].tenants /\ heldBy[u].tenants \subseteq CredTenants
        BY <2>1, <2>2, <3>3 DEF RowNoted, CredInv, SignInv, CredTypes, Notes
      <4> QED BY <3>1, <4>1
    <3> QED BY <3>2, <3>3
  <2> HIDE DEF t
  <2>4. Done(u, t) \in SignedInAs /\ Done(u, t).user = u /\ Done(u, t).tenant = t
    BY <2>1, <2>2, <2>3 DEF Done, SignedInAs, Signers
  <2> HIDE DEF u
  <2> QED BY <2>1, <2>2, <2>3, <2>4, Said, StepsDiffer
<1> QED BY <1>1, <1>2, <1>3, <1>4, <1>5

(***************************************************************************)
(* UserRpc                                                                 *)
(***************************************************************************)
UserTenantsOrNone == UserTenants \cup {NoUserTenant}
AccountRows == [name : UserNames, tenant : UserTenantsOrNone, role : SchemaRoles]
RpcCalls == [step : {"update", "delete", "updateUser", "deleteUser"}, tenant : UserTenants,
             id : AccountIds, name : UserNames \cup {Omitted}, role : GivenRoles]
Answers == [step : {"answered"}, tenant : UserTenants]

NamesDiffer(table) ==
    \A i, j \in AccountIds :
        table[i] # NoAccount /\ table[j] # NoAccount /\ table[i].name = table[j].name => i = j

GoodTable(table) ==
    /\ table \in [AccountIds -> AccountRows \cup {NoAccount}]
    /\ NamesDiffer(table)

(* An RPC call has written nothing before its last step, and what it is    *)
(* about to write was in its tenant when it looked.                        *)
RpcFits(s) ==
    /\ rpcs[s].step \in {"update", "delete", "updateUser", "deleteUser"} => rpcs[s] \in RpcCalls /\ wrote[s] = {}
    /\ rpcs[s].step \in {"updateUser", "deleteUser"} => rpcs[s].id \in within[s]
    /\ rpcs[s].step = "answered" => rpcs[s] \in Answers /\ wrote[s] \subseteq within[s]

(* A batch of two items: how far it is, and what it has changed by then.   *)
Batches(a, b) ==
    [step : {"batch"}, tenant : {NoUserTenant}, op : {"create", "update", "delete"}, items : {<<a, b>>},
     left : {<<a, b>>, <<b>>, <<>>}, ok : BOOLEAN]

BatchOf(s, a, b) ==
    LET call == rpcs[s] IN
    /\ call \in Batches(a, b)
    /\ \/ call.ok /\ call.left = <<a, b>> /\ wrote[s] = {}
       \/ /\ call.ok /\ call.left = <<b>>
          /\ \E i \in AccountIds : wrote[s] = {i} /\ IF call.op = "create" THEN i <= madeIds ELSE i = a
       \/ call.ok /\ call.left = <<>> /\ Cardinality(wrote[s]) = 2
       \/ ~call.ok /\ call.left = <<>> /\ Cardinality(wrote[s]) \in {0, 1}

BatchFits(s) ==
    rpcs[s].step = "batch" =>
        \/ rpcs[s].op = "create" /\ \E a, b \in UserNames : BatchOf(s, a, b)
        \/ rpcs[s].op \in {"update", "delete"} /\ \E a, b \in AccountIds : a # b /\ BatchOf(s, a, b)

SlotFits(s) ==
    /\ rpcs[s].step \in {"free", "update", "delete", "updateUser", "deleteUser", "answered", "batch"}
    /\ RpcFits(s) /\ BatchFits(s)

UserInv ==
    /\ GoodTable(accounts)
    /\ madeIds \in 0..MaxAccounts
    /\ DOMAIN rpcs = RpcSlots /\ rpcs = [s \in RpcSlots |-> rpcs[s]]
    /\ wrote \in [RpcSlots -> SUBSET AccountIds] /\ within \in [RpcSlots -> SUBSET AccountIds]
    /\ \A s \in RpcSlots : SlotFits(s)

LEMMA NormalRoles == \A role : NormalizeRole(role) \in SchemaRoles
  BY DEF NormalizeRole, SchemaRoles

LEMMA NoRowIsOutside == NoAccount \notin AccountRows
  BY DEF NoAccount, AccountRows, SchemaRoles, NoText

(* The tables that writes leave are well formed.                           *)
LEMMA InsertedIsGood ==
    ASSUME GoodTable(accounts), NEW n \in UserNames, NEW t \in UserTenantsOrNone, NEW r \in SchemaRoles,
           Named(n) = {}, NEW id \in AccountIds
    PROVE  GoodTable([accounts EXCEPT ![id] = [name |-> n, tenant |-> t, role |-> r]])
<1> DEFINE row == [name |-> n, tenant |-> t, role |-> r]
           table == [accounts EXCEPT ![id] = row]
<1>1. row \in AccountRows /\ row.name = n
  BY DEF AccountRows
<1> HIDE DEF row
<1>2. table \in [AccountIds -> AccountRows \cup {NoAccount}]
  BY <1>1 DEF GoodTable
<1>3. \A i \in AccountIds : accounts[i] # NoAccount => accounts[i].name # n
  BY DEF Named, Accounts
<1>4. table[id] = row /\ \A i \in AccountIds \ {id} : table[i] = accounts[i]
  BY DEF GoodTable
<1> HIDE DEF table
<1>5. NamesDiffer(table)
  BY <1>1, <1>3, <1>4 DEF NamesDiffer, GoodTable
<1> QED BY <1>2, <1>5 DEF GoodTable, table, row

LEMMA ChangedIsGood ==
    ASSUME GoodTable(accounts), NEW id \in Accounts, NEW row \in AccountRows,
           row.name = accounts[id].name \/ Named(row.name) \subseteq {id}
    PROVE  GoodTable([accounts EXCEPT ![id] = row])
<1> DEFINE table == [accounts EXCEPT ![id] = row]
<1>1. id \in AccountIds /\ accounts[id] # NoAccount
  BY DEF Accounts
<1>2. table \in [AccountIds -> AccountRows \cup {NoAccount}]
  BY <1>1 DEF GoodTable
<1>3. \A i \in AccountIds \ {id} : accounts[i] # NoAccount => accounts[i].name # row.name
  BY <1>1 DEF Named, Accounts, GoodTable, NamesDiffer
<1>4. table[id] = row /\ \A i \in AccountIds \ {id} : table[i] = accounts[i]
  BY <1>1 DEF GoodTable
<1> HIDE DEF table
<1>5. NamesDiffer(table)
  BY <1>3, <1>4 DEF NamesDiffer, GoodTable
<1> QED BY <1>2, <1>5 DEF GoodTable, table

(* Rows removed, or rewritten under their names.                           *)
LEMMA ThinnedIsGood ==
    ASSUME GoodTable(accounts), NEW table \in [AccountIds -> AccountRows \cup {NoAccount}],
           \A i \in AccountIds : table[i] # NoAccount => accounts[i] # NoAccount /\ table[i].name = accounts[i].name
    PROVE  GoodTable(table)
  BY DEF GoodTable, NamesDiffer

LEMMA RowOf == ASSUME GoodTable(accounts), NEW id \in Accounts
               PROVE  id \in AccountIds /\ accounts[id] \in AccountRows
  BY DEF GoodTable, Accounts

LEMMA RewrittenRow ==
    ASSUME GoodTable(accounts), NEW id \in Accounts, NEW input,
           input.name = Omitted \/ input.name \in UserNames
    PROVE  LET row == UpdateUserToJson(accounts[id], input) IN
           /\ row \in AccountRows
           /\ row.name = IF input.name = Omitted THEN accounts[id].name ELSE input.name
<1> DEFINE n == IF input.name = Omitted THEN accounts[id].name ELSE input.name
           r == IF input.role = Omitted THEN accounts[id].role ELSE NormalizeRole(input.role)
<1>1. accounts[id] \in AccountRows
  BY RowOf
<1>2. n \in UserNames
  BY <1>1 DEF AccountRows
<1>3. r \in SchemaRoles
  BY <1>1, NormalRoles DEF AccountRows
<1>4. UpdateUserToJson(accounts[id], input) = [accounts[id] EXCEPT !.name = n, !.role = r]
  BY <1>1 DEF UpdateUserToJson, AccountRows
<1> HIDE DEF n, r
<1>5. [accounts[id] EXCEPT !.name = n, !.role = r] \in AccountRows
      /\ [accounts[id] EXCEPT !.name = n, !.role = r].name = n
  BY <1>1, <1>2, <1>3 DEF AccountRows
<1> QED BY <1>4, <1>5 DEF n

-----------------------------------------------------------------------------
(***************************************************************************)
(* Slots                                                                   *)
(***************************************************************************)
(* What a step does to a slot it is not about.                             *)
Undisturbed(s) ==
    /\ rpcs'[s] = rpcs[s] /\ wrote'[s] = wrote[s]
    /\ Active(s) => within[s] \subseteq within'[s]

LEMMA SlotStays ==
    ASSUME NEW s \in RpcSlots, SlotFits(s), Undisturbed(s), madeIds \in Nat, madeIds' \in Nat, madeIds <= madeIds'
    PROVE  SlotFits(s)'
<1>1. RpcFits(s)'
  BY DEF SlotFits, Undisturbed, RpcFits, Active
<1>2. ASSUME NEW a, NEW b, BatchOf(s, a, b) PROVE BatchOf(s, a, b)'
  <2>1. ASSUME NEW i \in AccountIds, i <= madeIds PROVE i <= madeIds'
    BY <2>1, UserAssumption DEF AccountIds
  <2> QED BY <1>2, <2>1 DEF Undisturbed, BatchOf
<1>3. BatchFits(s)'
  BY <1>2 DEF SlotFits, BatchFits, Undisturbed
<1> QED BY <1>1, <1>3 DEF SlotFits, Undisturbed

LEMMA Remembered ==
    ASSUME UserInv, NEW table, NEW calls, Remember(table, calls)
    PROVE  /\ within' \in [RpcSlots -> SUBSET AccountIds]
           /\ \A s \in RpcSlots : Active(s) /\ calls[s].step # "free" =>
                 within'[s] = within[s] \cup InTenant(table, calls[s].tenant)
<1> DEFINE Now(s) == IF calls[s].step = "free" THEN {}
                     ELSE IF ~Active(s) THEN InTenant(table, calls[s].tenant)
                     ELSE within[s] \cup InTenant(table, calls[s].tenant)
<1>1. within' = [s \in RpcSlots |-> Now(s)]
  BY DEF Remember
<1>2. ASSUME NEW s \in RpcSlots PROVE Now(s) \in SUBSET AccountIds
  BY DEF InTenant, UserInv
<1>3. \A s \in RpcSlots : within'[s] = Now(s)
  BY <1>1
<1> QED BY <1>1, <1>2, <1>3

(* A step of one slot, or of none.                                         *)
LEMMA OneSlot ==
    ASSUME UserInv, GoodTable(accounts'), madeIds' \in 0..MaxAccounts, madeIds <= madeIds',
           rpcs' = [s \in RpcSlots |-> rpcs'[s]],
           wrote' \in [RpcSlots -> SUBSET AccountIds], within' \in [RpcSlots -> SUBSET AccountIds],
           \A s \in RpcSlots : Undisturbed(s) \/ SlotFits(s)'
    PROVE  UserInv'
<1>1. madeIds \in Nat /\ madeIds' \in Nat
  BY UserAssumption DEF UserInv
<1>2. ASSUME NEW s \in RpcSlots PROVE SlotFits(s)'
  BY <1>1, SlotStays DEF UserInv
<1>3. DOMAIN rpcs' = RpcSlots
  OBVIOUS
<1> QED BY <1>2, <1>3 DEF UserInv

LEMMA NoSlot ==
    ASSUME UserInv, NEW table, GoodTable(table), accounts' = table, Remember(table, rpcs), UNCHANGED <<rpcs, wrote>>,
           madeIds' \in 0..MaxAccounts, madeIds <= madeIds'
    PROVE  UserInv'
<1>1. ASSUME NEW s \in RpcSlots PROVE Undisturbed(s)
  BY Remembered DEF Undisturbed, Active
<1>2. rpcs' = [s \in RpcSlots |-> rpcs'[s]] /\ wrote' \in [RpcSlots -> SUBSET AccountIds]
  BY DEF UserInv
<1> QED BY <1>1, <1>2, Remembered, OneSlot

(* The slots beside the one that goes on.                                  *)
LEMMA Beside ==
    ASSUME UserInv, NEW s \in RpcSlots, NEW table, NEW call, NEW ids \in SUBSET AccountIds,
           Goes(s, call), wrote' = [wrote EXCEPT ![s] = ids], Remember(table, rpcs')
    PROVE  /\ rpcs'[s] = call /\ wrote'[s] = ids
           /\ rpcs' = [q \in RpcSlots |-> rpcs'[q]] /\ wrote' \in [RpcSlots -> SUBSET AccountIds]
           /\ \A q \in RpcSlots \ {s} : Undisturbed(q)
<1>1. rpcs'[s] = call /\ (\A q \in RpcSlots \ {s} : rpcs'[q] = rpcs[q]) /\ rpcs' = [q \in RpcSlots |-> rpcs'[q]]
  BY DEF UserInv, Goes
<1>2. wrote'[s] = ids /\ (\A q \in RpcSlots \ {s} : wrote'[q] = wrote[q]) /\ wrote' \in [RpcSlots -> SUBSET AccountIds]
  BY DEF UserInv
<1>3. ASSUME NEW q \in RpcSlots \ {s} PROVE Undisturbed(q)
  BY <1>1, <1>2, Remembered DEF Undisturbed, Active
<1> QED BY <1>1, <1>2, <1>3

-----------------------------------------------------------------------------
LEMMA UsersInit == InitUsers => UserInv
<1> SUFFICES ASSUME InitUsers PROVE UserInv
  OBVIOUS
<1>1. GoodTable(accounts)
  BY DEF InitUsers, GoodTable, NamesDiffer
<1>2. madeIds \in 0..MaxAccounts
  BY UserAssumption DEF InitUsers
<1>3. ASSUME NEW s \in RpcSlots PROVE SlotFits(s)
  BY DEF InitUsers, SlotFits, RpcFits, BatchFits, FreeSlot
<1> QED BY <1>1, <1>2, <1>3 DEF InitUsers, UserInv

(* A call begins in a free slot, with nothing written.                     *)
LEMMA Begun ==
    ASSUME UserInv, NEW s \in RpcSlots, NEW call, BeginRpc(s, call),
           call.step \in {"update", "delete", "batch"}, rpcs'[s] = call /\ wrote'[s] = {} => SlotFits(s)'
    PROVE  UserInv'
<1>1. /\ Goes(s, call) /\ Remember(accounts, rpcs') /\ wrote' = [wrote EXCEPT ![s] = {}]
      /\ UNCHANGED <<accounts, madeIds>> /\ ~Active(s)
  BY DEF BeginRpc
<1>2. /\ rpcs'[s] = call /\ wrote'[s] = {}
      /\ rpcs' = [q \in RpcSlots |-> rpcs'[q]] /\ wrote' \in [RpcSlots -> SUBSET AccountIds]
      /\ \A q \in RpcSlots \ {s} : Undisturbed(q)
  BY <1>1, Beside
<1>3. \A q \in RpcSlots : Undisturbed(q) \/ SlotFits(q)'
  BY <1>2
<1>4. GoodTable(accounts') /\ madeIds' \in 0..MaxAccounts /\ madeIds <= madeIds'
  BY <1>1, UserAssumption DEF UserInv, GoodTable, NamesDiffer
<1> QED BY <1>1, <1>2, <1>3, <1>4, Remembered, OneSlot

LEMMA RpcBegun == ASSUME UserInv, NEW s \in RpcSlots, HandleRpc(s) PROVE UserInv'
<1>1. PICK word \in {"update", "delete", "remove", "drop"}, t \in UserTenants, i \in AccountIds,
           n \in UserNames \cup {Omitted}, r \in GivenRoles :
        /\ ActionOf(word) # "unsupported"
        /\ BeginRpc(s, [step |-> ActionOf(word), tenant |-> t, id |-> i, name |-> n, role |-> r])
  BY DEF HandleRpc
<1> DEFINE call == [step |-> ActionOf(word), tenant |-> t, id |-> i, name |-> n, role |-> r]
<1>2. ActionOf(word) \in {"update", "delete"}
  BY <1>1 DEF ActionOf
<1>3. call \in RpcCalls /\ call.step \in {"update", "delete"}
  BY <1>2 DEF RpcCalls
<1>4. BeginRpc(s, call)
  BY <1>1
<1> HIDE DEF call
<1>5. rpcs'[s] = call /\ wrote'[s] = {} => SlotFits(s)'
  BY <1>3 DEF SlotFits, RpcFits, BatchFits
<1> QED BY <1>3, <1>4, <1>5, Begun

LEMMA BatchBegun ==
    ASSUME UserInv, NEW s \in RpcSlots, NEW op, NEW a, NEW b, BeginBatch(s, op, <<a, b>>),
           \/ op = "create" /\ a \in UserNames /\ b \in UserNames
           \/ op \in {"update", "delete"} /\ a \in AccountIds /\ b \in AccountIds /\ a # b
    PROVE  UserInv'
<1> DEFINE call == BatchCall(op, <<a, b>>)
<1>1. call = [step |-> "batch", tenant |-> NoUserTenant, op |-> op, items |-> <<a, b>>, left |-> <<a, b>>, ok |-> TRUE]
  BY DEF BatchCall
<1>2. BeginRpc(s, call) /\ call.step = "batch"
  BY <1>1 DEF BeginBatch
<1>3. rpcs'[s] = call /\ wrote'[s] = {} => SlotFits(s)'
  <2> SUFFICES ASSUME rpcs'[s] = call, wrote'[s] = {} PROVE SlotFits(s)'
    OBVIOUS
  <2>1. /\ call.step = "batch" /\ call.op = op /\ call.left = <<a, b>> /\ call.ok = TRUE
        /\ call \in Batches(a, b)
    <3>1. op \in {"create", "update", "delete"} /\ <<a, b>> \in {<<a, b>>, <<b>>, <<>>}
      OBVIOUS
    <3> DEFINE pair == <<a, b>>
               lefts == {<<a, b>>, <<b>>, <<>>}
    <3>2. call = [step |-> "batch", tenant |-> NoUserTenant, op |-> op, items |-> pair, left |-> pair, ok |-> TRUE]
          /\ pair \in lefts
      BY <1>1, <3>1
    <3> HIDE DEF pair, lefts, call
    <3>3. call \in [step : {"batch"}, tenant : {NoUserTenant}, op : {"create", "update", "delete"}, items : {pair},
                   left : lefts, ok : BOOLEAN]
      BY <3>1, <3>2
    <3> QED BY <3>2, <3>3 DEF Batches, pair, lefts
  <2> HIDE DEF call
  <2>2. BatchOf(s, a, b)'
    BY <2>1 DEF BatchOf
  <2>3. rpcs'[s].step = "batch" /\ rpcs'[s].op = op
    BY <2>1
  <2> QED BY <2>2, <2>3 DEF SlotFits, RpcFits, BatchFits
<1> HIDE DEF call
<1> QED BY <1>2, <1>3, Begun

LEMMA Created ==
    ASSUME UserInv, NEW t \in UserTenants, NEW n \in UserNames, NEW r \in GivenRoles, HandleUserCreate(t, n, r)
    PROVE  UserInv'
<1> DEFINE role == IF r = Omitted THEN "user" ELSE NormalizeRole(r)
           table == [accounts EXCEPT ![madeIds + 1] = [name |-> n, tenant |-> t, role |-> role]]
<1>1. /\ Named(n) = {} /\ madeIds < MaxAccounts /\ accounts' = table /\ Remember(table, rpcs)
      /\ madeIds' = madeIds + 1 /\ UNCHANGED <<rpcs, wrote>>
  BY DEF HandleUserCreate, CanCreate, WriteRows, CreateUserToJson
<1>2. role \in SchemaRoles
  BY NormalRoles DEF SchemaRoles
<1>3. madeIds + 1 \in AccountIds /\ madeIds' \in 0..MaxAccounts /\ madeIds <= madeIds'
  BY <1>1, UserAssumption DEF UserInv, AccountIds
<1>4. t \in UserTenantsOrNone
  BY DEF UserTenantsOrNone
<1> HIDE DEF role
<1>5. GoodTable(table)
  BY <1>1, <1>2, <1>3, <1>4, InsertedIsGood DEF UserInv
<1> HIDE DEF table
<1> QED BY <1>1, <1>3, <1>5, NoSlot

(* The first half of an update or a deletion.                              *)
LEMMA Checked ==
    ASSUME UserInv, NEW s \in RpcSlots,
           NEW next \in {"updateUser", "deleteUser"}, rpcs[s].step \in {"update", "delete"}, CheckTenant(s, next)
    PROVE  UserInv'
<1> DEFINE call == rpcs[s]
           mine == accounts[call.id] # NoAccount /\ accounts[call.id].tenant = call.tenant
           to == IF mine THEN [call EXCEPT !.step = next] ELSE RpcDone(call)
<1>1. Goes(s, to) /\ Remember(accounts, rpcs') /\ UNCHANGED <<accounts, madeIds, wrote>>
  BY DEF CheckTenant
<1>2. call \in RpcCalls /\ wrote[s] = {} /\ Active(s)
  BY DEF UserInv, SlotFits, RpcFits, Active
<1>3. wrote' = [wrote EXCEPT ![s] = {}]
  BY <1>1, <1>2 DEF UserInv
<1> HIDE DEF to
<1>4. /\ rpcs'[s] = to /\ wrote'[s] = {}
      /\ rpcs' = [q \in RpcSlots |-> rpcs'[q]] /\ wrote' \in [RpcSlots -> SUBSET AccountIds]
      /\ \A q \in RpcSlots \ {s} : Undisturbed(q)
  BY <1>1, <1>3, Beside
<1>5. CASE mine
  <2>1. to = [call EXCEPT !.step = next] /\ call.id \in AccountIds
    BY <1>2, <1>5 DEF to, RpcCalls
  <2>2. to \in RpcCalls /\ to.step = next /\ to.id = call.id /\ to.tenant = call.tenant
    BY <1>2, <2>1 DEF RpcCalls
  <2>3. call.id \in InTenant(accounts, call.tenant)
    BY <1>5, <2>1 DEF InTenant
  <2>4. call.id \in within'[s]
    BY <1>1, <1>2, <1>4, <2>2, <2>3, Remembered
  <2> HIDE DEF call, mine
  <2>5. SlotFits(s)'
    BY <1>4, <2>2, <2>4 DEF SlotFits, RpcFits, BatchFits
  <2> QED BY <1>1, <1>4, <2>5, Remembered, OneSlot, UserAssumption DEF UserInv, GoodTable, NamesDiffer
<1>6. CASE ~mine
  <2>1. to \in Answers /\ to.step = "answered"
    BY <1>2, <1>6 DEF to, RpcDone, Answers, RpcCalls
  <2> HIDE DEF call, mine
  <2>2. SlotFits(s)'
    BY <1>4, <2>1 DEF SlotFits, RpcFits, BatchFits
  <2> QED BY <1>1, <1>4, <2>2, Remembered, OneSlot, UserAssumption DEF UserInv, GoodTable, NamesDiffer
<1> QED BY <1>5, <1>6

(* The second half: what is written was in the tenant of the call.         *)
LEMMA Ended ==
    ASSUME UserInv, NEW s \in RpcSlots, rpcs[s].step \in {"updateUser", "deleteUser"},
           NEW table, GoodTable(table), NEW ids \in SUBSET {rpcs[s].id},
           WriteRows(table), Wrote(s, ids), Goes(s, RpcDone(rpcs[s])), Remember(table, rpcs'), UNCHANGED madeIds
    PROVE  UserInv'
<1>1. rpcs[s] \in RpcCalls /\ wrote[s] = {} /\ rpcs[s].id \in within[s] /\ Active(s)
  BY DEF UserInv, SlotFits, RpcFits, Active
<1>2. rpcs[s].id \in AccountIds /\ RpcDone(rpcs[s]) \in Answers /\ RpcDone(rpcs[s]).step = "answered"
  BY <1>1 DEF RpcCalls, RpcDone, Answers
<1>3. wrote' = [wrote EXCEPT ![s] = ids] /\ ids \in SUBSET AccountIds
  BY <1>1, <1>2 DEF Wrote, UserInv
<1>4. /\ rpcs'[s] = RpcDone(rpcs[s]) /\ wrote'[s] = ids
      /\ rpcs' = [q \in RpcSlots |-> rpcs'[q]] /\ wrote' \in [RpcSlots -> SUBSET AccountIds]
      /\ \A q \in RpcSlots \ {s} : Undisturbed(q)
  BY <1>3, Beside
<1>5. ids \subseteq within'[s] /\ within' \in [RpcSlots -> SUBSET AccountIds]
  BY <1>1, <1>2, <1>4, Remembered
<1>6. SlotFits(s)'
  BY <1>2, <1>4, <1>5 DEF SlotFits, RpcFits, BatchFits
<1>7. madeIds' \in 0..MaxAccounts /\ madeIds <= madeIds'
  BY UserAssumption DEF UserInv
<1> QED BY <1>4, <1>5, <1>6, <1>7, OneSlot DEF WriteRows

LEMMA Updated == ASSUME UserInv, NEW s \in RpcSlots, UpdateUser(s) PROVE UserInv'
<1> DEFINE id == rpcs[s].id
           ok == accounts[id] # NoAccount /\ (rpcs[s].name = Omitted \/ Named(rpcs[s].name) \subseteq {id})
           table == IF ok THEN [accounts EXCEPT ![id] = UpdateUserToJson(@, rpcs[s])] ELSE accounts
           ids == IF ok THEN {id} ELSE {}
<1>1. /\ rpcs[s].step = "updateUser" /\ WriteRows(table) /\ Wrote(s, ids) /\ Goes(s, RpcDone(rpcs[s]))
      /\ Remember(table, rpcs') /\ UNCHANGED madeIds
  BY DEF UpdateUser
<1>2. rpcs[s] \in RpcCalls
  BY <1>1 DEF UserInv, SlotFits, RpcFits
<1>3. id \in AccountIds /\ rpcs[s].name \in UserNames \cup {Omitted} /\ ids \in SUBSET {rpcs[s].id}
  BY <1>2 DEF RpcCalls
<1>4. GoodTable(table)
  <2>1. CASE ok
    <3> DEFINE row == UpdateUserToJson(accounts[id], rpcs[s])
    <3>1. id \in Accounts
      BY <1>3, <2>1 DEF Accounts
    <3>2. row \in AccountRows /\ row.name = IF rpcs[s].name = Omitted THEN accounts[id].name ELSE rpcs[s].name
      BY <1>3, <3>1, RewrittenRow DEF UserInv
    <3>3. table = [accounts EXCEPT ![id] = row]
      BY <1>3, <2>1 DEF UserInv, GoodTable
    <3> HIDE DEF row, table, id
    <3>4. row.name = accounts[id].name \/ Named(row.name) \subseteq {id}
      BY <2>1, <3>2
    <3> QED BY <3>1, <3>2, <3>3, <3>4, ChangedIsGood DEF UserInv
  <2> QED BY <2>1 DEF UserInv
<1> HIDE DEF table, ids
<1> QED BY <1>1, <1>3, <1>4, Ended

LEMMA Deleted == ASSUME UserInv, NEW s \in RpcSlots, DeleteUser(s) PROVE UserInv'
<1> DEFINE id == rpcs[s].id
           table == [accounts EXCEPT ![id] = NoAccount]
           ids == {id} \cap Accounts
<1>1. /\ rpcs[s].step = "deleteUser" /\ WriteRows(table) /\ Wrote(s, ids) /\ Goes(s, RpcDone(rpcs[s]))
      /\ Remember(table, rpcs') /\ UNCHANGED madeIds
  BY DEF DeleteUser
<1>2. GoodTable(table)
  <2>1. table \in [AccountIds -> AccountRows \cup {NoAccount}]
    BY DEF UserInv, GoodTable
  <2>2. \A i \in AccountIds : table[i] # NoAccount => accounts[i] # NoAccount /\ table[i].name = accounts[i].name
    BY DEF UserInv, GoodTable
  <2> HIDE DEF table
  <2> QED BY <2>1, <2>2, ThinnedIsGood DEF UserInv
<1>3. ids \in SUBSET {rpcs[s].id}
  OBVIOUS
<1> HIDE DEF table, ids
<1> QED BY <1>1, <1>2, <1>3, Ended

-----------------------------------------------------------------------------
LEMMA SmallSets ==
    /\ Cardinality({}) = 0
    /\ \A i : Cardinality({i}) = 1
    /\ \A i, j : i # j => Cardinality({i, j}) = 2
<1>1. Cardinality({}) = 0 /\ IsFiniteSet({})
  BY FS_EmptySet
<1>2. ASSUME NEW i PROVE Cardinality({i}) = 1 /\ IsFiniteSet({i})
  BY FS_Singleton
<1>3. ASSUME NEW i, NEW j, i # j PROVE Cardinality({i, j}) = 2
  <2>1. {i, j} = {i} \cup {j} /\ j \notin {i}
    BY <1>3
  <2>2. IsFiniteSet({i}) /\ Cardinality({i}) = 1
    BY <1>2
  <2>3. Cardinality({i} \cup {j}) = Cardinality({i}) + 1
    BY <2>1, <2>2, FS_AddElement
  <2> QED BY <2>1, <2>2, <2>3
<1> QED BY <1>1, <1>2, <1>3

(* A batch goes on by one item, or stops at one that fails.                *)
LEMMA AccountItemDone ==
    ASSUME UserInv, NEW s \in RpcSlots, NEW op \in {"create", "update", "delete"}, InBatch(s, op),
           NEW ok \in BOOLEAN, NEW table, GoodTable(table), NEW id, BatchItem(s, ok, table, id),
           madeIds' \in 0..MaxAccounts, madeIds <= madeIds', ok => id \in AccountIds,
           op = "create" /\ ok => madeIds < id /\ id <= madeIds',
           op # "create" => id = Head(rpcs[s].left)
    PROVE  UserInv'
<1> DEFINE call == rpcs[s]
           ids == wrote[s] \cup (IF ok THEN {id} ELSE {})
           to == BatchAfter(s, ok)
<1>1. /\ call.step = "batch" /\ call.op = op /\ call.left # <<>>
      /\ accounts' = table /\ Goes(s, to) /\ Remember(table, rpcs')
      /\ wrote' = [wrote EXCEPT ![s] = ids] /\ ids \in SUBSET AccountIds
  BY DEF InBatch, BatchItem, WriteRows, Wrote, UserInv
<1> HIDE DEF ids, to
<1>2. /\ rpcs'[s] = to /\ wrote'[s] = ids
      /\ rpcs' = [q \in RpcSlots |-> rpcs'[q]] /\ wrote' \in [RpcSlots -> SUBSET AccountIds]
      /\ \A q \in RpcSlots \ {s} : Undisturbed(q)
  BY <1>1, Beside
<1>3. PICK a, b : /\ BatchOf(s, a, b)
                  /\ \/ op = "create" /\ a \in UserNames /\ b \in UserNames
                     \/ op # "create" /\ a \in AccountIds /\ b \in AccountIds /\ a # b
  BY <1>1 DEF UserInv, SlotFits, BatchFits
<1>4. /\ call \in Batches(a, b)
      /\ \/ call.left = <<a, b>> /\ wrote[s] = {}
         \/ /\ call.left = <<b>>
            /\ \E i \in AccountIds : wrote[s] = {i} /\ IF op = "create" THEN i <= madeIds ELSE i = a
      /\ call.ok = TRUE
  BY <1>1, <1>3 DEF BatchOf
<1> DEFINE left == IF ok THEN Tail(call.left) ELSE <<>>
<1>5. left \in {<<b>>, <<>>}
  <2>1. Tail(<<a, b>>) = <<b>> /\ Tail(<<b>>) = <<>>
    OBVIOUS
  <2>2. Tail(call.left) \in {<<b>>, <<>>}
    BY <1>4, <2>1
  <2> QED BY <2>2
<1>6. to.step = "batch" /\ to.op = op /\ to.left = left /\ to.ok = ok /\ to \in Batches(a, b)
  <2>1. to = [call EXCEPT !.left = left, !.ok = ok]
    BY DEF to, BatchAfter
  <2> HIDE DEF left, call
  <2> QED BY <1>1, <1>4, <1>5, <2>1 DEF Batches
<1> DEFINE Advanced ==
        \/ ok /\ left = <<b>> /\ \E i \in AccountIds : ids = {i} /\ IF op = "create" THEN i <= madeIds' ELSE i = a
        \/ ok /\ left = <<>> /\ Cardinality(ids) = 2
        \/ ~ok /\ left = <<>> /\ Cardinality(ids) \in {0, 1}
<1>7. Advanced
  <2>1. CASE call.left = <<a, b>> /\ wrote[s] = {} /\ ok
    <3>1. left = <<b>> /\ Head(call.left) = a /\ ids = {id} /\ id \in AccountIds
      BY <2>1 DEF ids
    <3> HIDE DEF left
    <3> QED BY <2>1, <3>1
  <2>2. CASE call.left = <<b>> /\ ok
    <3>1. PICK i \in AccountIds : wrote[s] = {i} /\ IF op = "create" THEN i <= madeIds ELSE i = a
      BY <1>4, <2>2
    <3>2. left = <<>> /\ Head(call.left) = b /\ ids = {i, id}
      BY <2>2, <3>1 DEF ids
    <3>3. i # id
      <4>1. i \in Nat /\ id \in Nat /\ madeIds \in Nat
        BY <2>2, UserAssumption DEF AccountIds, UserInv
      <4> QED BY <1>3, <2>2, <3>1, <3>2, <4>1
    <3> HIDE DEF left
    <3> QED BY <2>2, <3>2, <3>3, SmallSets
  <2>3. CASE ~ok
    <3>1. left = <<>> /\ ids = wrote[s]
      BY <2>3 DEF ids
    <3>2. Cardinality(ids) \in {0, 1}
      BY <1>4, <3>1, SmallSets
    <3> HIDE DEF left
    <3> QED BY <2>3, <3>1, <3>2
  <2> QED BY <1>4, <2>1, <2>2, <2>3
<1> HIDE DEF left
<1>8. BatchOf(s, a, b)'
  <2> HIDE DEF call
  <2> QED BY <1>2, <1>6, <1>7 DEF BatchOf
<1>9. SlotFits(s)'
  <2> HIDE DEF call
  <2>1. rpcs'[s].step = "batch" /\ rpcs'[s].op = op
    BY <1>2, <1>6
  <2>2. BatchFits(s)'
    BY <1>3, <1>8, <2>1 DEF BatchFits
  <2> QED BY <2>1, <2>2 DEF SlotFits, RpcFits
<1> QED BY <1>1, <1>2, <1>9, Remembered, OneSlot

LEMMA BatchCreated == ASSUME UserInv, NEW s \in RpcSlots, BatchCreateUsers(s) PROVE UserInv'
<1> DEFINE n == Head(rpcs[s].left)
           ok == CanCreate(n)
           row == [name |-> n, tenant |-> NoUserTenant, role |-> "user"]
           table == IF ok THEN [accounts EXCEPT ![madeIds + 1] = row] ELSE accounts
<1>1. /\ InBatch(s, "create") /\ madeIds < MaxAccounts /\ BatchItem(s, ok, table, madeIds + 1)
      /\ madeIds' = IF ok THEN madeIds + 1 ELSE madeIds
  BY DEF BatchCreateUsers, CreateUserToJson
<1>2. /\ madeIds' \in 0..MaxAccounts /\ madeIds <= madeIds' /\ madeIds + 1 \in AccountIds
      /\ madeIds < madeIds + 1 /\ (ok => madeIds + 1 <= madeIds')
  BY <1>1, UserAssumption DEF UserInv, AccountIds
<1>3. n \in UserNames
  <2>1. rpcs[s].step = "batch" /\ rpcs[s].op = "create" /\ rpcs[s].left # <<>>
    BY <1>1 DEF InBatch
  <2>2. PICK a, b \in UserNames : BatchOf(s, a, b)
    BY <2>1 DEF UserInv, SlotFits, BatchFits
  <2>3. rpcs[s].left \in {<<a, b>>, <<b>>}
    BY <2>1, <2>2 DEF BatchOf
  <2> QED BY <2>3
<1>4. GoodTable(table)
  <2>1. CASE ok
    <3>1. Named(n) = {} /\ "user" \in SchemaRoles /\ NoUserTenant \in UserTenantsOrNone
      BY <2>1 DEF CanCreate, SchemaRoles, UserTenantsOrNone
    <3> HIDE DEF n
    <3> QED BY <1>2, <1>3, <2>1, <3>1, InsertedIsGood DEF UserInv
  <2> QED BY <2>1 DEF UserInv
<1>5. ok \in BOOLEAN
  BY DEF CanCreate
<1> HIDE DEF ok, table, n
<1> QED BY <1>1, <1>2, <1>4, <1>5, AccountItemDone

(* What an item of the other batches is about.                             *)
LEMMA ItemIsRow ==
    ASSUME UserInv, NEW s \in RpcSlots, NEW op \in {"update", "delete"}, InBatch(s, op)
    PROVE  Head(rpcs[s].left) \in AccountIds
<1>1. rpcs[s].step = "batch" /\ rpcs[s].op = op /\ rpcs[s].left # <<>>
  BY DEF InBatch
<1>2. PICK a, b \in AccountIds : BatchOf(s, a, b)
  BY <1>1 DEF UserInv, SlotFits, BatchFits
<1>3. rpcs[s].left \in {<<a, b>>, <<b>>}
  BY <1>1, <1>2 DEF BatchOf
<1> QED BY <1>3

LEMMA BatchUpdated == ASSUME UserInv, NEW s \in RpcSlots, BatchUpdateUsers(s) PROVE UserInv'
<1> DEFINE id == Head(rpcs[s].left)
           ok == accounts[id] # NoAccount
           input == [name |-> Omitted, role |-> "Admin"]
           table == IF ok THEN [accounts EXCEPT ![id] = UpdateUserToJson(@, input)] ELSE accounts
<1>1. InBatch(s, "update") /\ BatchItem(s, ok, table, id) /\ UNCHANGED madeIds
  BY DEF BatchUpdateUsers
<1>2. id \in AccountIds
  BY <1>1, ItemIsRow
<1> HIDE DEF id
<1>3. GoodTable(table)
  <2>1. CASE ok
    <3> DEFINE row == UpdateUserToJson(accounts[id], input)
    <3>1. id \in Accounts
      BY <1>2, <2>1 DEF Accounts
    <3>2. row \in AccountRows /\ row.name = accounts[id].name
      BY <3>1, RewrittenRow DEF UserInv
    <3>3. table = [accounts EXCEPT ![id] = row]
      BY <1>2, <2>1 DEF UserInv, GoodTable
    <3> HIDE DEF row, table
    <3> QED BY <3>1, <3>2, <3>3, ChangedIsGood DEF UserInv
  <2> QED BY <2>1 DEF UserInv
<1>4. madeIds' \in 0..MaxAccounts /\ madeIds <= madeIds' /\ ok \in BOOLEAN /\ id = Head(rpcs[s].left)
  BY <1>1, UserAssumption DEF UserInv, id
<1> HIDE DEF ok, table
<1> QED BY <1>1, <1>2, <1>3, <1>4, AccountItemDone

LEMMA BatchDeleted == ASSUME UserInv, NEW s \in RpcSlots, BatchDeleteUsers(s) PROVE UserInv'
<1> DEFINE id == Head(rpcs[s].left)
           ok == accounts[id] # NoAccount
           table == IF ok THEN [accounts EXCEPT ![id] = NoAccount] ELSE accounts
<1>1. InBatch(s, "delete") /\ BatchItem(s, ok, table, id) /\ UNCHANGED madeIds
  BY DEF BatchDeleteUsers
<1>2. id \in AccountIds
  BY <1>1, ItemIsRow
<1> HIDE DEF id
<1>3. GoodTable(table)
  <2>1. table \in [AccountIds -> AccountRows \cup {NoAccount}]
    BY DEF UserInv, GoodTable
  <2>2. \A i \in AccountIds : table[i] # NoAccount => accounts[i] # NoAccount /\ table[i].name = accounts[i].name
    BY <1>2 DEF UserInv, GoodTable
  <2> HIDE DEF table
  <2> QED BY <2>1, <2>2, ThinnedIsGood DEF UserInv
<1>4. madeIds' \in 0..MaxAccounts /\ madeIds <= madeIds' /\ ok \in BOOLEAN /\ id = Head(rpcs[s].left)
  BY <1>1, UserAssumption DEF UserInv, id
<1> HIDE DEF ok, table
<1> QED BY <1>1, <1>2, <1>3, <1>4, AccountItemDone

(* Many rows at once, and the routes beside the RPC endpoint.              *)
LEMMA ManyDone == ASSUME UserInv, NEW table, GoodTable(table), ManyUsers(table) PROVE UserInv'
<1>1. /\ accounts' = table /\ Remember(table, rpcs) /\ UNCHANGED <<rpcs, wrote>>
      /\ madeIds' \in 0..MaxAccounts /\ madeIds <= madeIds'
  BY UserAssumption DEF ManyUsers, WriteRows, UserInv
<1> QED BY <1>1, NoSlot

LEMMA ManyUpdated == ASSUME UserInv, NEW role \in SchemaRoles, UpdateManyUsers(role) PROVE UserInv'
<1> DEFINE input == [name |-> Omitted, role |-> "user"]
           table == [i \in AccountIds |-> IF i \in Accounts /\ accounts[i].role = role
                                          THEN UpdateUserToJson(accounts[i], input) ELSE accounts[i]]
<1>1. ASSUME NEW i \in Accounts
      PROVE  UpdateUserToJson(accounts[i], input) \in AccountRows
             /\ UpdateUserToJson(accounts[i], input).name = accounts[i].name
  BY RewrittenRow DEF UserInv
<1>2. ManyUsers(table)
  BY DEF UpdateManyUsers
<1> HIDE DEF input
<1>3. table \in [AccountIds -> AccountRows \cup {NoAccount}]
  BY <1>1 DEF UserInv, GoodTable
<1>4. \A i \in AccountIds : table[i] # NoAccount => accounts[i] # NoAccount /\ table[i].name = accounts[i].name
  BY <1>1 DEF Accounts
<1> HIDE DEF table
<1>5. GoodTable(table)
  BY <1>3, <1>4, ThinnedIsGood DEF UserInv
<1> QED BY <1>2, <1>5, ManyDone

LEMMA ManyDeleted == ASSUME UserInv, NEW role \in SchemaRoles, DeleteManyUsers(role) PROVE UserInv'
<1> DEFINE table == [i \in AccountIds |-> IF accounts[i].role = role THEN NoAccount ELSE accounts[i]]
<1>1. ManyUsers(table)
  BY DEF DeleteManyUsers
<1>2. table \in [AccountIds -> AccountRows \cup {NoAccount}]
  BY DEF UserInv, GoodTable
<1>3. \A i \in AccountIds : table[i] # NoAccount => accounts[i] # NoAccount /\ table[i].name = accounts[i].name
  OBVIOUS
<1> HIDE DEF table
<1>4. GoodTable(table)
  BY <1>2, <1>3, ThinnedIsGood DEF UserInv
<1> QED BY <1>1, <1>4, ManyDone

LEMMA Moved == ASSUME UserInv, NEW i \in AccountIds, NEW t \in UserTenants, UpdateEntity(i, t) PROVE UserInv'
<1> DEFINE row == [accounts[i] EXCEPT !.tenant = t]
           table == [accounts EXCEPT ![i] = row]
<1>1. i \in Accounts /\ ManyUsers(table)
  BY DEF UpdateEntity, UserInv, GoodTable
<1>2. row \in AccountRows /\ row.name = accounts[i].name
  BY <1>1, RowOf DEF UserInv, AccountRows, UserTenantsOrNone
<1> HIDE DEF row
<1>3. GoodTable(table)
  BY <1>1, <1>2, ChangedIsGood DEF UserInv
<1> HIDE DEF table
<1> QED BY <1>1, <1>3, ManyDone

LEMMA UsersStep == UserInv /\ [NextUsers]_userVars => UserInv'
<1> SUFFICES ASSUME UserInv, [NextUsers]_userVars PROVE UserInv'
  OBVIOUS
<1>1. CASE UNCHANGED userVars
  <2>1. \A s \in RpcSlots : Undisturbed(s)
    BY <1>1 DEF userVars, Undisturbed
  <2> QED BY <1>1, <2>1, OneSlot, UserAssumption DEF userVars, UserInv, GoodTable, NamesDiffer
<1>2. ASSUME NEW s \in RpcSlots, HandleUserUpdate(s) \/ HandleUserDelete(s) PROVE UserInv'
  BY <1>2, Checked DEF HandleUserUpdate, HandleUserDelete
<1>3. ASSUME NEW s \in RpcSlots, NEW a, NEW b, NEW op, BeginBatch(s, op, <<a, b>>),
             \/ op = "create" /\ a \in UserNames /\ b \in UserNames
             \/ op \in {"update", "delete"} /\ a \in AccountIds /\ b \in AccountIds /\ a # b
      PROVE  UserInv'
  BY <1>3, BatchBegun
<1> QED BY <1>1, <1>2, <1>3, RpcBegun, Updated, Deleted, BatchCreated, BatchUpdated, BatchDeleted, Created,
           ManyUpdated, ManyDeleted, Moved DEF NextUsers

LEMMA UsersAreKept == UserInv => TypeOKUsers /\ RpcStaysInTenant /\ ShowsOwnTenant /\ BatchMeansAll
<1> SUFFICES ASSUME UserInv PROVE TypeOKUsers /\ RpcStaysInTenant /\ ShowsOwnTenant /\ BatchMeansAll
  OBVIOUS
<1>1. TypeOKUsers
  <2>1. \A i \in Accounts : accounts[i].role \in SchemaRoles /\ accounts[i].name \in UserNames
    BY RowOf DEF UserInv, AccountRows
  <2> QED BY <2>1 DEF UserInv, TypeOKUsers, Accounts, GoodTable, NamesDiffer
<1>2. RpcStaysInTenant
  BY DEF UserInv, SlotFits, RpcFits, RpcStaysInTenant
<1>3. ShowsOwnTenant
  BY DEF ShowsOwnTenant, HandleUserList, HandleUserRead, InTenant, Accounts
<1>4. ASSUME NEW s \in RpcSlots, rpcs[s].step = "batch", rpcs[s].left = <<>>
      PROVE  rpcs[s].ok <=> Cardinality(wrote[s]) = Len(rpcs[s].items)
  <2>1. PICK a, b : BatchOf(s, a, b)
    BY <1>4 DEF UserInv, SlotFits, BatchFits
  <2>2. Len(rpcs[s].items) = 2 /\ rpcs[s].ok \in BOOLEAN
    BY <2>1 DEF BatchOf, Batches
  <2>3. \/ rpcs[s].ok /\ Cardinality(wrote[s]) = 2
        \/ ~rpcs[s].ok /\ Cardinality(wrote[s]) \in {0, 1}
    BY <1>4, <2>1 DEF BatchOf
  <2> QED BY <2>2, <2>3
<1>5. BatchMeansAll
  BY <1>4 DEF BatchMeansAll
<1> QED BY <1>1, <1>2, <1>3, <1>5


(***************************************************************************)
(* Sealed secrets                                                          *)
(***************************************************************************)
MasterKeys == EnvKeys \cup {NoValue}
Sealed == [key : EnvKeys \ {NoValue}, text : Texts]

(* A process has one key, if any: that of its environment.                 *)
SecretInv ==
    /\ envKey \in MasterKeys /\ master \in {NoValue, envKey}
    /\ secrets \in Seq(Sealed)
    /\ RevealedIsSealed

LEMMA SecretInit == InitSecrets => SecretInv
<1> SUFFICES ASSUME InitSecrets PROVE SecretInv
  OBVIOUS
<1>1. secrets \in Seq(Sealed)
  BY DEF InitSecrets
<1>2. secretLast.op # "reveal"
  BY DEF InitSecrets
<1> QED BY <1>1, <1>2 DEF InitSecrets, SecretInv, RevealedIsSealed, MasterKeys

LEMMA OneKey == ASSUME SecretInv PROVE MasterKey = envKey
  BY DEF SecretInv, MasterKey

LEMMA Asked == ASSUME NEW op, NEW id, NEW text, SecretAnswers(op, id, text)
               PROVE  secretLast'.op = op /\ secretLast'.id = id /\ secretLast'.text = text
  BY DEF SecretAnswers

LEMMA SecretStep == SecretInv /\ [NextSecrets]_secretVars => SecretInv'
<1> SUFFICES ASSUME SecretInv, [NextSecrets]_secretVars PROVE SecretInv'
  OBVIOUS
<1>1. MasterKey = envKey /\ envKey \in MasterKeys /\ master \in {NoValue, envKey} /\ secrets \in Seq(Sealed)
  BY OneKey DEF SecretInv
<1>2. ASSUME NEW text \in Texts \cup {NoValue}, NEW fails \in BOOLEAN, createEncryptedSecret(text, fails)
      PROVE  SecretInv'
  <2>1. envKey' = envKey /\ master' \in {NoValue, envKey}
    BY <1>1, <1>2 DEF createEncryptedSecret
  <2>2. secretLast'.op = "create"
    BY <1>2, Asked DEF createEncryptedSecret
  <2>3. secrets' \in Seq(Sealed)
    <3>1. CASE UNCHANGED secrets
      BY <1>1, <3>1
    <3>2. CASE secrets' # secrets
      <4>1. text # NoValue /\ MasterKey # NoValue /\ secrets' = Append(secrets, SealSecret(text, MasterKey))
        BY <1>2, <3>2 DEF createEncryptedSecret
      <4>2. SealSecret(text, MasterKey) \in Sealed
        BY <1>1, <4>1 DEF SealSecret, Sealed, MasterKeys
      <4> QED BY <1>1, <4>1, <4>2
    <3> QED BY <3>1, <3>2
  <2> QED BY <1>1, <2>1, <2>2, <2>3 DEF SecretInv, RevealedIsSealed
<1>3. ASSUME NEW id \in DOMAIN secrets, NEW fails \in BOOLEAN, revealEncryptedSecret(id, fails) PROVE SecretInv'
  <2> DEFINE row == secrets[id]
             text == IF fails THEN NotFound ELSE IF envKey = NoValue THEN NotOpened ELSE OpenSecret(row, envKey)
  <2>1. envKey' = envKey /\ secrets' = secrets /\ master' \in {NoValue, envKey}
    BY <1>1, <1>3 DEF revealEncryptedSecret
  <2>2. SecretAnswers("reveal", id, text)
    BY <1>1, <1>3 DEF revealEncryptedSecret
  <2>3. row \in Sealed
    BY <1>1
  <2>4. row.key # NoValue
    BY <2>3 DEF Sealed
  <2>5. text \in {row.text, NotOpened, NotFound} /\ (envKey = row.key => text \in {row.text, NotFound})
    BY <2>4 DEF OpenSecret
  <2> HIDE DEF text
  <2>6. RevealedIsSealed'
    BY <2>1, <2>2, <2>5, Asked DEF RevealedIsSealed
  <2> QED BY <1>1, <2>1, <2>6 DEF SecretInv
<1>4. ASSUME NEW key \in EnvKeys \cup {NoValue}, Restart(key) PROVE SecretInv'
  <2>1. envKey' = key /\ master' = NoValue /\ secrets' = secrets /\ secretLast'.op = "restart"
    BY <1>4, Asked DEF Restart
  <2> QED BY <1>1, <2>1 DEF SecretInv, RevealedIsSealed, MasterKeys
<1>5. CASE UNCHANGED secretVars
  BY <1>5 DEF secretVars, SecretInv, RevealedIsSealed
<1> QED BY <1>2, <1>3, <1>4, <1>5 DEF NextSecrets, handleCreate, handleReveal

(***************************************************************************)
(* The accounts together                                                   *)
(***************************************************************************)
AccountInv == CredInv /\ SecretInv /\ UserInv

RowsKept == \A u \in CredNames : (creds[u] # NoCred /\ creds'[u] # NoCred) =>
           creds'[u].tenant = creds[u].tenant /\ creds'[u].email = creds[u].email

LEMMA CredStep == CredInv /\ [NextCredentials]_credentialVars => CredInv' /\ [RowsKept]_creds
<1> SUFFICES ASSUME CredInv, [NextCredentials]_credentialVars PROVE CredInv' /\ [RowsKept]_creds
  OBVIOUS
<1>1. CASE Setting
  <2>1. ASSUME NEW u \in CredNames \cup {Weak}, NEW pw \in CPasswords \cup {Weak}, NEW t \in CTenants \cup {NoValue},
               NEW e \in Mails \cup {NoValue}, NEW hashes \in BOOLEAN, SetCredential(u, pw, t, e, hashes)
        PROVE  CredInv' /\ creds' = creds
    BY <2>1, SetBegun DEF SetCredential
  <2>2. ASSUME NEW fails \in BOOLEAN, UpsertFind(fails) PROVE CredInv' /\ creds' = creds
    BY <2>2, UpsertFound DEF UpsertFind
  <2>3. ASSUME NEW told \in BOOLEAN, UpsertCreate(told) PROVE CredInv' /\ [RowsKept]_creds
    <3>1. CredInv' /\ (creds' # creds => creds[setter.name] = NoCred)
      BY <2>3, SetCreated
    <3>2. \A u \in CredNames \ {setter.name} : creds'[u] = creds[u]
      BY <2>3 DEF UpsertCreate, Becomes, CredInv, CredTypes, CredTables
    <3> QED BY <3>1, <3>2 DEF RowsKept
  <2>4. ASSUME NEW told \in BOOLEAN, UpsertUpdate(told) PROVE CredInv' /\ [RowsKept]_creds
    BY <2>4, SetUpdated DEF RowsKept
  <2>5. CASE UpsertFails
    BY <2>5, SetRefused
  <2> QED BY <1>1, <2>1, <2>2, <2>3, <2>4, <2>5 DEF Setting, handleSetCredential
<1>2. ASSUME NEW u \in CredNames, deleteCredential(u) PROVE CredInv' /\ [RowsKept]_creds
  <2>1. CredInv' /\ creds' = [creds EXCEPT ![u] = NoCred]
    BY <1>2, CredDeleted
  <2> QED BY <2>1 DEF RowsKept, CredInv, CredTypes, CredTables
<1>3. CASE SignIn
  <2>1. creds' = creds
    BY <1>3 DEF SignIn, BeginSignIn, verifyCredential, verifyCredentialIdentifier, FindByEmail, ReadAgain,
                getCredentialTenantId, Say
  <2> QED BY <1>3, <2>1, SignBegun, SignStep DEF SignIn, Idents
<1>4. CASE UNCHANGED credentialVars
  <2>1. UNCHANGED <<creds, signer, heldBy, setter, stored, credWrites>>
    BY <1>4 DEF credentialVars
  <2> QED BY <2>1, SignStays DEF CredInv, CredTypes, SetMeansStored
<1> QED BY <1>1, <1>2, <1>3, <1>4 DEF NextCredentials

LEMMA AccountInit == Init => AccountInv
  BY CredInit, SecretInit, UsersInit DEF Init, InitAccounts, AccountInv

LEMMA AccountStep == AccountInv /\ [Next]_ruleVars => AccountInv' /\ [RowsKept]_creds
<1> SUFFICES ASSUME AccountInv, [Next]_ruleVars PROVE AccountInv' /\ [RowsKept]_creds
  OBVIOUS
<1>1. /\ \/ UNCHANGED credentialVars \/ NextCredentials
      /\ \/ UNCHANGED secretVars \/ NextSecrets
      /\ \/ UNCHANGED userVars \/ NextUsers
  BY DEF Next, NextAccountPart, ruleVars, accountVars
<1> QED BY <1>1, CredStep, SecretStep, UsersStep DEF AccountInv

(* For any names, passwords, tenants, keys and calls: who signs in had the *)
(* password and answered to the identifier at some moment of the call;     *)
(* what was acknowledged was stored; a reset moves no account; user calls  *)
(* stay in their tenant; a batch that answers with a number did all of it; *)
(* a secret that is revealed is the one that was sealed, whenever its row  *)
(* could be read.                                                          *)
THEOREM AccountsStayKept == Spec => AccountsAreKept
<1>1. AccountInv => /\ TypeOKCredentials /\ SignedInIsTheOwner /\ SetMeansStored /\ RevealedIsSealed
                    /\ TypeOKUsers /\ RpcStaysInTenant /\ ShowsOwnTenant /\ BatchMeansAll
  <2> SUFFICES ASSUME AccountInv
               PROVE  TypeOKCredentials /\ SignedInIsTheOwner /\ SetMeansStored /\ RevealedIsSealed
    BY UsersAreKept DEF AccountInv
  <2>1. SetMeansStored /\ RevealedIsSealed
    BY DEF AccountInv, CredInv, SecretInv
  <2>2. TypeOKCredentials
    <3>1. ASSUME NEW u \in CredNames, creds[u] # NoCred PROVE creds[u].hash # NoHash
      BY <3>1, NoCredIsOutside DEF AccountInv, CredInv, CredTypes, CredTables, CredRows
    <3>2. master \in EnvKeys \cup {NoValue}
      BY DEF AccountInv, SecretInv, MasterKeys
    <3> QED BY <3>1, <3>2 DEF AccountInv, CredInv, CredTypes, EmailsDiffer, TypeOKCredentials
  <2>3. SignedInIsTheOwner
    <3>1. ASSUME signer.step = "done" PROVE signer \in SignedInAs
      BY <3>1, StepsDiffer DEF AccountInv, CredInv, CredTypes
    <3>2. ASSUME signer \in SignedInAs PROVE signer.user \in CredNames
      BY <3>2 DEF SignedInAs
    <3> QED BY <3>1, <3>2 DEF SignedInIsTheOwner, AccountInv, CredInv, SignInv
  <2> QED BY <2>1, <2>2, <2>3
<1>2. Spec => []AccountInv
  BY AccountInit, AccountStep, PTL DEF Spec
<1>3. Spec => [](/\ TypeOKCredentials /\ SignedInIsTheOwner /\ SetMeansStored /\ RevealedIsSealed
                 /\ TypeOKUsers /\ RpcStaysInTenant /\ ShowsOwnTenant /\ BatchMeansAll)
  BY <1>1, <1>2, PTL
<1>4. Spec => [][RowsKept]_creds
  BY <1>2, AccountStep, PTL DEF Spec
<1> QED BY <1>3, <1>4, PTL DEF AccountsAreKept, ResetKeepsTenant, RowsKept


(***************************************************************************)
(* BlobRanges                                                              *)
(***************************************************************************)
(* A slice of the bytes is the run of its positions.                       *)
LEMMA SliceOfBytes ==
    ASSUME NEW n \in Nat, NEW a \in Nat, NEW b \in Nat, a <= b, b <= n
    PROVE  LET s == SubSeq(Bytes(n), a + 1, b)
           IN  DOMAIN s = 1..(b - a) /\ \A j \in 1..(b - a) : s[j] = a + j
<1>1. Bytes(n) \in Seq(Nat) /\ Len(Bytes(n)) = n
  BY DEF Bytes
<1> DEFINE s == SubSeq(Bytes(n), a + 1, b)
<1>2. s = [i \in 1..(b - a) |-> Bytes(n)[a + i]]
  BY <1>1
<1>3. \A j \in 1..(b - a) : Bytes(n)[a + j] = a + j
  BY DEF Bytes
<1> QED BY <1>2, <1>3

(* A slice that holds the positions from the first to the last meant.      *)
Exactly(q, bytes) ==
    /\ \A i \in 1..q.size : InRange(q, i) <=> \E j \in DOMAIN bytes : bytes[j] = i
    /\ \A j \in DOMAIN bytes : bytes[j] = bytes[1] + j - 1

LEMMA SliceIsExact ==
    ASSUME NEW q, q.size \in Nat, NEW a \in Nat, NEW b \in Nat, a <= b, b <= q.size,
           \A i \in 1..q.size : InRange(q, i) <=> a < i /\ i <= b
    PROVE  Exactly(q, SubSeq(Bytes(q.size), a + 1, b))
<1> DEFINE s == SubSeq(Bytes(q.size), a + 1, b)
<1>1. DOMAIN s = 1..(b - a) /\ \A j \in 1..(b - a) : s[j] = a + j
  BY SliceOfBytes
<1> HIDE DEF s
<1>2. ASSUME NEW i \in 1..q.size PROVE InRange(q, i) <=> \E j \in DOMAIN s : s[j] = i
  <2>1. ASSUME a < i, i <= b PROVE \E j \in DOMAIN s : s[j] = i
    <3>1. i - a \in 1..(b - a) /\ a + (i - a) = i
      BY <2>1
    <3> QED BY <1>1, <3>1
  <2>2. ASSUME NEW j \in DOMAIN s, s[j] = i PROVE a < i /\ i <= b
    BY <1>1, <2>2
  <2>3. InRange(q, i) <=> a < i /\ i <= b
    OBVIOUS
  <2> QED BY <2>1, <2>2, <2>3
<1>3. ASSUME NEW j \in DOMAIN s PROVE s[j] = s[1] + j - 1
  <2>1. j \in 1..(b - a) /\ 1 \in 1..(b - a)
    BY <1>1
  <2> QED BY <1>1, <2>1
<1> QED BY <1>2, <1>3 DEF Exactly, s

LEMMA WholeIsExact ==
    ASSUME NEW q, q.size \in Nat, NoRange(q)
    PROVE  Exactly(q, Bytes(q.size))
<1>1. \A i \in 1..q.size : InRange(q, i)
  BY DEF InRange, NoRange, OrElse
<1>2. DOMAIN Bytes(q.size) = 1..q.size /\ \A j \in 1..q.size : Bytes(q.size)[j] = j
  BY DEF Bytes
<1>3. ASSUME NEW j \in 1..q.size PROVE j = 1 + j - 1 /\ 1 \in 1..q.size
  OBVIOUS
<1> QED BY <1>1, <1>2, <1>3 DEF Exactly

(* Below the largest size_t nothing wraps.                                 *)
LEMMA NoWrap == \A n \in 0..SizeMax : SizeT(n) = n
BY SizeAssumption DEF SizeT

LEMMA RangeTyped ==
    ASSUME NEW q \in RangeCases
    PROVE  /\ q.size \in 0..MaxBytes /\ q.size \in Nat /\ q.size <= SizeMax
           /\ q.offset = NotGiven \/ q.offset \in 0..SizeMax
           /\ q.length = NotGiven \/ q.length \in 0..SizeMax
           /\ OrElse(q.offset, 0) \in 0..SizeMax /\ OrElse(q.offset, 0) \in Nat
           /\ SizeMax \in Nat /\ MaxBytes \in Nat
<1>1. MaxBytes \in Nat /\ SizeMax \in Nat /\ SizeMax > MaxBytes
  BY SizeAssumption
<1>2. q.size \in 0..MaxBytes /\ q.offset \in RangeNumbers /\ q.length \in RangeNumbers
  BY DEF RangeCases
<1>3. \A x \in RangeNumbers : x = NotGiven \/ x \in 0..SizeMax
  BY <1>1 DEF RangeNumbers
<1> QED BY <1>1, <1>2, <1>3 DEF OrElse, NotGiven

LEMMA MemoryIsExact ==
    ASSUME NEW q \in RangeCases, memory_download(q).ok
    PROVE  Exactly(q, memory_download(q).bytes)
<1> DEFINE offset == OrElse(q.offset, 0)
           length == Least(OrElse(q.length, SizeT(q.size - offset)), q.size - offset)
<1>1. CASE NoRange(q)
  BY <1>1, RangeTyped, WholeIsExact DEF memory_download, SentBytes
<1>2. CASE ~NoRange(q)
  <2>1. ~(offset >= q.size) /\ memory_download(q) = SentBytes(SubSeq(Bytes(q.size), offset + 1, offset + length))
    BY <1>2 DEF memory_download, RangeError
  <2>2. offset \in Nat /\ q.size \in Nat /\ q.size <= SizeMax /\ SizeMax \in Nat
        /\ (q.length = NotGiven \/ q.length \in Nat)
    BY RangeTyped
  <2>3. q.size - offset \in 0..SizeMax /\ SizeT(q.size - offset) = q.size - offset
    BY <2>1, <2>2, NoWrap
  <2>4. /\ length \in Nat /\ offset + length <= q.size /\ offset + length \in Nat
        /\ \A i \in 1..q.size : InRange(q, i) <=> offset < i /\ i <= offset + length
    <3> HIDE DEF offset
    <3>1. CASE q.length = NotGiven
      <4>1. length = q.size - offset
        BY <2>2, <2>3, <3>1 DEF Least, OrElse
      <4> QED BY <2>1, <2>2, <3>1, <4>1 DEF InRange, offset
    <3>2. CASE q.length # NotGiven /\ q.length < q.size - offset
      <4>1. length = q.length
        BY <2>2, <2>3, <3>2 DEF Least, OrElse
      <4> QED BY <2>1, <2>2, <3>2, <4>1 DEF InRange, offset
    <3>3. CASE q.length # NotGiven /\ ~(q.length < q.size - offset)
      <4>1. length = q.size - offset
        BY <2>2, <2>3, <3>3 DEF Least, OrElse
      <4> QED BY <2>1, <2>2, <3>3, <4>1 DEF InRange, offset
    <3> QED BY <3>1, <3>2, <3>3
  <2> HIDE DEF offset, length
  <2>5. Exactly(q, SubSeq(Bytes(q.size), offset + 1, offset + length))
    BY <2>2, <2>4, SliceIsExact
  <2> QED BY <2>1, <2>5 DEF SentBytes
<1> QED BY <1>1, <1>2

LEMMA S3IsExact ==
    ASSUME NEW q \in RangeCases, s3_download(q).ok, q.length # 0, OrElse(q.offset, 0) + q.length <= SizeMax
    PROVE  Exactly(q, s3_download(q).bytes)
<1> DEFINE offset == OrElse(q.offset, 0)
           last == SizeT(offset + q.length - 1)
<1>1. CASE NoRange(q)
  BY <1>1, RangeTyped, WholeIsExact DEF s3_download, SentBytes
<1>2. CASE ~NoRange(q)
  <2>1. offset \in Nat /\ q.size \in Nat /\ q.size <= SizeMax /\ SizeMax \in Nat
        /\ (q.length = NotGiven \/ q.length \in Nat \ {0})
    BY RangeTyped
  <2>2. CASE q.length = NotGiven
    <3>1. s3_download(q) = S3Get(q.size, offset, NotGiven)
      BY <1>2, <2>2 DEF s3_download
    <3>2. ~(offset >= q.size) /\ s3_download(q) = SentBytes(SubSeq(Bytes(q.size), offset + 1, q.size))
      BY <3>1 DEF S3Get, RangeError
    <3>3. \A i \in 1..q.size : InRange(q, i) <=> offset < i /\ i <= q.size
      BY <2>1, <2>2 DEF InRange
    <3> HIDE DEF offset
    <3>4. Exactly(q, SubSeq(Bytes(q.size), offset + 1, q.size))
      BY <2>1, <3>2, <3>3, SliceIsExact
    <3> QED BY <3>2, <3>4 DEF SentBytes
  <2>3. CASE q.length # NotGiven
    <3>1. s3_download(q) = S3Get(q.size, offset, last)
      BY <1>2, <2>3 DEF s3_download
    <3>2. offset + q.length - 1 \in 0..SizeMax
      BY <2>1, <2>3
    <3>3. last = offset + q.length - 1
      BY <3>2, NoWrap
    <3> HIDE DEF last
    <3>4. last # NotGiven /\ ~(last < offset)
      BY <2>1, <2>3, <3>3 DEF NotGiven
    <3>5. ~(offset >= q.size) /\ s3_download(q) = SentBytes(SubSeq(Bytes(q.size), offset + 1, Least(last + 1, q.size)))
      BY <3>1, <3>4 DEF S3Get, RangeError
    <3> DEFINE b == Least(last + 1, q.size)
    <3> HIDE DEF offset
    <3>6. /\ b \in Nat /\ offset <= b /\ b <= q.size
          /\ \A i \in 1..q.size : InRange(q, i) <=> offset < i /\ i <= b
      <4>1. last + 1 = offset + q.length
        BY <2>1, <2>3, <3>3
      <4>2. CASE last + 1 < q.size
        BY <2>1, <2>3, <3>5, <4>1, <4>2 DEF Least, InRange, offset
      <4>3. CASE ~(last + 1 < q.size)
        BY <2>1, <2>3, <3>5, <4>1, <4>3 DEF Least, InRange, offset
      <4> QED BY <4>2, <4>3
    <3> HIDE DEF b
    <3>7. Exactly(q, SubSeq(Bytes(q.size), offset + 1, b))
      BY <2>1, <3>6, SliceIsExact
    <3> QED BY <3>5, <3>7 DEF SentBytes, b
  <2> QED BY <2>2, <2>3
<1> QED BY <1>1, <1>2

(* A range that begins inside the blob is sent.                            *)
LEMMA InsideIsSent ==
    ASSUME NEW q \in RangeCases, NoRange(q) \/ OrElse(q.offset, 0) < q.size
    PROVE  memory_download(q).ok /\ s3_download(q).ok
<1>1. OrElse(q.offset, 0) \in Nat /\ q.size \in Nat
  BY RangeTyped
<1>2. ~NoRange(q) => ~(OrElse(q.offset, 0) >= q.size)
  BY <1>1
<1>3. memory_download(q).ok
  BY <1>2 DEF memory_download, SentBytes
<1>4. s3_download(q).ok
  BY <1>2 DEF s3_download, S3Get, SentBytes
<1> QED BY <1>3, <1>4

(* What was read is what the backend of the case reads.                    *)
RangeRead(q) == IF q.backend = "s3" THEN s3_download(q) ELSE memory_download(q)
RangeInv == rgcase \in RangeCases /\ rgout \in {Unsent200, RangeRead(rgcase)}

LEMMA RangeStep == RangeInv /\ [ReadRange]_rangeVars => RangeInv'
<1> SUFFICES ASSUME RangeInv, [ReadRange]_rangeVars PROVE RangeInv'
  OBVIOUS
<1>1. CASE ReadRange
  <2>1. rgcase \in RangeCases /\ rgcase' = rgcase /\ rgcase.backend \in {"memory", "fs", "s3"}
    BY <1>1 DEF RangeInv, ReadRange, RangeCases
  <2>2. rgout' = RangeRead(rgcase)
    BY <1>1, <2>1 DEF ReadRange, RangeRead, fs_download
  <2> QED BY <2>1, <2>2 DEF RangeInv
<1>2. CASE UNCHANGED rangeVars
  BY <1>2 DEF RangeInv, rangeVars
<1> QED BY <1>1, <1>2

LEMMA RangesRead == SpecRanges => []RangeInv
<1>1. InitRanges => RangeInv
  BY DEF InitRanges, RangeInv
<1> QED BY <1>1, RangeStep, PTL DEF SpecRanges

LEMMA RangesOK == RangeInv => RangeIsExact /\ ReadableIsRead
<1> SUFFICES ASSUME RangeInv PROVE RangeIsExact /\ ReadableIsRead
  OBVIOUS
<1>1. rgcase \in RangeCases /\ ~Unsent200.ok
  BY DEF RangeInv, Unsent200
<1>2. CASE rgout = Unsent200
  BY <1>1, <1>2 DEF RangeIsExact, ReadableIsRead
<1>3. CASE rgout = RangeRead(rgcase)
  <2>1. RangeIsExact
    <3> SUFFICES ASSUME rgout.ok,
                        rgcase.backend = "s3" => rgcase.length # 0 /\ OrElse(rgcase.offset, 0) + rgcase.length <= SizeMax
                 PROVE  Exactly(rgcase, rgout.bytes)
      BY DEF RangeIsExact, Exactly
    <3> QED BY <1>1, <1>3, MemoryIsExact, S3IsExact DEF RangeRead
  <2>2. ReadableIsRead
    BY <1>1, <1>3, InsideIsSent DEF ReadableIsRead, RangeRead
  <2> QED BY <2>1, <2>2
<1> QED BY <1>2, <1>3 DEF RangeInv

(* A range of a blob is the bytes asked for, from each of the backends     *)
(* (BlobStorage::download), and a range that begins inside it is sent.     *)
THEOREM RangesStayExact == SpecRanges => [](RangeIsExact /\ ReadableIsRead)
BY RangesRead, RangesOK, PTL

(***************************************************************************)
(* HttpParsing                                                             *)
(***************************************************************************)
(***************************************************************************)
(* Numbers and slices                                                      *)
(***************************************************************************)
(* A set of natural numbers with an element has a least one.               *)
LEMMA LeastNat ==
    ASSUME NEW T, T \subseteq Nat, T # {}
    PROVE  \E m \in T : \A k \in T : m <= k
<1> DEFINE R == OpToRel(<, Nat)
<1>1. IsWellFoundedOn(R, Nat)
  BY NatLessThanWellFounded
<1>2. \A x, y \in Nat : y < x => <<y, x>> \in R
  BY DEF OpToRel
<1> HIDE DEF R
<1>3. PICK m \in T : \A y \in T : ~ (<<y, m>> \in R)
  BY <1>1, WFMin
<1>4. m \in Nat /\ \A k \in T : k \in Nat /\ ~(k < m)
  BY <1>2, <1>3
<1> QED BY <1>4

LEMMA SetInduction ==
    ASSUME NEW Elems, 0 \in Elems, \A n \in Nat : n \in Elems => n + 1 \in Elems
    PROVE  Nat \subseteq Elems
<1> SUFFICES ASSUME Nat \ Elems # {} PROVE FALSE
  OBVIOUS
<1> DEFINE T == Nat \ Elems
<1>1. PICK m \in T : \A k \in T : m <= k
  <2>1. T \subseteq Nat /\ T # {}
    OBVIOUS
  <2> HIDE DEF T
  <2> QED BY <2>1, LeastNat
<1>2. m \in Nat /\ m # 0 /\ m - 1 \in Nat /\ (m - 1) + 1 = m /\ ~(m <= m - 1)
  OBVIOUS
<1>3. m - 1 \in Elems
  BY <1>1, <1>2
<1> QED BY <1>2, <1>3

LEMMA LeastIsLeast ==
    ASSUME NEW Places, Places \subseteq Nat, Places # {}, NEW default
    PROVE  LeastOr(Places, default) \in Places /\ \A j \in Places : LeastOr(Places, default) <= j
<1>1. \E i \in Places : \A j \in Places : i <= j
  BY LeastNat
<1> QED BY <1>1 DEF LeastOr

LEMMA SliceOfPrefix ==
    ASSUME NEW Elems, NEW data \in Seq(Elems), NEW n \in 0..Len(data), NEW a \in Nat \ {0}, NEW b \in Int, b <= n
    PROVE  SubSeq(SubSeq(data, 1, n), a, b) = SubSeq(data, a, b)
<1> DEFINE p == SubSeq(data, 1, n)
<1>1. p \in Seq(Elems) /\ Len(p) = n /\ \A i \in 1..n : p[i] = data[i]
  OBVIOUS
<1> HIDE DEF p
<1>2. CASE a <= b
  <2>0. a \in 1..Len(p) /\ b \in 1..Len(p) /\ a \in 1..Len(data) /\ b \in 1..Len(data)
    BY <1>1, <1>2
  <2>1. /\ SubSeq(p, a, b) = [i \in 1..(b - a + 1) |-> p[i + a - 1]]
        /\ SubSeq(data, a, b) = [i \in 1..(b - a + 1) |-> data[i + a - 1]]
    BY <1>1, <2>0
  <2>2. \A i \in 1..(b - a + 1) : p[i + a - 1] = data[i + a - 1]
    BY <1>1, <1>2
  <2> QED BY <2>1, <2>2 DEF p
<1>3. CASE ~(a <= b)
  <2>1. SubSeq(p, a, b) = <<>> /\ SubSeq(data, a, b) = <<>>
    BY <1>1, <1>3
  <2> QED BY <2>1 DEF p
<1> QED BY <1>2, <1>3

(***************************************************************************)
(* HttpParsing: the parts of a request                                     *)
(***************************************************************************)
Crlfs(data) == {i \in DOMAIN data : AtCrlf(data, i)}
HeadEnds(data) == {i \in 4..Len(data) : AtCrlf(data, i - 3) /\ AtCrlf(data, i - 1)}
EmptyLines(data) == {i \in (FirstCrlf(data) + 2)..Len(data) : AtCrlf(data, i) /\ AtCrlf(data, i - 2)}

(* Where the head ends: at the first empty line.                           *)
LEMMA HeadEndIs ==
    ASSUME NEW Elems, NEW data \in Seq(Elems)
    PROVE  /\ HeadEnd(data) # 0 <=> HeadEnds(data) # {}
           /\ HeadEnd(data) # 0 => HeadEnd(data) \in HeadEnds(data) /\ \A j \in HeadEnds(data) : HeadEnd(data) <= j
           /\ HeadEnd(data) \in 0..Len(data)
<1>1. HeadEnds(data) \subseteq Nat /\ 0 \notin HeadEnds(data) /\ HeadEnds(data) \subseteq 0..Len(data)
  BY DEF HeadEnds
<1>2. HeadEnd(data) = LeastOr(HeadEnds(data), 0)
  BY DEF HeadEnd, HeadEnds
<1>3. CASE HeadEnds(data) = {}
  BY <1>2, <1>3 DEF LeastOr
<1>4. CASE HeadEnds(data) # {}
  BY <1>1, <1>2, <1>4, LeastIsLeast
<1> QED BY <1>3, <1>4

(* In data with a whole head the request line ends before its empty line,  *)
(* and the header lines end there.                                         *)
LEMMA LinesEnd ==
    ASSUME NEW Elems, NEW data \in Seq(Elems), HeadEnd(data) # 0
    PROVE  /\ FirstCrlf(data) \in 1..(HeadEnd(data) - 3)
           /\ AtCrlf(data, FirstCrlf(data)) /\ \A j \in DOMAIN data : AtCrlf(data, j) => FirstCrlf(data) <= j
           /\ HeaderEnd(data) = HeadEnd(data) - 1
<1> DEFINE h == HeadEnd(data)
<1>1. h \in 4..Len(data) /\ AtCrlf(data, h - 3) /\ AtCrlf(data, h - 1) /\ \A j \in HeadEnds(data) : h <= j
  BY HeadEndIs DEF HeadEnds
<1>2. Len(data) \in Nat /\ DOMAIN data = 1..Len(data) /\ h - 3 \in DOMAIN data
  BY <1>1
<1> HIDE DEF h
<1>3. Crlfs(data) \subseteq Nat /\ h - 3 \in Crlfs(data)
  BY <1>1, <1>2 DEF Crlfs
<1> DEFINE c == FirstCrlf(data)
<1>4. c = LeastOr(Crlfs(data), 0)
  BY DEF FirstCrlf, Crlfs
<1>5. c \in Crlfs(data) /\ \A j \in Crlfs(data) : c <= j
  BY <1>3, <1>4, LeastIsLeast
<1>6. c \in 1..(h - 3) /\ AtCrlf(data, c) /\ \A j \in DOMAIN data : AtCrlf(data, j) => c <= j
  BY <1>1, <1>2, <1>3, <1>5 DEF Crlfs
<1>7. EmptyLines(data) \subseteq Nat /\ h - 1 \in EmptyLines(data)
  BY <1>1, <1>2, <1>6 DEF EmptyLines
<1>8. ASSUME NEW j \in EmptyLines(data) PROVE h - 1 <= j
  <2>1. j \in (c + 2)..Len(data) /\ AtCrlf(data, j) /\ AtCrlf(data, j - 2)
    BY <1>2 DEF EmptyLines
  <2>2. j + 1 \in 4..Len(data) /\ (j + 1) - 3 = j - 2 /\ (j + 1) - 1 = j
    BY <1>6, <2>1 DEF AtCrlf
  <2>3. j + 1 \in HeadEnds(data)
    BY <2>1, <2>2 DEF HeadEnds
  <2> QED BY <1>1, <2>2, <2>3
<1> DEFINE e == HeaderEnd(data)
<1>9. e = LeastOr(EmptyLines(data), Len(data))
  BY DEF HeaderEnd, EmptyLines
<1>10. e \in EmptyLines(data) /\ \A j \in EmptyLines(data) : e <= j
  BY <1>7, <1>9, LeastIsLeast
<1>11. e = h - 1
  <2>1. e <= h - 1 /\ h - 1 <= e /\ e \in Nat
    BY <1>7, <1>8, <1>10
  <2> HIDE DEF e
  <2> QED BY <1>1, <2>1
<1> QED BY <1>6, <1>11 DEF h

(* A prefix has the head of the whole, if that is in it, and no other.     *)
LEMMA HeadOfPrefix ==
    ASSUME NEW Elems, NEW data \in Seq(Elems), NEW n \in 0..Len(data)
    PROVE  LET p == SubSeq(data, 1, n)
           IN  /\ HeadEnd(p) # 0 => HeadEnd(p) = HeadEnd(data)
               /\ HeadEnd(data) # 0 /\ HeadEnd(data) <= n => HeadEnd(p) = HeadEnd(data)
<1> DEFINE p == SubSeq(data, 1, n)
<1>1. p \in Seq(Elems) /\ Len(p) = n /\ Len(data) \in Nat /\ n \in Nat /\ n <= Len(data) /\ \A i \in 1..n : p[i] = data[i]
  OBVIOUS
<1> HIDE DEF p
<1>2. \A i \in Int : AtCrlf(p, i) <=> AtCrlf(data, i) /\ i + 1 <= n
  BY <1>1 DEF AtCrlf
<1>3. HeadEnds(p) = {i \in HeadEnds(data) : i <= n}
  BY <1>1, <1>2 DEF HeadEnds
<1>4. /\ HeadEnd(data) \in 0..Len(data)
      /\ HeadEnd(data) # 0 => HeadEnd(data) \in HeadEnds(data) /\ \A j \in HeadEnds(data) : HeadEnd(data) <= j
      /\ HeadEnd(data) # 0 <=> HeadEnds(data) # {}
  BY HeadEndIs
<1>5. /\ HeadEnd(p) \in 0..n
      /\ HeadEnd(p) # 0 => HeadEnd(p) \in HeadEnds(p) /\ \A j \in HeadEnds(p) : HeadEnd(p) <= j
      /\ HeadEnd(p) # 0 <=> HeadEnds(p) # {}
  BY <1>1, HeadEndIs
<1>6. ASSUME HeadEnd(p) # 0 PROVE HeadEnd(p) = HeadEnd(data)
  <2>1. HeadEnd(p) \in HeadEnds(data) /\ HeadEnd(data) # 0
    BY <1>3, <1>4, <1>5, <1>6
  <2>2. HeadEnd(data) <= HeadEnd(p) /\ HeadEnd(data) \in HeadEnds(p)
    BY <1>1, <1>3, <1>4, <1>5, <2>1
  <2> QED BY <1>1, <1>4, <1>5, <1>6, <2>1, <2>2
<1>7. ASSUME HeadEnd(data) # 0, HeadEnd(data) <= n PROVE HeadEnd(p) # 0
  BY <1>3, <1>4, <1>5, <1>7
<1> QED BY <1>6, <1>7 DEF p

(* The parts of a prefix that has the head are those of the whole, up to   *)
(* where the body is cut.                                                  *)
LEMMA PartsOfPrefix ==
    ASSUME NEW Elems, NEW data \in Seq(Elems), HeadEnd(data) # 0, NEW n \in HeadEnd(data)..Len(data)
    PROVE  LET p == SubSeq(data, 1, n)
           IN  /\ RequestLine(p) = RequestLine(data)
               /\ HeaderLines(p) = HeaderLines(data)
               /\ BodyOf(p) = SubSeq(data, HeadEnd(data) + 1, n)
<1> DEFINE p == SubSeq(data, 1, n)
           h == HeadEnd(data)
<1>1. h \in 4..Len(data) /\ n \in 0..Len(data) /\ h <= n /\ n \in Nat /\ Len(data) \in Nat
  BY HeadEndIs DEF HeadEnds
<1>2. p \in Seq(Elems) /\ Len(p) = n /\ \A i \in 1..n : p[i] = data[i]
  BY <1>1
<1>3. HeadEnd(p) = h
  BY <1>1, HeadOfPrefix
<1> HIDE DEF p, h
<1>4. /\ FirstCrlf(data) \in 1..(h - 3) /\ AtCrlf(data, FirstCrlf(data))
      /\ \A j \in DOMAIN data : AtCrlf(data, j) => FirstCrlf(data) <= j
      /\ HeaderEnd(data) = h - 1
  BY LinesEnd DEF h
<1>5. /\ FirstCrlf(p) \in 1..(h - 3) /\ AtCrlf(p, FirstCrlf(p))
      /\ \A j \in DOMAIN p : AtCrlf(p, j) => FirstCrlf(p) <= j
      /\ HeaderEnd(p) = h - 1
  BY <1>1, <1>2, <1>3, LinesEnd
<1>6. FirstCrlf(p) = FirstCrlf(data)
  <2>1. AtCrlf(data, FirstCrlf(p)) /\ AtCrlf(p, FirstCrlf(data))
    BY <1>1, <1>2, <1>4, <1>5 DEF AtCrlf
  <2>2. FirstCrlf(p) \in DOMAIN data /\ FirstCrlf(data) \in DOMAIN p
    BY <1>1, <1>2, <1>4, <1>5
  <2>3. FirstCrlf(p) <= FirstCrlf(data) /\ FirstCrlf(data) <= FirstCrlf(p)
    BY <1>4, <1>5, <2>1, <2>2
  <2> QED BY <1>4, <1>5, <2>3
<1>7. RequestLine(p) = RequestLine(data)
  <2> DEFINE b == FirstCrlf(data) - 1
  <2>1. b \in Int /\ b <= n /\ 1 \in Nat \ {0}
    BY <1>1, <1>4
  <2> HIDE DEF b
  <2>2. SubSeq(p, 1, b) = SubSeq(data, 1, b)
    BY <1>1, <2>1, SliceOfPrefix DEF p
  <2> QED BY <1>6, <2>2 DEF RequestLine, b
<1>8. HeaderLines(p) = HeaderLines(data)
  <2> DEFINE a == FirstCrlf(data) + 2
             b == h - 2
  <2>1. a \in Nat \ {0} /\ b \in Int /\ b <= n
    BY <1>1, <1>4
  <2>2. (h - 1) - 1 = b
    BY <1>1
  <2> HIDE DEF a, b
  <2>3. SubSeq(p, a, b) = SubSeq(data, a, b)
    BY <1>1, <2>1, SliceOfPrefix DEF p
  <2> QED BY <1>4, <1>5, <1>6, <2>2, <2>3 DEF HeaderLines, a
<1>9. BodyOf(p) = SubSeq(data, h + 1, n)
  <2>1. h + 1 \in Nat \ {0} /\ n \in Int /\ n <= n /\ (h - 1) + 2 = h + 1
    BY <1>1
  <2>2. SubSeq(p, h + 1, n) = SubSeq(data, h + 1, n)
    <3> DEFINE a == h + 1
    <3>1. a \in Nat \ {0}
      BY <2>1
    <3> HIDE DEF a
    <3>2. SubSeq(p, a, n) = SubSeq(data, a, n)
      BY <1>1, <2>1, <3>1, SliceOfPrefix DEF p
    <3> QED BY <3>2 DEF a
  <2> QED BY <1>2, <1>5, <2>1, <2>2 DEF BodyOf
<1> QED BY <1>7, <1>8, <1>9 DEF p, h

(***************************************************************************)
(* HttpParsing: answers                                                    *)
(***************************************************************************)
Servers == {"HttpServer", "Server"}
ParseVerdict(server, line, read) == IF server = "HttpServer" THEN HttpVerdict(line, read) ELSE ServerVerdict(line, read)
Reply(server, request) == IF server = "HttpServer" THEN processRequest(request) ELSE ServerProcess(request)
AnswerOf(server, line, read, body) ==
    LET request == Request(ParseVerdict(server, line, read), line, read, body)
    IN Replied(request, Reply(server, request))

LEMMA AnswerIs ==
    ASSUME NEW server \in Servers, NEW data
    PROVE  Answer(server, data) =
             AnswerOf(server, RequestLine(data), ReadHeaders(server, HeaderLines(data)), BodyOf(data))
BY DEF Servers, Answer, AnswerOf, ParseVerdict, Reply, HttpAnswer, ServerAnswer, HttpParse, ServerParse, HttpRequest, ServerRequest

(* What is refused is answered by the status alone, what is not by a reply.*)
LEMMA AnswerShape ==
    ASSUME NEW server, NEW line, NEW read, NEW body
    PROVE  LET v == ParseVerdict(server, line, read)
               request == Request(v, line, read, body)
               a == AnswerOf(server, line, read, body)
           IN  /\ a.request = request
               /\ v # 0 => a.status = (IF v # 200 THEN v ELSE Reply(server, request).status)
               /\ v = 0 => a = [status |-> Reply(server, request).status, reply |-> Reply(server, request),
                                request |-> request]
               /\ "reply" \in DOMAIN a <=> v \in {0, 200}
               /\ "request" \in DOMAIN a
               /\ a.status # 0
               /\ request.body \in {<<>>, body}
               /\ "reply" \in DOMAIN a => a.reply = Reply(server, request)
<1> DEFINE v == ParseVerdict(server, line, read)
           request == Request(v, line, read, body)
           reply == Reply(server, request)
           a == AnswerOf(server, line, read, body)
<1>1. request.status = IF v # 0 THEN v ELSE 200
  BY DEF Request, Error
<1>2. a = Replied(request, reply)
  BY DEF AnswerOf
<1>5. request.body \in {<<>>, body} /\ reply.status # 0
  BY DEF Request, Error, Reply, processRequest, ServerProcess, process_not_found
<1> HIDE DEF v, request, reply, a
<1>3. CASE request.status # 200
  BY <1>1, <1>2, <1>3, <1>5 DEF Replied, v, request, reply, a
<1>4. CASE request.status = 200
  BY <1>1, <1>2, <1>4, <1>5 DEF Replied, v, request, reply, a
<1> QED BY <1>3, <1>4


(* What came of the body changes neither status nor reply.                 *)
LEMMA BodyDoesNotMatter ==
    ASSUME NEW server, NEW line, NEW read, NEW whole, NEW piece
    PROVE  LET a == AnswerOf(server, line, read, whole)
               b == AnswerOf(server, line, read, piece)
           IN  /\ a.status = b.status
               /\ "reply" \in DOMAIN a <=> "reply" \in DOMAIN b
               /\ "reply" \in DOMAIN a => a.reply = b.reply
<1> DEFINE v == ParseVerdict(server, line, read)
           p == Request(v, line, read, whole)
           q == Request(v, line, read, piece)
           a == AnswerOf(server, line, read, whole)
           b == AnswerOf(server, line, read, piece)
<1>1. p.path = q.path /\ p.headers = q.headers
  BY DEF Request, Error
<1> HIDE DEF v, p, q
<1>2. Reply(server, p) = Reply(server, q)
  BY <1>1 DEF Reply, processRequest, ServerProcess, process_health_check, process_version, process_status,
              process_not_found, realIP, request_real_ip
<1>3. /\ v # 0 => a.status = (IF v # 200 THEN v ELSE Reply(server, p).status)
      /\ v = 0 => a = [status |-> Reply(server, p).status, reply |-> Reply(server, p), request |-> p]
      /\ "reply" \in DOMAIN a <=> v \in {0, 200}
      /\ "reply" \in DOMAIN a => a.reply = Reply(server, p)
  BY AnswerShape DEF v, p, a
<1>4. /\ v # 0 => b.status = (IF v # 200 THEN v ELSE Reply(server, q).status)
      /\ v = 0 => b = [status |-> Reply(server, q).status, reply |-> Reply(server, q), request |-> q]
      /\ "reply" \in DOMAIN b <=> v \in {0, 200}
      /\ "reply" \in DOMAIN b => b.reply = Reply(server, q)
  BY AnswerShape DEF v, q, b
<1> HIDE DEF a, b
<1> QED BY <1>2, <1>3, <1>4 DEF a, b

(* The answer to a prefix with a whole head is that to the head alone.     *)
LEMMA AnswerToPrefix ==
    ASSUME NEW Elems, NEW data \in Seq(Elems), HeadEnd(data) # 0, NEW n \in HeadEnd(data)..Len(data), NEW server \in Servers
    PROVE  LET whole == Answer(server, SubSeq(data, 1, HeadEnd(data)))
               a == Answer(server, SubSeq(data, 1, n))
           IN  /\ a.status = whole.status
               /\ "reply" \in DOMAIN whole => /\ a.reply = whole.reply
                                              /\ IsPrefix(a.request.body, SubSeq(data, HeadEnd(data) + 1, Len(data)))
<1> DEFINE h == HeadEnd(data)
           line == RequestLine(data)
           read == ReadHeaders(server, HeaderLines(data))
           body(k) == SubSeq(data, h + 1, k)
<1>1. h \in h..Len(data) /\ h \in 4..Len(data) /\ Len(data) \in Nat
  BY HeadEndIs DEF HeadEnds
<1>2. ASSUME NEW k \in h..Len(data) PROVE Answer(server, SubSeq(data, 1, k)) = AnswerOf(server, line, read, body(k))
  <2> DEFINE p == SubSeq(data, 1, k)
  <2>1. RequestLine(p) = RequestLine(data) /\ HeaderLines(p) = HeaderLines(data) /\ BodyOf(p) = body(k)
    BY PartsOfPrefix
  <2> HIDE DEF p
  <2>2. Answer(server, p) = AnswerOf(server, RequestLine(p), ReadHeaders(server, HeaderLines(p)), BodyOf(p))
    BY AnswerIs
  <2> QED BY <2>1, <2>2 DEF p
<1> HIDE DEF line, read
<1>3. Answer(server, SubSeq(data, 1, h)) = AnswerOf(server, line, read, body(h))
  BY <1>1, <1>2
<1>4. Answer(server, SubSeq(data, 1, n)) = AnswerOf(server, line, read, body(n))
  BY <1>2
<1>5. AnswerOf(server, line, read, body(n)).request.body \in {<<>>, body(n)}
  <2> DEFINE b == body(n)
             a == AnswerOf(server, line, read, b)
             request == Request(ParseVerdict(server, line, read), line, read, b)
  <2> HIDE DEF b
  <2>1. a.request = request /\ request.body \in {<<>>, b}
    <3>1. a.request = request
      BY AnswerShape
    <3>2. request.body \in {<<>>, b}
      BY AnswerShape
    <3> QED BY <3>1, <3>2
  <2> HIDE DEF a, request, b
  <2>2. a.request.body \in {<<>>, b}
    BY <2>1
  <2> QED BY <2>2 DEF a, b
<1>6. IsPrefix(body(n), body(Len(data))) /\ IsPrefix(<<>>, body(Len(data)))
  <2>1. \A k \in h..Len(data) : body(k) \in Seq(Elems) /\ Len(body(k)) = k - h /\ \A i \in 1..(k - h) : body(k)[i] = data[h + i]
    <3> SUFFICES ASSUME NEW k \in h..Len(data)
                 PROVE  body(k) \in Seq(Elems) /\ Len(body(k)) = k - h /\ \A i \in 1..(k - h) : body(k)[i] = data[h + i]
      OBVIOUS
    <3> HIDE DEF h
    <3> QED BY <1>1
  <2> DEFINE x == body(n)
             y == body(Len(data))
  <2>2. /\ x \in Seq(Elems) /\ y \in Seq(Elems) /\ Len(x) = n - h /\ Len(y) = Len(data) - h
        /\ \A i \in 1..(n - h) : x[i] = data[h + i] /\ y[i] = data[h + i]
    BY <1>1, <2>1
  <2> HIDE DEF x, y, h
  <2>3. SubSeq(x, 1, n - h) = SubSeq(y, 1, n - h)
    BY <1>1, <2>2
  <2>4. IsPrefix(x, y)
    BY <1>1, <2>2, <2>3 DEF IsPrefix
  <2>5. <<>> \in Seq(Elems) /\ Len(<<>>) = 0 /\ SubSeq(<<>>, 1, 0) = <<>> /\ SubSeq(y, 1, 0) = <<>>
    BY <2>2
  <2>6. IsPrefix(<<>>, y)
    BY <1>1, <2>2, <2>5 DEF IsPrefix
  <2> QED BY <2>4, <2>6 DEF x, y
<1>7. /\ AnswerOf(server, line, read, body(n)).status = AnswerOf(server, line, read, body(h)).status
      /\ "reply" \in DOMAIN AnswerOf(server, line, read, body(h)) =>
            AnswerOf(server, line, read, body(n)).reply = AnswerOf(server, line, read, body(h)).reply
  BY BodyDoesNotMatter
<1> HIDE DEF body
<1> QED BY <1>3, <1>4, <1>5, <1>6, <1>7 DEF body, h

(***************************************************************************)
(* HttpParsing: the invariant                                              *)
(***************************************************************************)
(* The words a stream is made of.                                          *)
AnyWord == Methods \cup Paths \cup HeaderWords \cup {"CR", "LF", "HTTP/1.1", "x"}

(* A stream that begins with a method or with an empty line.               *)
BeginsWell(s) == Len(s) >= 1 => s[1] \in Methods \/ (s[1] = "CR" /\ (Len(s) >= 2 => s[2] = "LF"))

Received ==
    LET end == HeadEnd(Arrived(hgot)) IN
    \/ hout = Pending /\ end = 0 /\ hgot < MaxRequest
    \/ hout = Answer(hcase.server, Arrived(hgot)) /\ end # 0 /\ hgot < MaxRequest + BufferSize
    \/ hout = [status |-> 413] /\ end = 0 /\ hgot >= MaxRequest
    \/ hout = NoAnswer /\ end = 0 /\ hgot = Len(hcase.stream)

ParsingInv ==
    /\ hcase.server \in Servers /\ hcase.stream \in Seq(AnyWord) /\ BeginsWell(hcase.stream)
    /\ hgot \in 0..Len(hcase.stream)
    /\ Received

LEMMA AnswersAreAnswers ==
    ASSUME NEW server \in Servers, NEW data
    PROVE  /\ Answer(server, data) # Pending
           /\ "request" \in DOMAIN Answer(server, data)
<1> DEFINE line == RequestLine(data)
           read == ReadHeaders(server, HeaderLines(data))
           body == BodyOf(data)
           a == AnswerOf(server, line, read, body)
<1>1. Answer(server, data) = a
  BY AnswerIs
<1>2. a.status # 0 /\ "request" \in DOMAIN a
  BY AnswerShape
<1> HIDE DEF a
<1> QED BY <1>1, <1>2 DEF Pending

LEMMA ParsingStep == ParsingInv /\ [NextParsing]_parseVars => ParsingInv'
<1> SUFFICES ASSUME ParsingInv, [NextParsing]_parseVars PROVE ParsingInv'
  OBVIOUS
<1> DEFINE stream == hcase.stream
<1>0. /\ hcase.server \in Servers /\ stream \in Seq(AnyWord) /\ BeginsWell(stream) /\ hgot \in 0..Len(stream)
      /\ Received /\ Len(stream) \in Nat /\ MaxRequest \in Nat /\ BufferSize \in Nat
  BY ParsingAssumption DEF ParsingInv
<1>1. CASE NextParsing
  <2>1. hcase' = hcase /\ hout = Pending
    BY <1>1 DEF NextParsing
  <2>2. HeadEnd(Arrived(hgot)) = 0 /\ hgot < MaxRequest
    <3>1. hout # Answer(hcase.server, Arrived(hgot))
      BY <1>0, <2>1, AnswersAreAnswers
    <3> QED BY <1>0, <2>1, <3>1 DEF Received, Pending, NoAnswer
  <2>3. CASE Receive
    <3>1. PICK n \in (hgot + 1)..(hgot + BufferSize) :
            /\ n <= Len(stream) /\ hgot' = n
            /\ hout' = IF HeadEnd(Arrived(n)) # 0 THEN Answer(hcase.server, Arrived(n))
                       ELSE IF n >= MaxRequest THEN [status |-> 413] ELSE Pending
      BY <2>3 DEF Receive, HeadersComplete
    <3>2. hgot' \in 0..Len(stream) /\ hgot' = n /\ n < MaxRequest + BufferSize
      BY <1>0, <2>2, <3>1
    <3>3. Arrived(hgot)' = Arrived(n)
      BY <2>1, <3>1 DEF Arrived
    <3>4. Received'
      <4>1. CASE HeadEnd(Arrived(n)) # 0
        BY <2>1, <3>1, <3>2, <3>3, <4>1 DEF Received
      <4>2. CASE HeadEnd(Arrived(n)) = 0 /\ n >= MaxRequest
        BY <2>1, <3>1, <3>2, <3>3, <4>2 DEF Received
      <4>3. CASE HeadEnd(Arrived(n)) = 0 /\ ~(n >= MaxRequest)
        <5>1. n < MaxRequest
          BY <1>0, <3>1, <4>3
        <5> QED BY <2>1, <3>1, <3>2, <3>3, <4>3, <5>1 DEF Received
      <4> QED BY <4>1, <4>2, <4>3
    <3> QED BY <1>0, <2>1, <3>2, <3>4 DEF ParsingInv
  <2>4. CASE ReceiveEnds
    <3>1. hgot = Len(stream) /\ hout' = NoAnswer /\ hgot' = hgot
      BY <2>4 DEF ReceiveEnds
    <3>2. Arrived(hgot)' = Arrived(hgot)
      BY <2>1, <3>1 DEF Arrived
    <3>3. Received'
      BY <2>1, <2>2, <3>1, <3>2 DEF Received
    <3> QED BY <1>0, <2>1, <3>1, <3>3 DEF ParsingInv
  <2> QED BY <1>1, <2>3, <2>4 DEF NextParsing
<1>2. CASE UNCHANGED parseVars
  BY <1>2 DEF ParsingInv, Received, Arrived, parseVars
<1> QED BY <1>1, <1>2

(* The answer is that of the head.                                         *)
LEMMA CutsOK == ParsingInv => AnswerIgnoresCuts
<1> SUFFICES ASSUME ParsingInv, hout # Pending PROVE AnswerIgnoresCuts
  BY DEF AnswerIgnoresCuts
<1> DEFINE stream == hcase.stream
           head == HeadEnd(stream)
           got == HeadEnd(Arrived(hgot))
<1>1. /\ hcase.server \in Servers /\ stream \in Seq(AnyWord) /\ hgot \in 0..Len(stream)
      /\ Received /\ Len(stream) \in Nat /\ MaxRequest \in Nat /\ BufferSize \in Nat
  BY ParsingAssumption DEF ParsingInv
<1>2. /\ got # 0 => got = head
      /\ head # 0 /\ head <= hgot => got = head
      /\ got \in 0..hgot /\ head \in 0..Len(stream)
  <2>1. Arrived(hgot) \in Seq(AnyWord) /\ Len(Arrived(hgot)) = hgot
    BY <1>1 DEF Arrived
  <2>2. got \in 0..hgot /\ head \in 0..Len(stream)
    BY <1>1, <2>1, HeadEndIs
  <2> QED BY <1>1, <2>2, HeadOfPrefix DEF Arrived
<1>3. \/ hout = Answer(hcase.server, Arrived(hgot)) /\ got # 0 /\ hgot < MaxRequest + BufferSize
      \/ hout = [status |-> 413] /\ got = 0 /\ hgot >= MaxRequest
      \/ hout = NoAnswer /\ got = 0 /\ hgot = Len(stream)
  BY <1>1 DEF Received
<1> HIDE DEF head, got
<1>4. CASE head # 0 /\ head <= MaxRequest
  <2>1. got # 0
    <3>1. got = 0 => ~(head <= hgot)
      BY <1>2, <1>4
    <3> QED BY <1>1, <1>2, <1>3, <1>4, <3>1
  <2>2. got = head /\ head # 0 /\ hgot \in head..Len(stream) /\ hout = Answer(hcase.server, Arrived(hgot))
    BY <1>1, <1>2, <1>3, <2>1
  <2> DEFINE whole == Answer(hcase.server, SubSeq(stream, 1, head))
  <2>3. /\ hout.status = whole.status
        /\ "reply" \in DOMAIN whole =>
              hout.reply = whole.reply /\ IsPrefix(hout.request.body, SubSeq(stream, head + 1, Len(stream)))
    BY <1>1, <2>2, AnswerToPrefix DEF Arrived, head
  <2> HIDE DEF whole
  <2> QED BY <1>4, <2>3 DEF AnswerIgnoresCuts, head, whole
<1>5. CASE ~(head # 0 /\ head <= MaxRequest)
  <2>1. \/ hout.status = 413 /\ hgot >= MaxRequest
        \/ hout = NoAnswer /\ head = 0
        \/ head # 0 /\ head < MaxRequest + BufferSize /\ hgot >= head
    <3>1. CASE got # 0
      BY <1>1, <1>2, <1>3, <3>1
    <3>2. CASE got = 0
      <4>1. hout = NoAnswer => head = 0
        BY <1>1, <1>2, <1>3, <3>2 DEF NoAnswer
      <4> QED BY <1>3, <3>2, <4>1
    <3> QED BY <3>1, <3>2
  <2> QED BY <1>5, <2>1 DEF AnswerIgnoresCuts, head
<1> QED BY <1>4, <1>5

(* The two servers read a header line alike.                               *)
LEMMA HeadersAlike ==
    \A acc, word : ReadHeader("HttpServer", acc, word) = ReadHeader("Server", acc, word)
<1> SUFFICES ASSUME NEW acc, NEW word PROVE HttpHeader(acc, word) = ServerHeader(acc, word)
  BY DEF ReadHeader
<1> DEFINE h == Header(word)
           isLength == h.lower = "content-length"
<1>1. CASE acc.status # 0
  BY <1>1 DEF HttpHeader, ServerHeader
<1>2. CASE acc.status = 0 /\ acc.count + 1 > MaxHeaders
  BY <1>2 DEF HttpHeader, ServerHeader, FirstOf, validate_header_count
<1>3. CASE acc.status = 0 /\ ~(acc.count + 1 > MaxHeaders) /\ word = "long"
  BY <1>3 DEF HttpHeader, ServerHeader, FirstOf, validate_header_count, validate_header_size
<1>4. CASE acc.status = 0 /\ ~(acc.count + 1 > MaxHeaders) /\ word # "long" /\ ~HasColon(word)
  <2>1. ~isLength
    BY <1>4 DEF Header, HasColon
  <2> QED
    BY <1>4, <2>1 DEF HttpHeader, ServerHeader, FirstOf, validate_header_count, validate_header_size
<1>5. CASE acc.status = 0 /\ ~(acc.count + 1 > MaxHeaders) /\ word # "long" /\ HasColon(word)
  <2> DEFINE longer == [acc EXCEPT !.count = @ + 1, !.length = @ \/ isLength,
                                   !.encoding = @ \/ h.lower = "transfer-encoding",
                                   !.headers = Put(@, h.key, h.value)]
             found == FirstOf(validate_header_value(h.value),
                      FirstOf(IF isLength THEN check_duplicate_content_length(acc.length) ELSE 0,
                              IF isLength THEN validate_content_length(h.value) ELSE 0))
  <2>1. HttpHeader(acc, word) =
          IF h.value = "nul" THEN RefusedWith(acc, 400)
          ELSE IF isLength /\ acc.length THEN RefusedWith(acc, 400)
          ELSE IF isLength /\ h.value = "huge" THEN RefusedWith(acc, 413)
          ELSE IF isLength /\ h.value = "x" THEN RefusedWith(acc, 400)
          ELSE longer
    BY <1>5 DEF HttpHeader
  <2>2. ServerHeader(acc, word) = IF found # 0 THEN RefusedWith(acc, found) ELSE longer
    BY <1>5 DEF ServerHeader, FirstOf, validate_header_count, validate_header_size
  <2>3. found = IF h.value = "nul" THEN 400
                ELSE IF isLength /\ acc.length THEN 400
                ELSE IF isLength /\ h.value = "huge" THEN 413
                ELSE IF isLength /\ h.value = "x" THEN 400
                ELSE 0
    BY DEF FirstOf, validate_header_value, check_duplicate_content_length, validate_content_length
  <2> HIDE DEF longer, found, h, isLength
  <2> QED BY <2>1, <2>2, <2>3
<1> QED BY <1>1, <1>2, <1>3, <1>4, <1>5

(* What a server has in hand after each of the lines.                      *)
ReadsOn(server, words, read) ==
    read = [n \in 0..Len(words) |-> IF n = 0 THEN Reading ELSE ReadHeader(server, read[n - 1], words[n])]

LEMMA ReadingRuns ==
    ASSUME NEW Elems, NEW words \in Seq(Elems), NEW server
    PROVE  \E read : ReadsOn(server, words, read) /\ ReadHeaders(server, words) = read[Len(words)]
<1> DEFINE size == Len(words)
           Body(k, n) == IF n = 0 THEN Reading ELSE ReadHeader(server, k[n - 1], words[n])
           Reads(k, m) == k = [n \in 0..m |-> Body(k, n)]
           T == {m \in Nat : \E k : Reads(k, m)}
<1>1. size \in Nat
  OBVIOUS
<1>2. 0 \in T
  <2> DEFINE k == [n \in 0..0 |-> Reading]
  <2>1. k = [n \in 0..0 |-> Body(k, n)]
    OBVIOUS
  <2> HIDE DEF k, Body
  <2> QED BY <2>1
<1>3. ASSUME NEW m \in Nat, m \in T PROVE m + 1 \in T
  <2> HIDE DEF Body
  <2>1. PICK k : Reads(k, m)
    BY <1>3
  <2> DEFINE h == [n \in 0..(m + 1) |-> IF n = m + 1 THEN Body(k, n) ELSE k[n]]
  <2>2. \A n \in 0..m : k[n] = Body(k, n)
    BY <2>1
  <2>3. ASSUME NEW n \in 0..(m + 1) PROVE h[n] = Body(h, n)
    <3>1. CASE n = 0
      <4>1. Body(h, n) = Body(k, n) /\ n \in 0..m /\ n # m + 1
        BY <3>1 DEF Body
      <4> QED BY <2>2, <4>1
    <3>2. CASE n # 0
      <4>1. n - 1 \in 0..m /\ n - 1 # m + 1 /\ n - 1 \in 0..(m + 1)
        BY <3>2
      <4>2. h[n - 1] = k[n - 1]
        BY <4>1
      <4> HIDE DEF h
      <4>3. Body(h, n) = Body(k, n)
        BY <4>2 DEF Body
      <4>4. h[n] = Body(k, n)
        <5>1. CASE n = m + 1 BY <5>1 DEF h
        <5>2. CASE n # m + 1
          <6>1. n \in 0..m
            BY <5>2
          <6> QED BY <2>2, <5>2, <6>1 DEF h
        <5> QED BY <5>1, <5>2
      <4> QED BY <4>3, <4>4
    <3> QED BY <3>1, <3>2
  <2>4. h = [n \in 0..(m + 1) |-> h[n]]
    OBVIOUS
  <2> HIDE DEF h
  <2>5. Reads(h, m + 1)
    BY <2>3, <2>4
  <2> QED BY <2>5
<1> HIDE DEF T
<1>4. Nat \subseteq T
  BY <1>2, <1>3, SetInduction
<1>5. PICK k : Reads(k, size)
  BY <1>1, <1>4 DEF T
<1> DEFINE read == CHOOSE r : r = [n \in 0..size |-> Body(r, n)]
<1>6. ReadHeaders(server, words) = read[size]
  BY DEF ReadHeaders
<1>7. read = [n \in 0..size |-> Body(read, n)]
  <2> HIDE DEF Body, size
  <2> QED BY <1>5
<1> HIDE DEF read
<1>8. ReadsOn(server, words, read)
  BY <1>7 DEF ReadsOn
<1> HIDE DEF size
<1> QED BY <1>6, <1>8 DEF size

LEMMA ReadingAlike ==
    ASSUME NEW Elems, NEW words \in Seq(Elems)
    PROVE  ReadHeaders("HttpServer", words) = ReadHeaders("Server", words)
<1>1. PICK f : ReadsOn("HttpServer", words, f) /\ ReadHeaders("HttpServer", words) = f[Len(words)]
  BY ReadingRuns
<1>2. PICK g : ReadsOn("Server", words, g) /\ ReadHeaders("Server", words) = g[Len(words)]
  BY ReadingRuns
<1> DEFINE size == Len(words)
           T == {m \in Nat : m <= size => f[m] = g[m]}
<1>3. size \in Nat
  OBVIOUS
<1>4. /\ \A n \in 0..size : f[n] = IF n = 0 THEN Reading ELSE ReadHeader("HttpServer", f[n - 1], words[n])
      /\ \A n \in 0..size : g[n] = IF n = 0 THEN Reading ELSE ReadHeader("Server", g[n - 1], words[n])
  BY <1>1, <1>2 DEF ReadsOn
<1> HIDE DEF size
<1>5. 0 \in T
  BY <1>3, <1>4
<1>6. ASSUME NEW m \in Nat, m \in T PROVE m + 1 \in T
  <2> SUFFICES ASSUME m + 1 <= size PROVE f[m + 1] = g[m + 1]
    OBVIOUS
  <2>1. m + 1 \in 0..size /\ m + 1 # 0 /\ (m + 1) - 1 = m /\ f[m] = g[m]
    BY <1>3, <1>6
  <2>2. /\ f[m + 1] = ReadHeader("HttpServer", f[m], words[m + 1])
        /\ g[m + 1] = ReadHeader("Server", g[m], words[m + 1])
    BY <1>4, <2>1
  <2> QED BY <2>1, <2>2, HeadersAlike
<1> HIDE DEF T
<1>7. Nat \subseteq T
  BY <1>5, <1>6, SetInduction
<1>8. f[size] = g[size]
  BY <1>3, <1>7 DEF T
<1> QED BY <1>1, <1>2, <1>8 DEF size

(* They judge a request alike but for its method and paths that lead       *)
(* upwards, and answer alike what they do not refuse.                      *)
Upwards == {"/..", "/%2e%2e"}

LEMMA VerdictsAlike ==
    ASSUME NEW line, NEW read, Len(line) < 3 \/ (isValidHttpMethod(line[1]) /\ line[2] \notin Upwards)
    PROVE  HttpVerdict(line, read) = ServerVerdict(line, read)
<1>1. CASE Len(line) < 3
  BY <1>1 DEF HttpVerdict, ServerVerdict, HttpRequestLine, parse_request_line
<1>2. CASE ~(Len(line) < 3)
  <2>1. isValidHttpMethod(line[1]) /\ line[2] \notin Upwards
    BY <1>2
  <2>2. validate_request_path(line[2]) = HttpRequestLine(line) /\ parse_request_line(line) = 0
    BY <1>2, <2>1 DEF HttpRequestLine, validate_request_path, parse_request_line, Upwards
  <2>3. HttpVerdict(line, read) =
          FirstOf(HttpRequestLine(line), FirstOf(read.status,
          FirstOf(IF read.encoding /\ read.length THEN 400 ELSE 0, IF read.encoding THEN 501 ELSE 0)))
    BY DEF HttpVerdict, FirstOf
  <2>4. ServerVerdict(line, read) =
          FirstOf(HttpRequestLine(line), FirstOf(read.status,
          FirstOf(IF read.encoding /\ read.length THEN 400 ELSE 0, IF read.encoding THEN 501 ELSE 0)))
    BY <2>2 DEF ServerVerdict, check_request_smuggling, check_transfer_encoding_unsupported
  <2> QED BY <2>3, <2>4
<1> QED BY <1>1, <1>2

LEMMA RepliesAlike == \A request : processRequest(request) = ServerProcess(request)
<1> SUFFICES ASSUME NEW request PROVE processRequest(request) = ServerProcess(request)
  OBVIOUS
<1>1. realIP(request) = request_real_ip(request)
  BY DEF realIP, request_real_ip, Get, FirstOfList
<1> QED BY <1>1 DEF processRequest, ServerProcess, process_health_check, process_version, process_status, process_not_found

(* Where they differ the split server refuses.                             *)
LEMMA RefusedAlone ==
    ASSUME NEW line, NEW read, NEW body, ~(Len(line) < 3), ~isValidHttpMethod(line[1]) \/ line[2] \in Upwards
    PROVE  AnswerOf("Server", line, read, body).status \in {400, 405}
<1>1. ServerVerdict(line, read) \in {400, 405}
  <2>1. CASE ~isValidHttpMethod(line[1])
    BY <2>1 DEF ServerVerdict, parse_request_line
  <2>2. CASE isValidHttpMethod(line[1])
    <3>1. validate_request_path(line[2]) = 400 /\ parse_request_line(line) = 0
      BY <2>2 DEF Upwards, validate_request_path, parse_request_line
    <3> QED BY <3>1 DEF ServerVerdict, FirstOf
  <2> QED BY <2>1, <2>2
<1> DEFINE v == ParseVerdict("Server", line, read)
           a == AnswerOf("Server", line, read, body)
<1>2. v \in {400, 405}
  BY <1>1 DEF ParseVerdict
<1>3. v # 0 => a.status = (IF v # 200 THEN v ELSE Reply("Server", Request(v, line, read, body)).status)
  BY AnswerShape
<1> HIDE DEF v, a
<1>4. a.status = v
  BY <1>2, <1>3
<1> QED BY <1>2, <1>4 DEF a

(* The first words of the request line are the first of the stream.        *)
LEMMA LineIsTheFirst ==
    ASSUME NEW Elems, NEW data \in Seq(Elems), HeadEnd(data) # 0, BeginsWell(data), ~(Len(RequestLine(data)) < 3)
    PROVE  LET line == RequestLine(data) IN line[1] = data[1] /\ line[2] = data[2] /\ line[1] \in Methods
<1>1. /\ FirstCrlf(data) \in 1..(HeadEnd(data) - 3)
      /\ \A j \in DOMAIN data : AtCrlf(data, j) => FirstCrlf(data) <= j
  BY LinesEnd
<1>2. HeadEnd(data) \in 4..Len(data) /\ Len(data) \in Nat
  BY HeadEndIs DEF HeadEnds
<1> DEFINE b == FirstCrlf(data) - 1
           line == RequestLine(data)
<1>3. b \in 0..Len(data)
  BY <1>1, <1>2
<1>4. line = SubSeq(data, 1, b)
  BY DEF RequestLine
<1> HIDE DEF b, line
<1>5. Len(line) = b /\ b >= 3 /\ line[1] = data[1] /\ line[2] = data[2]
  <2>1. Len(line) = b /\ \A i \in 1..b : line[i] = data[i]
    BY <1>3, <1>4
  <2>2. b >= 3
    BY <1>3, <2>1 DEF line
  <2> QED BY <1>3, <2>1, <2>2
<1>6. ~AtCrlf(data, 1)
  BY <1>1, <1>2, <1>3, <1>5 DEF b
<1>7. data[1] \in Methods
  BY <1>2, <1>6 DEF BeginsWell, AtCrlf
<1> QED BY <1>5, <1>7 DEF line

LEMMA TwinsOK == ParsingInv => TwinsAgree
<1> SUFFICES ASSUME ParsingInv, hout # Pending, "request" \in DOMAIN hout PROVE TwinsAgree
  BY DEF TwinsAgree
<1> DEFINE stream == hcase.stream
           data == Arrived(hgot)
           peer == IF hcase.server = "Server" THEN "HttpServer" ELSE "Server"
           other == Answer(peer, data)
<1>1. /\ hcase.server \in Servers /\ peer \in Servers /\ {hcase.server, peer} = {"HttpServer", "Server"}
      /\ stream \in Seq(AnyWord) /\ BeginsWell(stream) /\ hgot \in 0..Len(stream) /\ Received
  BY DEF ParsingInv, Servers
<1>2. hout = Answer(hcase.server, data) /\ HeadEnd(data) # 0
  BY <1>1 DEF Received, NoAnswer
<1>3. /\ data \in Seq(AnyWord) /\ Len(data) = hgot /\ \A i \in 1..hgot : data[i] = stream[i]
      /\ hgot \in Nat /\ hgot <= Len(stream)
  BY <1>1 DEF Arrived
<1>4. 4 <= hgot /\ HeadEnd(data) \in 4..hgot
  BY <1>2, <1>3, HeadEndIs DEF HeadEnds
<1>5. BeginsWell(data) /\ data[1] = stream[1] /\ data[2] = stream[2]
  <2>1. data[1] = stream[1] /\ data[2] = stream[2]
    BY <1>3, <1>4
  <2> QED BY <1>1, <1>3, <1>4, <2>1 DEF BeginsWell
<1> HIDE DEF data, peer
<1> DEFINE line == RequestLine(data)
           read == ReadHeaders("Server", HeaderLines(data))
           body == BodyOf(data)
           http == AnswerOf("HttpServer", line, read, body)
           split == AnswerOf("Server", line, read, body)
<1>6. HeaderLines(data) \in Seq(AnyWord)
  <2> DEFINE a == FirstCrlf(data) + 2
             b == HeaderEnd(data) - 1
  <2>1. a \in 3..hgot /\ b \in 0..hgot
    BY <1>2, <1>3, <1>4, LinesEnd
  <2> HIDE DEF a, b
  <2>2. SubSeq(data, a, b) \in Seq(AnyWord)
    <3>1. \A i \in a..b : i \in 1..Len(data)
      BY <1>3, <2>1
    <3> QED BY <1>3, <2>1, <3>1
  <2> QED BY <2>2 DEF HeaderLines, a, b
<1>7. Answer("HttpServer", data) = http /\ Answer("Server", data) = split
  <2>1. ReadHeaders("HttpServer", HeaderLines(data)) = read
    BY <1>6, ReadingAlike
  <2> QED BY <2>1, AnswerIs DEF Servers
<1>8. {hout, other} = {http, split}
  BY <1>1, <1>2, <1>7
<1> HIDE DEF line, read, body, other
<1>9. CASE Len(line) < 3 \/ (isValidHttpMethod(line[1]) /\ line[2] \notin Upwards)
  <2>1. HttpVerdict(line, read) = ServerVerdict(line, read)
    BY <1>9, VerdictsAlike
  <2>2. http = split
    BY <2>1, RepliesAlike DEF AnswerOf, ParseVerdict, Reply
  <2> HIDE DEF http, split
  <2>3. other = hout
    BY <1>8, <2>2
  <2> QED BY <2>3 DEF TwinsAgree, other, peer, data
<1>10. CASE ~(Len(line) < 3) /\ (~isValidHttpMethod(line[1]) \/ line[2] \in Upwards)
  <2>1. split.status \in {400, 405}
    BY <1>10, RefusedAlone
  <2> HIDE DEF http, split
  <2>2. {other.status, hout.status} \cap {400, 405} # {}
    <3>1. split = hout \/ split = other
      BY <1>8
    <3> QED BY <2>1, <3>1
  <2>3. line[1] = data[1] /\ line[2] = data[2] /\ line[1] \in Methods
    BY <1>2, <1>3, <1>5, <1>10, LineIsTheFirst DEF line
  <2>4. stream[1] = "BREW" \/ stream[2] \in Upwards
    BY <1>5, <1>10, <2>3 DEF Methods, isValidHttpMethod
  <2> QED BY <2>2, <2>4 DEF TwinsAgree, other, peer, data, Upwards
<1> QED BY <1>9, <1>10

LEMMA LinedIsSequence ==
    ASSUME NEW n \in Nat, NEW words \in SeqOf(HeaderWords, n)
    PROVE  Lined(words) \in Seq(AnyWord)
<1>1. PICK m \in 0..n : words \in [1..m -> HeaderWords]
  BY DEF SeqOf
<1>2. words \in Seq(HeaderWords) /\ Len(words) = m /\ m \in Nat
  BY <1>1
<1>3. HeaderWords \subseteq AnyWord
  BY DEF AnyWord
<1>3a. "CR" \in AnyWord /\ "LF" \in AnyWord
  BY DEF AnyWord
<1>4. ASSUME NEW i \in 1..(3 * m)
      PROVE  (IF i % 3 = 1 THEN words[(i + 2) \div 3] ELSE IF i % 3 = 2 THEN "CR" ELSE "LF") \in AnyWord
  <2>1. i % 3 = 1 => (i + 2) \div 3 \in 1..m
    BY <1>2
  <2> QED BY <1>1, <1>3, <1>3a, <2>1
<1> DEFINE size == 3 * m
           at(i) == IF i % 3 = 1 THEN words[(i + 2) \div 3] ELSE IF i % 3 = 2 THEN "CR" ELSE "LF"
<1>5. Lined(words) = [i \in 1..size |-> at(i)]
  BY <1>2 DEF Lined
<1>6. size \in Nat
  BY <1>2
<1>7. \A i \in 1..size : at(i) \in AnyWord
  BY <1>4
<1> HIDE DEF at, size
<1> QED BY <1>5, <1>6, <1>7

LEMMA WordsAre ==
    /\ "CR" \in AnyWord /\ "LF" \in AnyWord /\ "HTTP/1.1" \in AnyWord /\ "x" \in AnyWord /\ "word" \in AnyWord
    /\ "GET" \in AnyWord /\ "/health" \in AnyWord /\ "/status" \in AnyWord
    /\ Methods \subseteq AnyWord /\ Paths \subseteq AnyWord /\ HeaderWords \subseteq AnyWord
BY DEF AnyWord, Methods, Paths, HeaderWords

LEMMA HeadsBegin ==
    ASSUME NEW h \in Heads \cup SomeHeads
    PROVE  /\ h \in Seq(AnyWord)
           /\ h = <<>> \/ (Len(h) >= 1 /\ h[1] \in Methods)
<1>1. CASE h \in {<<m, p, "HTTP/1.1">> : m \in Methods, p \in Paths}
  <2>1. PICK m \in Methods, p \in Paths : h = <<m, p, "HTTP/1.1">>
    BY <1>1
  <2>2. m \in AnyWord /\ p \in AnyWord /\ "HTTP/1.1" \in AnyWord
    BY WordsAre
  <2> QED BY <2>1, <2>2
<1>2. CASE h = <<>>
  BY <1>2
<1>3. CASE h = <<"GET", "/health">>
  BY <1>3, WordsAre DEF Methods
<1>4. CASE h = <<"GET", "/status", "HTTP/1.1">>
  BY <1>4, WordsAre DEF Methods
<1> QED BY <1>1, <1>2, <1>3, <1>4 DEF Heads, SomeHeads

LEMMA BodiesAre == <<>> \in Seq(AnyWord) /\ <<"x">> \in Seq(AnyWord) /\ <<"x">> \o CRLF \o CRLF \in Seq(AnyWord)
<1>1. CRLF \in Seq(AnyWord)
  BY WordsAre DEF CRLF
<1>2. <<"x">> \in Seq(AnyWord)
  BY WordsAre
<1> DEFINE x == <<"x">>
<1>3. x \in Seq(AnyWord)
  BY <1>2
<1> HIDE DEF x
<1>4. x \o CRLF \o CRLF \in Seq(AnyWord)
  BY <1>1, <1>3
<1>5. <<>> \in Seq(AnyWord)
  OBVIOUS
<1> QED BY <1>2, <1>4, <1>5 DEF x

LEMMA Beginning ==
  ASSUME NEW Elems, NEW a \in Seq(Elems), NEW b \in Seq(Elems), Len(a) >= 2
  PROVE  a \o b \in Seq(Elems) /\ (a \o b)[1] = a[1] /\ (a \o b)[2] = a[2]
<1>1. a \o b \in Seq(Elems)
  OBVIOUS
<1>2. \A i \in 1..Len(a) : (a \o b)[i] = a[i]
  OBVIOUS
<1> QED BY <1>1, <1>2

LEMMA StreamsBegin == \A s \in Streams : s \in Seq(AnyWord) /\ BeginsWell(s)
<1> SUFFICES ASSUME NEW s \in Streams PROVE s \in Seq(AnyWord) /\ BeginsWell(s)
  OBVIOUS
<1>1. CRLF \in Seq(AnyWord) /\ Len(CRLF) = 2 /\ CRLF[1] = "CR" /\ CRLF[2] = "LF"
  BY WordsAre DEF CRLF
<1>2. MaxLines \in Nat /\ 2 * MaxLines \in Nat
  BY ParsingAssumption
<1>3. ASSUME NEW h \in Heads \cup SomeHeads, NEW t \in Seq(AnyWord), s = h \o CRLF \o t
      PROVE  s \in Seq(AnyWord) /\ BeginsWell(s)
  <2>1. h \in Seq(AnyWord) /\ (h = <<>> \/ (Len(h) >= 1 /\ h[1] \in Methods))
    BY HeadsBegin
  <2>2. CASE h = <<>>
    <3>0. <<>> \o CRLF = CRLF
      BY <1>1
    <3>1. s = CRLF \o t
      BY <1>3, <2>2, <3>0
    <3> DEFINE crlf == CRLF
    <3>3. crlf \in Seq(AnyWord) /\ Len(crlf) = 2 /\ crlf[1] = "CR" /\ crlf[2] = "LF"
      BY <1>1
    <3> HIDE DEF crlf
    <3>4. crlf \o t \in Seq(AnyWord) /\ (crlf \o t)[1] = crlf[1] /\ (crlf \o t)[2] = crlf[2]
      <4>1. crlf \in Seq(AnyWord) /\ t \in Seq(AnyWord) /\ Len(crlf) >= 2
        BY <3>3, <1>3
      <4> QED BY <4>1, Beginning
    <3>2. s \in Seq(AnyWord) /\ s[1] = "CR" /\ s[2] = "LF"
      BY <3>1, <3>3, <3>4 DEF crlf
    <3> QED BY <3>2 DEF BeginsWell
  <2>3. CASE Len(h) >= 1 /\ h[1] \in Methods
    <3>1. h \o CRLF \in Seq(AnyWord) /\ (h \o CRLF)[1] = h[1] /\ Len(h \o CRLF) >= 1
      BY <1>1, <2>1, <2>3
    <3>2. s \in Seq(AnyWord) /\ s[1] = h[1]
      BY <1>3, <3>1
    <3> QED BY <2>3, <3>2 DEF BeginsWell
  <2> QED BY <2>1, <2>2, <2>3
<1>4. ASSUME NEW n \in Nat, NEW ws \in SeqOf(HeaderWords, n), NEW b \in Seq(AnyWord)
      PROVE  \A h \in Heads \cup SomeHeads :
                /\ Lined(ws) \o CRLF \o b \in Seq(AnyWord)
                /\ h \o CRLF \o Lined(ws) \o CRLF \o b = h \o CRLF \o (Lined(ws) \o CRLF \o b)
  <2>1. Lined(ws) \in Seq(AnyWord)
    BY LinedIsSequence
  <2>2. ASSUME NEW h \in Heads \cup SomeHeads PROVE h \in Seq(AnyWord)
    BY HeadsBegin
  <2>3. \A x, y, z \in Seq(AnyWord) : x \o y \o z = x \o (y \o z) /\ x \o y \in Seq(AnyWord)
    OBVIOUS
  <2> DEFINE l == Lined(ws)
  <2> HIDE DEF l
  <2>4. l \in Seq(AnyWord) /\ l \o CRLF \in Seq(AnyWord) /\ l \o CRLF \o b \in Seq(AnyWord)
    BY <1>1, <2>1, <2>3 DEF l
  <2>5. ASSUME NEW h \in Heads \cup SomeHeads
        PROVE  h \o CRLF \o l \o CRLF \o b = h \o CRLF \o (l \o CRLF \o b)
    <3> DEFINE g == h \o CRLF
               m == l \o CRLF
    <3>1. g \in Seq(AnyWord) /\ m \in Seq(AnyWord)
      BY <1>1, <2>2, <2>3, <2>4
    <3> HIDE DEF g
    <3>2. g \o l \o CRLF = g \o m
      BY <1>1, <2>3, <2>4, <3>1
    <3> HIDE DEF m
    <3>3. g \o m \o b = g \o (m \o b)
      BY <2>3, <3>1
    <3> QED BY <3>2, <3>3 DEF g, m
  <2> QED BY <2>4, <2>5 DEF l
<1>5. CASE \E h \in SomeHeads, ws \in SeqOf(HeaderWords, MaxLines), b \in {<<>>, <<"x">>} :
             s = RequestText(h, ws, b)
  <2>1. PICK h \in SomeHeads, ws \in SeqOf(HeaderWords, MaxLines), b \in {<<>>, <<"x">>} :
          s = RequestText(h, ws, b)
    BY <1>5
  <2>2. b \in Seq(AnyWord)
    <3>1. <<"x">> \in Seq(AnyWord) /\ <<>> \in Seq(AnyWord)
      BY WordsAre
    <3> QED BY <3>1
  <2> DEFINE t == Lined(ws) \o CRLF \o b
  <2>3. t \in Seq(AnyWord) /\ s = h \o CRLF \o t
    BY <1>2, <1>4, <2>1, <2>2, ZenonT(40) DEF RequestText
  <2> HIDE DEF t
  <2> QED BY <1>3, <2>3
<1>6. CASE \E h \in Heads, ws \in ManyLines, b \in Bodies :
             s = RequestText(h, ws, b)
  <2>1. PICK h \in Heads, ws \in ManyLines, b \in Bodies :
          s = RequestText(h, ws, b)
    BY <1>6
  <2>2. b \in Seq(AnyWord)
    BY BodiesAre, <2>1 DEF Bodies
  <2>3. ws \in SeqOf(HeaderWords, 2 * MaxLines)
    <3>1. "X-Real-IP: a" \in HeaderWords
      BY DEF HeaderWords
    <3>2. PICK m \in 0..(2 * MaxLines) : ws \in [1..m -> {"X-Real-IP: a"}]
      BY <2>1 DEF SeqOf, ManyLines
    <3>3. ws \in [1..m -> HeaderWords]
      BY <3>1, <3>2
    <3> QED BY <3>3 DEF SeqOf
  <2> DEFINE t == Lined(ws) \o CRLF \o b
  <2>4. t \in Seq(AnyWord) /\ s = h \o CRLF \o t
    <3> DEFINE k == 2 * MaxLines
    <3>1. k \in Nat /\ ws \in SeqOf(HeaderWords, k) /\ h \in Heads \cup SomeHeads
      BY <1>2, <2>3
    <3> HIDE DEF k
    <3>2. /\ Lined(ws) \o CRLF \o b \in Seq(AnyWord)
          /\ h \o CRLF \o Lined(ws) \o CRLF \o b = h \o CRLF \o (Lined(ws) \o CRLF \o b)
      BY <1>4, <2>2, <3>1
    <3> QED BY <2>1, <3>2 DEF RequestText
  <2> HIDE DEF t
  <2> QED BY <1>3, <2>4
<1>7. CASE \E n \in 0..8 : s = Broken(n)
  <2> DEFINE w == <<"GET", "/status", "HTTP/1.1", "CR", "LF", "word", "CR", "LF">>
  <2>1. w \in Seq(AnyWord) /\ Len(w) = 8 /\ w[1] = "GET"
    BY WordsAre
  <2> HIDE DEF w
  <2>2. PICK n \in 0..8 : s = SubSeq(w, 1, n)
    BY <1>7 DEF w, Broken
  <2>3. s \in Seq(AnyWord) /\ Len(s) = n /\ (n >= 1 => s[1] = "GET")
    BY <2>1, <2>2
  <2>4. "GET" \in Methods
    BY DEF Methods
  <2> QED BY <2>3, <2>4 DEF BeginsWell
<1>8. CASE s \in ManyHeaders
  BY <1>5, <1>8 DEF ManyHeaders
<1>9. CASE s \in ManyHeads
  BY <1>6, <1>9 DEF ManyHeads
<1> QED BY <1>7, <1>8, <1>9 DEF Streams

LEMMA ParsingInit == InitParsing => ParsingInv
<1> SUFFICES ASSUME InitParsing PROVE ParsingInv
  OBVIOUS
<1>1. hcase.server \in Servers /\ hcase.stream \in Streams /\ hgot = 0 /\ hout = Pending
  BY DEF InitParsing, Servers
<1>2. hcase.stream \in Seq(AnyWord) /\ BeginsWell(hcase.stream)
  BY <1>1, StreamsBegin
<1>3. HeadEnd(Arrived(0)) = 0
  <2>1. Arrived(0) \in Seq(AnyWord) /\ Len(Arrived(0)) = 0
    BY <1>2 DEF Arrived
  <2>2. HeadEnd(Arrived(0)) \in 0..Len(Arrived(0))
    BY <2>1, HeadEndIs
  <2> QED BY <2>1, <2>2
<1>4. 0 \in 0..Len(hcase.stream) /\ 0 < MaxRequest
  BY <1>2, ParsingAssumption
<1> QED BY <1>1, <1>2, <1>3, <1>4 DEF ParsingInv, Received

LEMMA ParsingHolds == SpecParsing => []ParsingInv
BY ParsingInit, ParsingStep, PTL DEF SpecParsing

(* Neither the pieces a request arrives in nor the bytes of its body that  *)
(* come along change its answer, and the two socket servers read a request *)
(* alike but for the methods and the paths only one of them checks.        *)
THEOREM AnswersIgnoreCuts == SpecParsing => [](AnswerIgnoresCuts /\ TwinsAgree)
BY ParsingHolds, CutsOK, TwinsOK, PTL

(***************************************************************************)
(* Routes                                                                  *)
(***************************************************************************)
(* What the splitting has in hand after each of the characters.            *)
ReadsPath(path, read) ==
    read = [n \in 0..Len(path) |-> IF n = 0 THEN NothingRead ELSE ReadChar(read[n - 1], path[n])]

LEMMA PathIsRead ==
    ASSUME NEW Elems, NEW path \in Seq(Elems)
    PROVE  \E read : ReadsPath(path, read) /\ ReadPath(path) = read[Len(path)]
<1> DEFINE size == Len(path)
           Body(k, n) == IF n = 0 THEN NothingRead ELSE ReadChar(k[n - 1], path[n])
           Reads(k, m) == k = [n \in 0..m |-> Body(k, n)]
           T == {m \in Nat : \E k : Reads(k, m)}
<1>1. size \in Nat
  OBVIOUS
<1>2. 0 \in T
  <2> DEFINE k == [n \in 0..0 |-> NothingRead]
  <2>1. k = [n \in 0..0 |-> Body(k, n)]
    OBVIOUS
  <2> HIDE DEF k, Body
  <2> QED BY <2>1
<1>3. ASSUME NEW m \in Nat, m \in T PROVE m + 1 \in T
  <2> HIDE DEF Body
  <2>1. PICK k : Reads(k, m)
    BY <1>3
  <2> DEFINE h == [n \in 0..(m + 1) |-> IF n = m + 1 THEN Body(k, n) ELSE k[n]]
  <2>2. \A n \in 0..m : k[n] = Body(k, n)
    BY <2>1
  <2>3. ASSUME NEW n \in 0..(m + 1) PROVE h[n] = Body(h, n)
    <3>1. CASE n = 0
      <4>1. Body(h, n) = Body(k, n) /\ n \in 0..m /\ n # m + 1
        BY <3>1 DEF Body
      <4> QED BY <2>2, <4>1
    <3>2. CASE n # 0
      <4>1. n - 1 \in 0..m /\ n - 1 # m + 1 /\ n - 1 \in 0..(m + 1)
        BY <3>2
      <4>2. h[n - 1] = k[n - 1]
        BY <4>1
      <4> HIDE DEF h
      <4>3. Body(h, n) = Body(k, n)
        BY <4>2 DEF Body
      <4>4. h[n] = Body(k, n)
        <5>1. CASE n = m + 1 BY <5>1 DEF h
        <5>2. CASE n # m + 1
          <6>1. n \in 0..m
            BY <5>2
          <6> QED BY <2>2, <5>2, <6>1 DEF h
        <5> QED BY <5>1, <5>2
      <4> QED BY <4>3, <4>4
    <3> QED BY <3>1, <3>2
  <2>4. h = [n \in 0..(m + 1) |-> h[n]]
    OBVIOUS
  <2> HIDE DEF h
  <2>5. Reads(h, m + 1)
    BY <2>3, <2>4
  <2> QED BY <2>5
<1> HIDE DEF T
<1>4. Nat \subseteq T
  BY <1>2, <1>3, SetInduction
<1>5. PICK k : Reads(k, size)
  BY <1>1, <1>4 DEF T
<1> DEFINE read == CHOOSE r : r = [n \in 0..size |-> Body(r, n)]
<1>6. ReadPath(path) = read[size]
  BY DEF ReadPath
<1>7. read = [n \in 0..size |-> Body(read, n)]
  <2> HIDE DEF Body, size
  <2> QED BY <1>5
<1> HIDE DEF read
<1>8. ReadsPath(path, read)
  BY <1>7 DEF ReadsPath
<1> HIDE DEF size
<1> QED BY <1>6, <1>8 DEF size

(* Of a longer path, the beginning is read as if it were the whole.        *)
LEMMA BeginningIsRead ==
    ASSUME NEW Elems, NEW path \in Seq(Elems), NEW front \in Seq(Elems), NEW read, ReadsPath(path, read),
           Len(front) <= Len(path), \A i \in 1..Len(front) : path[i] = front[i]
    PROVE  read[Len(front)] = ReadPath(front)
<1>1. PICK f : ReadsPath(front, f) /\ ReadPath(front) = f[Len(front)]
  BY PathIsRead
<1> DEFINE size == Len(front)
           whole == Len(path)
           T == {m \in Nat : m <= size => read[m] = f[m]}
<1>2. size \in Nat /\ whole \in Nat /\ size <= whole
  OBVIOUS
<1>3. /\ \A n \in 0..whole : read[n] = IF n = 0 THEN NothingRead ELSE ReadChar(read[n - 1], path[n])
      /\ \A n \in 0..size : f[n] = IF n = 0 THEN NothingRead ELSE ReadChar(f[n - 1], front[n])
      /\ \A i \in 1..size : path[i] = front[i]
  BY <1>1 DEF ReadsPath
<1> HIDE DEF size, whole
<1>4. 0 \in T
  BY <1>2, <1>3
<1>5. ASSUME NEW m \in Nat, m \in T PROVE m + 1 \in T
  <2> SUFFICES ASSUME m + 1 <= size PROVE read[m + 1] = f[m + 1]
    OBVIOUS
  <2>1. /\ m + 1 \in 0..size /\ m + 1 \in 0..whole /\ m + 1 \in 1..size
        /\ m + 1 # 0 /\ (m + 1) - 1 = m /\ read[m] = f[m]
    BY <1>2, <1>5
  <2>2. /\ read[m + 1] = ReadChar(read[m], path[m + 1])
        /\ f[m + 1] = ReadChar(f[m], front[m + 1])
        /\ path[m + 1] = front[m + 1]
    BY <1>3, <2>1
  <2> QED BY <2>1, <2>2
<1> HIDE DEF T
<1>6. Nat \subseteq T
  BY <1>4, <1>5, SetInduction
<1>7. read[size] = f[size]
  BY <1>2, <1>6 DEF T
<1> QED BY <1>1, <1>7 DEF size

(* The next character.                                                     *)
LEMMA NextIsRead ==
    ASSUME NEW Elems, NEW front \in Seq(Elems), NEW c \in Elems
    PROVE  ReadPath(Append(front, c)) = ReadChar(ReadPath(front), c)
<1> DEFINE path == Append(front, c)
           size == Len(front)
<1>1. /\ path \in Seq(Elems) /\ Len(path) = size + 1 /\ size \in Nat /\ path[size + 1] = c
      /\ \A i \in 1..size : path[i] = front[i]
  OBVIOUS
<1> HIDE DEF path
<1>2. PICK read : ReadsPath(path, read) /\ ReadPath(path) = read[Len(path)]
  BY <1>1, PathIsRead
<1>3. read[size] = ReadPath(front)
  BY <1>1, <1>2, BeginningIsRead
<1> HIDE DEF size
<1>4. size + 1 \in 0..Len(path) /\ size + 1 # 0 /\ (size + 1) - 1 = size
  BY <1>1
<1>5. read[size + 1] = ReadChar(read[size], path[size + 1])
  BY <1>2, <1>4 DEF ReadsPath
<1> QED BY <1>1, <1>2, <1>3, <1>5 DEF path

LEMMA NothingIsRead == ReadPath(<<>>) = NothingRead
<1> DEFINE none == <<>>
<1>1. none \in Seq({}) /\ Len(none) = 0
  OBVIOUS
<1> HIDE DEF none
<1>2. PICK read : ReadsPath(none, read) /\ ReadPath(none) = read[Len(none)]
  BY <1>1, PathIsRead
<1>3. read[0] = NothingRead
  BY <1>1, <1>2 DEF ReadsPath
<1> QED BY <1>1, <1>2, <1>3 DEF none

(* A set that has the empty sequence, and with a sequence all that are     *)
(* longer by one, has all sequences.                                       *)
LEMMA WordByWord ==
    ASSUME NEW Elems, NEW T, <<>> \in T, \A p \in Seq(Elems), c \in Elems : p \in T => Append(p, c) \in T
    PROVE  Seq(Elems) \subseteq T
<1> DEFINE N == {n \in Nat : \A p \in Seq(Elems) : Len(p) = n => p \in T}
<1>1. 0 \in N
  <2>1. \A p \in Seq(Elems) : Len(p) = 0 => p = <<>>
    OBVIOUS
  <2> QED BY <2>1
<1>2. ASSUME NEW n \in Nat, n \in N PROVE n + 1 \in N
  <2> SUFFICES ASSUME NEW p \in Seq(Elems), Len(p) = n + 1 PROVE p \in T
    OBVIOUS
  <2> DEFINE q == SubSeq(p, 1, n)
  <2>1. q \in Seq(Elems) /\ Len(q) = n /\ p[n + 1] \in Elems
    OBVIOUS
  <2>2. p = Append(q, p[n + 1])
    OBVIOUS
  <2> HIDE DEF q
  <2>3. q \in T
    BY <1>2, <2>1
  <2> QED BY <2>1, <2>2, <2>3
<1> HIDE DEF N
<1>3. Nat \subseteq N
  BY <1>1, <1>2, SetInduction
<1>4. ASSUME NEW p \in Seq(Elems) PROVE p \in T
  <2>1. Len(p) \in N
    BY <1>3
  <2> QED BY <2>1 DEF N
<1> QED BY <1>4

(* No segment that was read is empty.                                      *)
FullSegments(Elems, read) ==
    /\ read \in [done : Seq(Seq(Elems)), open : Seq(Elems)]
    /\ \A i \in 1..Len(read.done) : read.done[i] # <<>>

LEMMA NextIsFull ==
    ASSUME NEW Elems, NEW read, FullSegments(Elems, read), NEW c \in Elems
    PROVE  FullSegments(Elems, ReadChar(read, c))
<1>1. read.done \in Seq(Seq(Elems)) /\ read.open \in Seq(Elems)
  BY DEF FullSegments
<1>2. CASE c # Slash
  <2>1. Append(read.open, c) \in Seq(Elems)
    BY <1>1
  <2> QED BY <1>1, <1>2, <2>1 DEF FullSegments, ReadChar
<1>3. CASE c = Slash /\ read.open = <<>>
  BY <1>1, <1>3 DEF FullSegments, ReadChar
<1>4. CASE c = Slash /\ read.open # <<>>
  <2> DEFINE more == Append(read.done, read.open)
  <2>1. more \in Seq(Seq(Elems)) /\ \A i \in 1..Len(more) : more[i] # <<>>
    BY <1>1, <1>4 DEF FullSegments
  <2>2. ReadChar(read, c) = [done |-> more, open |-> <<>>]
    BY <1>4 DEF ReadChar
  <2>3. <<>> \in Seq(Elems)
    OBVIOUS
  <2> HIDE DEF more
  <2> QED BY <2>1, <2>2, <2>3 DEF FullSegments
<1> QED BY <1>2, <1>3, <1>4

LEMMA ReadIsFull == ASSUME NEW Elems, NEW path \in Seq(Elems) PROVE FullSegments(Elems, ReadPath(path))
<1> DEFINE T == {p \in Seq(Elems) : FullSegments(Elems, ReadPath(p))}
<1>1. <<>> \in T
  <2>1. FullSegments(Elems, NothingRead)
    <3>1. <<>> \in Seq(Elems) /\ <<>> \in Seq(Seq(Elems)) /\ Len(<<>>) = 0
      OBVIOUS
    <3> QED BY <3>1 DEF FullSegments, NothingRead
  <2> QED BY <2>1, NothingIsRead
<1>2. ASSUME NEW p \in Seq(Elems), NEW c \in Elems, p \in T PROVE Append(p, c) \in T
  <2>1. FullSegments(Elems, ReadChar(ReadPath(p), c))
    BY <1>2, NextIsFull
  <2>2. Append(p, c) \in Seq(Elems)
    OBVIOUS
  <2> QED BY <2>1, <2>2, NextIsRead
<1> HIDE DEF T
<1>3. Seq(Elems) \subseteq T
  BY <1>1, <1>2, WordByWord
<1> QED BY <1>3 DEF T

NoSlash(word) == \A i \in 1..Len(word) : word[i] # Slash

AppendsLast(front, word, c) == Append(front \o word, c) = front \o Append(word, c)

LEMMA AppendLast ==
    ASSUME NEW Elems, NEW front \in Seq(Elems), NEW word \in Seq(Elems), NEW c \in Elems
    PROVE  AppendsLast(front, word, c)
BY DEF AppendsLast

(* A word without separators is read into the open segment.                *)
LEMMA WordIsRead ==
    ASSUME NEW Elems, NEW front \in Seq(Elems), NEW word \in Seq(Elems), NoSlash(word)
    PROVE  ReadPath(front \o word) = [done |-> ReadPath(front).done, open |-> ReadPath(front).open \o word]
<1> DEFINE before == ReadPath(front)
           ReadOn(w) == [done |-> before.done, open |-> before.open \o w]
           T == {w \in Seq(Elems) : NoSlash(w) => ReadPath(front \o w) = ReadOn(w)}
<1>1. before \in [done : Seq(Seq(Elems)), open : Seq(Elems)]
  BY ReadIsFull DEF FullSegments
<1>2. before = ReadPath(front)
  OBVIOUS
<1> HIDE DEF before
<1>3. <<>> \in T
  <2>1. front \o <<>> = front /\ <<>> \in Seq(Elems)
    OBVIOUS
  <2>2. before.open \in Seq(Elems)
    BY <1>1
  <2>3. before.open \o <<>> = before.open
    BY <2>2
  <2>4. ReadOn(<<>>) = before
    BY <1>1, <2>3
  <2> QED BY <1>2, <2>1, <2>4
<1>4. ASSUME NEW w \in Seq(Elems), NEW c \in Elems, w \in T PROVE Append(w, c) \in T
  <2>0. Append(w, c) \in Seq(Elems)
    OBVIOUS
  <2> SUFFICES ASSUME NoSlash(Append(w, c)) PROVE ReadPath(front \o Append(w, c)) = ReadOn(Append(w, c))
    BY <2>0
  <2> DEFINE longer == Append(w, c)
             size == Len(w)
  <2>1. /\ size \in Nat /\ Len(longer) = size + 1 /\ longer[size + 1] = c
        /\ \A i \in 1..size : longer[i] = w[i] /\ i \in 1..(size + 1)
        /\ size + 1 \in 1..(size + 1)
    OBVIOUS
  <2> HIDE DEF longer
  <2>2. c # Slash /\ NoSlash(w)
    <3>1. \A i \in 1..(size + 1) : longer[i] # Slash
      BY <2>1 DEF NoSlash, longer
    <3> QED BY <2>1, <3>1 DEF NoSlash
  <2>3. ReadPath(front \o w) = ReadOn(w)
    BY <1>4, <2>2
  <2>4. front \o Append(w, c) = Append(front \o w, c) /\ front \o w \in Seq(Elems)
    OBVIOUS
  <2>5. ReadPath(front \o Append(w, c)) = ReadChar(ReadOn(w), c)
    BY <2>3, <2>4, NextIsRead
  <2>6. before.open \in Seq(Elems)
    BY <1>1
  <2> DEFINE open == before.open
  <2>7. open \in Seq(Elems)
    BY <2>6
  <2> HIDE DEF open
  <2>8. Append(open \o w, c) = open \o Append(w, c)
    <3>1. open \in Seq(Elems) /\ w \in Seq(Elems) /\ c \in Elems
      BY <1>4, <2>7
    <3>2. AppendsLast(open, w, c)
      BY <3>1, AppendLast, Zenon
    <3> QED BY <3>2 DEF AppendsLast
  <2>9. ReadChar(ReadOn(w), c) = ReadOn(Append(w, c))
    BY <2>2, <2>8 DEF ReadChar, open
  <2> QED BY <2>5, <2>9
<1> HIDE DEF T
<1>5. Seq(Elems) \subseteq T
  BY <1>3, <1>4, WordByWord
<1> QED BY <1>5, <1>2 DEF T

(* After a separator a word begins a segment of its own.                   *)
Closed(path) == ReadChar(ReadPath(path), Slash).done

LEMMA SlashIsRead ==
    ASSUME NEW Elems, Slash \in Elems, NEW front \in Seq(Elems)
    PROVE  /\ front \o <<Slash>> \in Seq(Elems)
           /\ ReadPath(front \o <<Slash>>) = [done |-> Closed(front), open |-> <<>>]
<1>1. front \o <<Slash>> = Append(front, Slash) /\ Append(front, Slash) \in Seq(Elems)
  OBVIOUS
<1>2. ReadPath(Append(front, Slash)) = ReadChar(ReadPath(front), Slash)
  BY NextIsRead
<1> QED BY <1>1, <1>2 DEF ReadChar, Closed

LEMMA SegmentIsRead ==
    ASSUME NEW Elems, Slash \in Elems, NEW front \in Seq(Elems), NEW word \in Seq(Elems), NoSlash(word), word # <<>>
    PROVE  /\ front \o <<Slash>> \o word \in Seq(Elems)
           /\ ReadPath(front \o <<Slash>> \o word) = [done |-> Closed(front), open |-> word]
           /\ Closed(front \o <<Slash>> \o word) = Append(Closed(front), word)
<1> DEFINE begun == front \o <<Slash>>
<1>1. begun \in Seq(Elems) /\ ReadPath(begun) = [done |-> Closed(front), open |-> <<>>]
  BY SlashIsRead
<1> HIDE DEF begun
<1>2. begun \o word \in Seq(Elems) /\ <<>> \o word = word
  <2>1. begun \o word \in Seq(Elems)
    BY <1>1
  <2>2. <<>> \o word = word
    OBVIOUS
  <2> QED BY <2>1, <2>2
<1>3. ReadPath(begun \o word) = [done |-> Closed(front), open |-> <<>> \o word]
  <2>1. ReadPath(begun \o word) = [done |-> ReadPath(begun).done, open |-> ReadPath(begun).open \o word]
    BY <1>1, WordIsRead, Zenon
  <2> QED BY <1>1, <2>1
<1>4. ReadPath(begun \o word) = [done |-> Closed(front), open |-> word]
  BY <1>2, <1>3
<1>5. Closed(begun \o word) = Append(Closed(front), word)
  BY <1>4 DEF Closed, ReadChar
<1> QED BY <1>2, <1>4, <1>5 DEF begun

(* An identifier with a separator inside makes at least two segments.      *)
LEMMA CutMakesTwo ==
    ASSUME NEW Elems, Slash \in Elems, NEW front \in Seq(Elems), NEW word \in Seq(Elems), ~NoSlash(word),
           word[1] # Slash, word[Len(word)] # Slash
    PROVE  Len(Closed(front \o <<Slash>> \o word)) >= Len(Closed(front)) + 2
<1> DEFINE begun == front \o <<Slash>>
           Found(w) == Len(ReadPath(begun \o w).done) >= Len(Closed(front)) + 1
           T == {w \in Seq(Elems) : w # <<>> /\ w[1] # Slash => NoSlash(w) \/ Found(w)}
<1>0. begun \in Seq(Elems) /\ ReadPath(begun) = [done |-> Closed(front), open |-> <<>>]
  BY SlashIsRead
<1> HIDE DEF begun
<1>1. <<>> \in T
  <2>1. <<>> \in Seq(Elems)
    OBVIOUS
  <2> QED BY <2>1
<1>2. ASSUME NEW w \in Seq(Elems), NEW c \in Elems, w \in T PROVE Append(w, c) \in T
  <2> DEFINE longer == Append(w, c)
             size == Len(w)
             read == ReadPath(begun \o w)
  <2>1. longer \in Seq(Elems)
    OBVIOUS
  <2> SUFFICES ASSUME longer # <<>>, longer[1] # Slash PROVE NoSlash(longer) \/ Found(longer)
    BY <2>1
  <2>2. /\ size \in Nat /\ Len(longer) = size + 1 /\ longer[size + 1] = c
        /\ \A i \in 1..size : longer[i] = w[i]
        /\ \A i \in 1..(size + 1) : i \in 1..size \/ i = size + 1
    OBVIOUS
  <2>3. begun \o w \in Seq(Elems)
    BY <1>0
  <2>4. ReadPath(begun \o longer) = ReadChar(read, c)
    <3>1. begun \o longer = Append(begun \o w, c)
      <4>1. begun \in Seq(Elems) /\ w \in Seq(Elems) /\ c \in Elems
        BY <1>0, <1>2
      <4>2. Append(begun \o w, c) = begun \o Append(w, c)
        <5>1. AppendsLast(begun, w, c)
          BY <4>1, AppendLast, Zenon
        <5> QED BY <5>1 DEF AppendsLast
      <4> QED BY <4>2 DEF longer
    <3> QED BY <2>3, <3>1, NextIsRead
  <2>5. read.done \in Seq(Seq(Elems)) /\ Len(Closed(front)) \in Nat
    <3>1. FullSegments(Elems, read) /\ FullSegments(Elems, ReadChar(ReadPath(front), Slash))
      BY <2>3, ReadIsFull, NextIsFull
    <3> QED BY <3>1 DEF FullSegments, Closed
  <2> HIDE DEF longer, read
  <2>6. CASE w = <<>>
    <3>1. size = 0
      BY <2>6
    <3> HIDE DEF size
    <3>2. NoSlash(longer)
      BY <2>2, <3>1 DEF NoSlash
    <3> QED BY <3>2
  <2>7. CASE w # <<>>
    <3>1. 1 \in 1..size /\ w[1] # Slash
      <4>1. 1 \in 1..size
        BY <2>7
      <4> QED BY <2>2, <4>1
    <3>2. NoSlash(w) \/ Found(w)
      BY <1>2, <2>7, <3>1
    <3>3. CASE Found(w)
      <4>1. Len(ReadChar(read, c).done) >= Len(read.done)
        BY <2>5 DEF ReadChar
      <4>2. Len(ReadChar(read, c).done) \in Nat /\ Len(read.done) \in Nat
        BY <2>5 DEF ReadChar
      <4>3. Len(read.done) >= Len(Closed(front)) + 1
        BY <3>3 DEF read
      <4> QED BY <2>4, <2>5, <4>1, <4>2, <4>3
    <3>4. CASE NoSlash(w) /\ c # Slash
      <4>1. NoSlash(longer)
        BY <2>2, <3>4 DEF NoSlash
      <4> QED BY <4>1
    <3>5. CASE NoSlash(w) /\ c = Slash
      <4>1. read = [done |-> Closed(front), open |-> <<>> \o w]
        BY <1>0, <3>5, WordIsRead DEF read
      <4>2. <<>> \o w = w
        OBVIOUS
      <4>3. ReadChar(read, c).done = Append(Closed(front), w)
        BY <2>7, <3>5, <4>1, <4>2 DEF ReadChar
      <4>4. Closed(front) \in Seq(Seq(Elems))
        BY <2>5, <4>1
      <4>5. Len(Append(Closed(front), w)) = Len(Closed(front)) + 1
        BY <4>4
      <4> QED BY <2>4, <2>5, <4>3, <4>5
    <3> QED BY <3>2, <3>3, <3>4, <3>5
  <2> QED BY <2>6, <2>7 DEF longer
<1> HIDE DEF T
<1>3. Seq(Elems) \subseteq T
  BY <1>1, <1>2, WordByWord
<1>4. word # <<>> /\ Len(word) \in Nat /\ Len(word) # 0
  BY DEF NoSlash
<1>5. Found(word)
  BY <1>3, <1>4 DEF T
<1> DEFINE read == ReadPath(begun \o word)
<1>6. read.open # <<>> /\ read.done \in Seq(Seq(Elems)) /\ Len(Closed(front)) \in Nat
  <2> DEFINE size == Len(word) - 1
             less == SubSeq(word, 1, size)
             last == word[Len(word)]
  <2>1. less \in Seq(Elems) /\ last \in Elems /\ word = Append(less, last)
    BY <1>4
  <2> HIDE DEF less, last
  <2>2. begun \o word = Append(begun \o less, last) /\ begun \o less \in Seq(Elems) /\ begun \o word \in Seq(Elems)
    BY <1>0, <2>1, AppendLast
  <2>3. read = ReadChar(ReadPath(begun \o less), last)
    BY <2>1, <2>2, NextIsRead
  <2>4. last # Slash
    BY DEF last
  <2>5. FullSegments(Elems, ReadPath(begun \o less)) /\ FullSegments(Elems, read)
    BY <2>2, ReadIsFull
  <2>6. FullSegments(Elems, ReadChar(ReadPath(front), Slash))
    BY ReadIsFull, NextIsFull
  <2> DEFINE open == ReadPath(begun \o less).open
  <2>7. open \in Seq(Elems)
    BY <2>5 DEF FullSegments
  <2>8. read.open = Append(open, last)
    BY <2>3, <2>4 DEF ReadChar
  <2> HIDE DEF open, read
  <2>9. read.open # <<>>
    BY <2>1, <2>7, <2>8
  <2> QED BY <2>5, <2>6, <2>9 DEF FullSegments, Closed
<1> HIDE DEF read
<1>7. Closed(begun \o word) = Append(read.done, read.open)
  BY <1>6 DEF Closed, ReadChar, read
<1>8. Len(Append(read.done, read.open)) = Len(read.done) + 1 /\ Len(read.done) \in Nat
  BY <1>6
<1>9. Len(read.done) >= Len(Closed(front)) + 1
  BY <1>5 DEF read
<1> QED BY <1>6, <1>7, <1>8, <1>9 DEF begun

(* The characters of a path.                                               *)
AnyChar == {"a", "A", "-", Slash}

ProperName(name) == name \in Seq(AnyChar) /\ name # <<>> /\ NoSlash(name)

LEMMA NamesAreProper == \A name \in RouteNames : name = <<>> \/ ProperName(name)
<1>1. "a" \in AnyChar /\ "A" \in AnyChar /\ "-" \in AnyChar /\ "a" # Slash /\ "A" # Slash /\ "-" # Slash
  BY DEF AnyChar, Slash
<1>2. ProperName(<<"a">>) /\ ProperName(<<"A", "a">>) /\ ProperName(<<"a", "-">>) /\ ProperName(<<"A", "a", "a">>)
  BY <1>1 DEF ProperName, NoSlash
<1> QED BY <1>2 DEF RouteNames

LEMMA IdsAreRead == \A id \in RouteIds : id \in Seq(AnyChar)
<1> SUFFICES ASSUME NEW id \in RouteIds PROVE id \in Seq(AnyChar)
  OBVIOUS
<1>1. id \in SeqOf({"a", "-", Slash}, MaxId)
  BY DEF RouteIds
<1>2. PICK n \in 0..MaxId : id \in [1..n -> {"a", "-", Slash}]
  BY <1>1 DEF SeqOf
<1>3. id \in [1..n -> AnyChar] /\ n \in Nat
  BY <1>2, RoutesAssumption DEF AnyChar
<1> QED BY <1>3

(* A URL no part of which is empty before another, or has a separator at   *)
(* an end.                                                                 *)
RouteShape(c) ==
    /\ ProperName(c.tenant) /\ ProperName(c.package) /\ ProperName(c.entity)
    /\ c.id = <<>> \/ (c.id \in Seq(AnyChar) /\ c.id # <<>> /\ c.id[1] # Slash /\ c.id[Len(c.id)] # Slash)
    /\ c.action = <<>> \/ (c.id # <<>> /\ ProperName(c.action))

Parted(c) ==
    /\ c.id \in Seq(AnyChar) /\ (c.action = <<>> \/ ProperName(c.action))
    /\ c.parts \in 3..5 /\ (c.parts = 3 => c.id = <<>>) /\ (c.parts < 5 => c.action = <<>>)

LEMMA CasesHaveShape ==
    \A c \in RouteCases :
        /\ Parted(c)
        /\ <<>> \notin {c.tenant, c.package, c.entity} =>
              /\ ProperName(c.tenant) /\ ProperName(c.package) /\ ProperName(c.entity)
              /\ Skips(c) \/ RouteShape(c)
<1> SUFFICES ASSUME NEW c \in RouteCases
             PROVE  /\ Parted(c)
                    /\ <<>> \notin {c.tenant, c.package, c.entity} =>
                          /\ ProperName(c.tenant) /\ ProperName(c.package) /\ ProperName(c.entity)
                          /\ Skips(c) \/ RouteShape(c)
  OBVIOUS
<1>1. ProperName(<<"a">>)
  BY DEF ProperName, NoSlash, AnyChar, Slash
<1>2. /\ c.tenant \in RouteNames /\ c.package \in RouteNames /\ c.entity \in RouteNames
      /\ c.id \in RouteIds /\ c.action \in RouteActions
      /\ c.parts \in 3..5 /\ (c.parts = 3 => c.id = <<>>) /\ (c.parts < 5 => c.action = <<>>)
  BY DEF RouteCases
<1>3. c.action = <<>> \/ ProperName(c.action)
  BY <1>1, <1>2 DEF RouteActions
<1>4. c.id \in Seq(AnyChar)
  BY <1>2, IdsAreRead
<1>5. Parted(c)
  BY <1>2, <1>3, <1>4 DEF Parted
<1>6. ASSUME <<>> \notin {c.tenant, c.package, c.entity}
      PROVE  ProperName(c.tenant) /\ ProperName(c.package) /\ ProperName(c.entity)
  BY <1>2, <1>6, NamesAreProper
<1>7. ASSUME <<>> \notin {c.tenant, c.package, c.entity}, ~Skips(c) PROVE RouteShape(c)
  BY <1>3, <1>4, <1>6, <1>7 DEF RouteShape, Skips
<1> QED BY <1>5, <1>6, <1>7

(* A sequence that goes on with one more element.                          *)
GoesOn(Elems, longer, front, c) ==
    /\ longer \in Seq(Elems) /\ Len(longer) = Len(front) + 1 /\ longer[Len(front) + 1] = c
    /\ \A i \in 1..Len(front) : longer[i] = front[i]

LEMMA AppendGoesOn ==
    ASSUME NEW Elems, NEW front \in Seq(Elems), NEW c \in Elems
    PROVE  GoesOn(Elems, Append(front, c), front, c)
BY DEF GoesOn

LEMMA TripleIs ==
    ASSUME NEW Elems, NEW s \in Seq(Elems), Len(s) = 3
    PROVE  s = <<s[1], s[2], s[3]>>
<1> DEFINE t == <<s[1], s[2], s[3]>>
<1>1. s[1] \in Elems /\ s[2] \in Elems /\ s[3] \in Elems
  <2>1. 1 \in 1..Len(s) /\ 2 \in 1..Len(s) /\ 3 \in 1..Len(s)
    OBVIOUS
  <2>2. \A i \in 1..Len(s) : s[i] \in Elems
    OBVIOUS
  <2> QED BY <2>1, <2>2
<1>2. t \in Seq(Elems) /\ Len(t) = 3 /\ t[1] = s[1] /\ t[2] = s[2] /\ t[3] = s[3]
  BY <1>1
<1> HIDE DEF t
<1>3. \A i \in 1..3 : i = 1 \/ i = 2 \/ i = 3
  OBVIOUS
<1>4. \A i \in 1..3 : t[i] = s[i]
  BY <1>2, <1>3
<1>5. t \in [1..3 -> Elems] /\ s \in [1..3 -> Elems]
  <2>1. \A q \in Seq(Elems) : q \in [1..Len(q) -> Elems]
    OBVIOUS
  <2>2. t \in [1..Len(t) -> Elems] /\ s \in [1..Len(s) -> Elems]
    BY <1>2, <2>1
  <2> QED BY <1>2, <2>2
<1>6. t = s
  BY <1>4, <1>5
<1> QED BY <1>6 DEF t

NamedPath(c) == <<Slash>> \o c.tenant \o <<Slash>> \o c.package \o <<Slash>> \o c.entity
Names(c, s) == s \in Seq(Seq(AnyChar)) /\ s[1] = c.tenant /\ s[2] = c.package /\ s[3] = c.entity

(* The segments of the names.                                              *)
LEMMA NamesAreRead ==
    ASSUME NEW c, RouteShape(c)
    PROVE  NamedPath(c) \in Seq(AnyChar) /\ Names(c, Closed(NamedPath(c))) /\ Len(Closed(NamedPath(c))) = 3
<1>1. Slash \in AnyChar
  BY DEF AnyChar
<1> DEFINE t == c.tenant
           p == c.package
           e == c.entity
           empty == <<>>
           one == empty \o <<Slash>> \o t
           two == one \o <<Slash>> \o p
           all == two \o <<Slash>> \o e
<1>2. /\ t \in Seq(AnyChar) /\ t # <<>> /\ NoSlash(t) /\ p \in Seq(AnyChar) /\ p # <<>> /\ NoSlash(p)
      /\ e \in Seq(AnyChar) /\ e # <<>> /\ NoSlash(e)
  BY DEF RouteShape, ProperName
<1>3. empty \in Seq(AnyChar) /\ Closed(empty) = <<>>
  <2>1. <<>> \in Seq(AnyChar)
    OBVIOUS
  <2> QED BY <2>1, NothingIsRead DEF Closed, ReadChar, NothingRead
<1>4. <<>> \o <<Slash>> = <<Slash>>
  <2> DEFINE slash == <<Slash>>
  <2>1. slash \in Seq(AnyChar)
    BY <1>1
  <2> HIDE DEF slash
  <2>2. <<>> \o slash = slash
    BY <2>1
  <2> QED BY <2>2 DEF slash
<1>8. all = NamedPath(c)
  <2> DEFINE slash == <<Slash>>
  <2>1. empty \o slash = slash
    BY <1>4
  <2> HIDE DEF slash, empty
  <2>2. empty \o slash \o t \o slash \o p \o slash \o e = slash \o t \o slash \o p \o slash \o e
    BY <2>1
  <2> QED BY <2>2 DEF slash, NamedPath
<1> HIDE DEF t, p, e, empty
<1>5. one \in Seq(AnyChar) /\ Closed(one) = Append(Closed(empty), t)
  BY <1>1, <1>2, <1>3, SegmentIsRead
<1> HIDE DEF one
<1>6. two \in Seq(AnyChar) /\ Closed(two) = Append(Closed(one), p)
  BY <1>1, <1>2, <1>5, SegmentIsRead
<1> HIDE DEF two
<1>7. all \in Seq(AnyChar) /\ Closed(all) = Append(Closed(two), e)
  BY <1>1, <1>2, <1>6, SegmentIsRead
<1> HIDE DEF all
<1> DEFINE none == Closed(empty)
           first == Closed(one)
           second == Closed(two)
           third == Closed(all)
           Segs == Seq(AnyChar)
<1>9. none \in Seq(Segs) /\ Len(none) = 0
  BY <1>3
<1> HIDE DEF none, first, second, third, Segs
<1>10. GoesOn(Segs, first, none, t)
  BY <1>2, <1>5, <1>9, AppendGoesOn DEF first, none, Segs
<1>11. GoesOn(Segs, second, first, p)
  BY <1>2, <1>6, <1>10, AppendGoesOn DEF first, second, GoesOn, Segs
<1>12. GoesOn(Segs, third, second, e)
  BY <1>2, <1>7, <1>11, AppendGoesOn DEF second, third, GoesOn, Segs
<1>13. third \in Seq(Segs) /\ Len(third) = 3 /\ third[1] = t /\ third[2] = p /\ third[3] = e
  BY <1>9, <1>10, <1>11, <1>12 DEF GoesOn
<1> QED BY <1>7, <1>8, <1>13 DEF t, p, e, third, Names, Segs

Identified(c) == IF c.id = <<>> THEN NamedPath(c) ELSE NamedPath(c) \o <<Slash>> \o c.id

LEMMA IdIsRead ==
    ASSUME NEW c, RouteShape(c)
    PROVE  LET s == Closed(Identified(c)) IN
           /\ Identified(c) \in Seq(AnyChar) /\ s \in Seq(Seq(AnyChar))
           /\ NoSlash(c.id) => Names(c, s)
           /\ c.id = <<>> => Len(s) = 3
           /\ c.id # <<>> /\ NoSlash(c.id) => Len(s) = 4 /\ s[4] = c.id
           /\ ~NoSlash(c.id) => Len(s) >= 5
<1> DEFINE named == NamedPath(c)
           id == c.id
           names == Closed(named)
           s == Closed(Identified(c))
           Segs == Seq(AnyChar)
<1>1. /\ named \in Seq(AnyChar) /\ names \in Seq(Segs) /\ Len(names) = 3
      /\ Names(c, names) /\ Slash \in AnyChar
  BY NamesAreRead DEF AnyChar, Names
<1>2. CASE id = <<>>
  <2>1. NoSlash(id)
    BY <1>2 DEF NoSlash
  <2> QED BY <1>1, <1>2, <2>1 DEF Identified
<1>3. CASE id # <<>>
  <2>1. id \in Seq(AnyChar) /\ id[1] # Slash /\ id[Len(id)] # Slash
    BY <1>3 DEF RouteShape
  <2>2. Identified(c) = named \o <<Slash>> \o id
    BY <1>3 DEF Identified
  <2> DEFINE all == named \o <<Slash>> \o id
  <2> HIDE DEF named, id
  <2>4. all \in Seq(AnyChar)
    BY <1>1, <2>1
  <2>5. NoSlash(id) => Closed(all) = Append(names, id)
    BY <1>1, <1>3, <2>1, SegmentIsRead
  <2>6. ~NoSlash(id) => Len(Closed(all)) >= Len(names) + 2
    BY <1>1, <2>1, CutMakesTwo
  <2>7. Closed(all) \in Seq(Segs)
    <3>1. FullSegments(AnyChar, ReadChar(ReadPath(all), Slash))
      BY <1>1, <2>4, ReadIsFull, NextIsFull
    <3> QED BY <3>1 DEF FullSegments, Closed
  <2> HIDE DEF names, s, all, Segs
  <2>8. NoSlash(id) => GoesOn(Segs, Closed(all), names, id)
    BY <1>1, <2>1, <2>5, AppendGoesOn DEF Segs
  <2>9. NoSlash(id) => Len(Closed(all)) = 4 /\ Closed(all)[4] = id /\ \A i \in 1..3 : Closed(all)[i] = names[i]
    BY <1>1, <2>8 DEF GoesOn
  <2>10. NoSlash(id) => Names(c, Closed(all))
    BY <1>1, <2>7, <2>9 DEF Names, Segs
  <2>11. ~NoSlash(id) => Len(Closed(all)) >= 5
    BY <1>1, <2>6
  <2> QED BY <1>3, <2>2, <2>4, <2>7, <2>9, <2>10, <2>11 DEF id, s, all, Segs
<1> QED BY <1>2, <1>3

(* The path without the parts that are empty.                              *)
ShortPath(c) ==
    NamedPath(c)
    \o (IF c.id = <<>> THEN <<>> ELSE <<Slash>> \o c.id)
    \o (IF c.action = <<>> THEN <<>> ELSE <<Slash>> \o c.action)

(* What is in the segments after the path with its action.                 *)
LEMMA PathIsCut ==
    ASSUME NEW c, RouteShape(c)
    PROVE  LET s == Segments(ShortPath(c)) IN
           /\ s \in Seq(Seq(AnyChar)) /\ \A i \in 1..Len(s) : s[i] # <<>>
           /\ Len(s) <= 4 => NoSlash(c.id) /\ c.action = <<>>
           /\ NoSlash(c.id) /\ c.action = <<>> =>
                 Names(c, s) /\ IF c.id = <<>> THEN Len(s) = 3 ELSE Len(s) = 4 /\ s[4] = c.id
<1> DEFINE front == Identified(c)
           path == ShortPath(c)
           s == Closed(path)
           Segs == Seq(AnyChar)
<1>1. /\ front \in Seq(AnyChar) /\ Closed(front) \in Seq(Segs)
      /\ NoSlash(c.id) => Names(c, Closed(front))
      /\ c.id = <<>> => Len(Closed(front)) = 3
      /\ c.id # <<>> /\ NoSlash(c.id) => Len(Closed(front)) = 4 /\ Closed(front)[4] = c.id
      /\ ~NoSlash(c.id) => Len(Closed(front)) >= 5
  BY IdIsRead
<1>2. NoSlash(<<>>) /\ Slash \in AnyChar
  BY DEF NoSlash, AnyChar
<1>3. NamedPath(c) \o (IF c.id = <<>> THEN <<>> ELSE <<Slash>> \o c.id) = front
  <2>1. NamedPath(c) \in Seq(AnyChar)
    BY NamesAreRead
  <2> DEFINE named == NamedPath(c)
             slash == <<Slash>>
             id == c.id
  <2>2. slash \in Seq(AnyChar)
    BY <1>2
  <2>3. id = <<>> \/ id \in Seq(AnyChar)
    BY DEF RouteShape
  <2> HIDE DEF named, slash, id
  <2>4. named \in Seq(AnyChar)
    BY <2>1 DEF named
  <2>5. CASE id = <<>>
    <3>1. named \o <<>> = named
      BY <2>4
    <3> QED BY <2>5, <3>1 DEF named, id, Identified
  <2>6. CASE id # <<>>
    <3>1. named \o (slash \o id) = named \o slash \o id
      BY <2>2, <2>3, <2>4, <2>6
    <3> QED BY <2>6, <3>1 DEF named, id, slash, Identified
  <2> QED BY <2>5, <2>6
<1>4. path = front \o (IF c.action = <<>> THEN <<>> ELSE <<Slash>> \o c.action)
  BY <1>3 DEF ShortPath
<1>5. /\ path \in Seq(AnyChar)
      /\ c.action = <<>> => path = front
      /\ c.action # <<>> => Closed(path) = Append(Closed(front), c.action)
  <2> DEFINE action == c.action
             f == front
             slash == <<Slash>>
  <2>1. f \in Seq(AnyChar) /\ slash \in Seq(AnyChar)
    BY <1>1, <1>2
  <2>2. CASE action = <<>>
    <3> HIDE DEF f
    <3>1. f \o <<>> = f
      BY <2>1
    <3> QED BY <1>4, <2>1, <2>2, <3>1 DEF f
  <2>3. CASE action # <<>>
    <3>1. action \in Seq(AnyChar) /\ NoSlash(action)
      BY <2>3 DEF RouteShape, ProperName
    <3>2. path = f \o (slash \o action)
      BY <1>4, <2>3
    <3> HIDE DEF f, action, slash, path
    <3>3. f \o (slash \o action) = f \o slash \o action
      BY <2>1, <3>1
    <3>4. /\ f \o <<Slash>> \o action \in Seq(AnyChar)
          /\ Closed(f \o <<Slash>> \o action) = Append(Closed(f), action)
      BY <1>2, <2>1, <2>3, <3>1, SegmentIsRead
    <3> QED BY <2>3, <3>2, <3>3, <3>4 DEF f, action, slash
  <2> QED BY <2>2, <2>3
<1>6. s \in Seq(Segs) /\ \A i \in 1..Len(s) : s[i] # <<>>
  <2>1. FullSegments(AnyChar, ReadChar(ReadPath(path), Slash))
    BY <1>2, <1>5, ReadIsFull, NextIsFull
  <2> QED BY <2>1 DEF FullSegments, Closed
<1>7. s = Segments(path)
  BY DEF Segments, Closed
<1> DEFINE before == Closed(front)
<1>8. CASE c.action = <<>>
  <2>1. s = before
    BY <1>5, <1>8
  <2>2. Len(s) <= 4 => NoSlash(c.id)
    BY <1>1, <2>1, <1>6
  <2> QED BY <1>1, <1>2, <1>6, <1>7, <1>8, <2>1, <2>2
<1>9. CASE c.action # <<>>
  <2>1. c.action \in Segs /\ c.id # <<>>
    BY <1>9 DEF RouteShape, ProperName
  <2> HIDE DEF before, s, Segs, front, path
  <2>2. GoesOn(Segs, s, before, c.action)
    BY <1>1, <1>5, <1>9, <2>1, AppendGoesOn DEF s, before
  <2>3. Len(before) \in Nat /\ Len(before) >= 4
    BY <1>1, <2>1 DEF before
  <2>4. ~(Len(s) <= 4)
    BY <2>2, <2>3 DEF GoesOn
  <2> QED BY <1>6, <1>7, <1>9, <2>4 DEF path, Segs
<1> QED BY <1>8, <1>9

(* A separator at the end makes no segment.                                *)
LEMMA LastSlashIsDropped ==
    ASSUME NEW path \in Seq(AnyChar)
    PROVE  path \o <<Slash>> \in Seq(AnyChar) /\ Segments(path \o <<Slash>>) = Segments(path)
<1>1. Slash \in AnyChar
  BY DEF AnyChar
<1>2. /\ path \o <<Slash>> \in Seq(AnyChar)
      /\ ReadPath(path \o <<Slash>>) = [done |-> Closed(path), open |-> <<>>]
  BY <1>1, SlashIsRead
<1>3. Segments(path \o <<Slash>>) = Closed(path)
  BY <1>2 DEF Segments, ReadChar
<1>4. Segments(path) = Closed(path)
  BY DEF Segments, Closed
<1> QED BY <1>2, <1>3, <1>4

(* Empty parts at the end of a URL do not change its segments.             *)
LEMMA SamePath ==
    ASSUME NEW c, RouteShape(c), Parted(c)
    PROVE  Segments(FullPath(c)) = Segments(ShortPath(c))
<1> DEFINE named == NamedPath(c)
           slash == <<Slash>>
           id == c.id
           action == c.action
<1>1. /\ named \in Seq(AnyChar) /\ slash \in Seq(AnyChar)
      /\ id \in Seq(AnyChar) /\ action \in Seq(AnyChar)
  <2>1. <<>> \in Seq(AnyChar) /\ <<Slash>> \in Seq(AnyChar)
    BY DEF AnyChar
  <2> QED BY <2>1, NamesAreRead DEF Parted, ProperName
<1>2. FullPath(c) = named \o (IF c.parts = 3 THEN <<>> ELSE slash \o id)
                         \o (IF c.parts = 5 THEN slash \o action ELSE <<>>)
  BY DEF FullPath, NamedPath
<1>3. ShortPath(c) = named \o (IF id = <<>> THEN <<>> ELSE slash \o id)
                          \o (IF action = <<>> THEN <<>> ELSE slash \o action)
  BY DEF ShortPath
<1>4. /\ c.parts \in {3, 4, 5} /\ (c.parts = 3 => id = <<>>) /\ (c.parts < 5 => action = <<>>)
      /\ action # <<>> => id # <<>>
  BY DEF RouteShape, Parted
<1> DEFINE full == FullPath(c)
           short == ShortPath(c)
<1> HIDE DEF named, slash, id, action, full, short
<1>5. /\ short \in Seq(AnyChar)
      /\ \/ full = short
         \/ full = short \o slash
         \/ full = short \o slash \o slash
  <2>1. /\ slash \o <<>> = slash /\ named \o <<>> = named /\ slash \o id \in Seq(AnyChar)
        /\ slash \o action \in Seq(AnyChar) /\ named \o slash \in Seq(AnyChar)
        /\ named \o slash \o slash \in Seq(AnyChar)
        /\ named \o (slash \o id) \in Seq(AnyChar)
        /\ named \o (slash \o id) \o <<>> = named \o (slash \o id)
        /\ named \o (slash \o id) \o (slash \o action) \in Seq(AnyChar)
        /\ named \o <<>> \o <<>> = named
    BY <1>1
  <2>2. full = named \o (IF c.parts = 3 THEN <<>> ELSE slash \o id) \o (IF c.parts = 5 THEN slash \o action ELSE <<>>)
    BY <1>2 DEF full
  <2>3. short = named \o (IF id = <<>> THEN <<>> ELSE slash \o id) \o (IF action = <<>> THEN <<>> ELSE slash \o action)
    BY <1>3 DEF short
  <2>4. CASE c.parts = 3
    BY <1>1, <1>4, <2>1, <2>2, <2>3, <2>4
  <2>5. CASE c.parts = 4 /\ id # <<>>
    BY <1>1, <1>4, <2>1, <2>2, <2>3, <2>5
  <2>6. CASE c.parts = 4 /\ id = <<>>
    <3>1. short = named
      BY <1>4, <2>1, <2>3, <2>6
    <3>2. full = named \o slash \o <<>>
      BY <1>4, <2>1, <2>2, <2>6
    <3>3. named \o slash \o <<>> = named \o slash
      BY <2>1
    <3> QED BY <1>1, <3>1, <3>2, <3>3
  <2>7. CASE c.parts = 5 /\ id # <<>> /\ action # <<>>
    BY <1>1, <1>4, <2>1, <2>2, <2>3, <2>7
  <2>8. CASE c.parts = 5 /\ id # <<>> /\ action = <<>>
    <3>1. short = named \o (slash \o id)
      BY <2>1, <2>3, <2>8
    <3>2. full = named \o (slash \o id) \o slash
      BY <2>1, <2>2, <2>8
    <3> QED BY <2>1, <3>1, <3>2
  <2>9. CASE c.parts = 5 /\ id = <<>> /\ action = <<>>
    <3>1. short = named
      BY <2>1, <2>3, <2>9
    <3>2. full = named \o slash \o slash
      BY <2>1, <2>2, <2>9
    <3> QED BY <1>1, <3>1, <3>2
  <2> QED BY <1>4, <2>4, <2>5, <2>6, <2>7, <2>8, <2>9
<1>6. Segments(full) = Segments(short)
  <2>1. short \o slash \in Seq(AnyChar) /\ Segments(short \o slash) = Segments(short)
    BY <1>5, LastSlashIsDropped DEF slash
  <2>2. Segments(short \o slash \o slash) = Segments(short \o slash)
    BY <2>1, LastSlashIsDropped DEF slash
  <2> QED BY <1>5, <2>1, <2>2
<1> QED BY <1>6 DEF full, short

(* Whatever comes after the names leaves them the first three segments.    *)
LEMMA NamesStay ==
    ASSUME NEW Elems, Slash \in Elems, NEW front \in Seq(Elems), NEW word \in Seq(Elems),
           Len(Closed(front)) = 3
    PROVE  LET s == Segments(front \o <<Slash>> \o word) IN
           /\ s \in Seq(Seq(Elems)) /\ Len(s) >= 3
           /\ \A i \in 1..3 : s[i] = Closed(front)[i]
<1> DEFINE begun == front \o <<Slash>>
           names == Closed(front)
           Stays(d) == d \in Seq(Seq(Elems)) /\ Len(d) >= 3 /\ \A i \in 1..3 : d[i] = names[i]
           T == {w \in Seq(Elems) : Stays(ReadPath(begun \o w).done)}
<1>1. begun \in Seq(Elems) /\ ReadPath(begun) = [done |-> names, open |-> <<>>]
  BY SlashIsRead
<1>2. names \in Seq(Seq(Elems))
  <2>1. FullSegments(Elems, ReadChar(ReadPath(front), Slash))
    BY ReadIsFull, NextIsFull
  <2> QED BY <2>1 DEF FullSegments, Closed
<1>3. Len(names) = 3
  OBVIOUS
<1> HIDE DEF begun, names
<1>4. <<>> \in T
  <2>1. <<>> \in Seq(Elems) /\ begun \o <<>> = begun
    BY <1>1
  <2>2. Stays(names)
    BY <1>2, <1>3
  <2> HIDE DEF Stays
  <2> QED BY <1>1, <2>1, <2>2
<1>5. ASSUME NEW read \in [done : Seq(Seq(Elems)), open : Seq(Elems)], NEW c \in Elems, Stays(read.done)
      PROVE  Stays(ReadChar(read, c).done)
  <2>1. CASE ReadChar(read, c).done = read.done
    BY <1>5, <2>1
  <2>2. CASE ReadChar(read, c).done = Append(read.done, read.open)
    <3> DEFINE d == read.done
               o == read.open
    <3>1. d \in Seq(Seq(Elems)) /\ o \in Seq(Elems) /\ Len(d) >= 3 /\ \A i \in 1..3 : d[i] = names[i]
      BY <1>5
    <3> HIDE DEF d, o
    <3> DEFINE Segs == Seq(Elems)
    <3>2. d \in Seq(Segs) /\ o \in Segs
      BY <3>1
    <3> HIDE DEF Segs
    <3>3. Append(d, o) \in Seq(Segs) /\ Len(Append(d, o)) = Len(d) + 1 /\ Len(d) \in Nat
          /\ \A i \in 1..Len(d) : Append(d, o)[i] = d[i]
      BY <3>2
    <3>4. Stays(Append(d, o))
      BY <3>1, <3>3 DEF Segs
    <3> QED BY <2>2, <3>4 DEF d, o
  <2>3. ReadChar(read, c).done = read.done \/ ReadChar(read, c).done = Append(read.done, read.open)
    BY DEF ReadChar
  <2> QED BY <2>1, <2>2, <2>3
<1> HIDE DEF Stays
<1>6. ASSUME NEW w \in Seq(Elems), NEW c \in Elems, w \in T PROVE Append(w, c) \in T
  <2>1. Append(w, c) \in Seq(Elems) /\ begun \o w \in Seq(Elems)
    BY <1>1
  <2>2. Append(begun \o w, c) = begun \o Append(w, c)
    <3>1. AppendsLast(begun, w, c)
      BY <1>1, AppendLast, Zenon
    <3> QED BY <3>1 DEF AppendsLast
  <2>3. ReadPath(Append(begun \o w, c)) = ReadChar(ReadPath(begun \o w), c)
    BY <2>1, NextIsRead
  <2>4. ReadPath(begun \o w) \in [done : Seq(Seq(Elems)), open : Seq(Elems)]
    BY <2>1, ReadIsFull DEF FullSegments
  <2>5. Stays(ReadChar(ReadPath(begun \o w), c).done)
    BY <1>5, <1>6, <2>4
  <2> QED BY <2>1, <2>2, <2>3, <2>5
<1> HIDE DEF T
<1>7. word \in T
  BY <1>4, <1>6, WordByWord
<1>8. begun \o word \in Seq(Elems) /\ Stays(ReadPath(begun \o word).done)
  BY <1>1, <1>7 DEF T
<1>9. ReadPath(begun \o word) \in [done : Seq(Seq(Elems)), open : Seq(Elems)]
  BY <1>8, ReadIsFull DEF FullSegments
<1>10. Stays(Segments(begun \o word))
  BY <1>5, <1>8, <1>9 DEF Segments
<1> QED BY <1>10 DEF Stays, begun, names

Associates(Elems, a, b, c) == a \o b \in Seq(Elems) /\ (a \o b) \o c = a \o (b \o c)

LEMMA JoinsAssociate ==
    ASSUME NEW Elems, NEW a \in Seq(Elems), NEW b \in Seq(Elems), NEW c \in Seq(Elems)
    PROVE  Associates(Elems, a, b, c)
BY DEF Associates

(* A request that is served keeps the names of its URL.                    *)
LEMMA NamesAreServed ==
    ASSUME NEW c, Parted(c), ProperName(c.tenant), ProperName(c.package), ProperName(c.entity), c.parts # 3,
           Served(parseRoute(FullPath(c)))
    PROVE  parseRoute(FullPath(c)).names = <<c.tenant, c.package, c.entity>>
<1> DEFINE named == NamedPath(c)
           slash == <<Slash>>
           id == c.id
           action == c.action
           rest == id \o (IF c.parts = 5 THEN slash \o action ELSE <<>>)
           s == Segments(FullPath(c))
           Segs == Seq(AnyChar)
           bare == [tenant |-> c.tenant, package |-> c.package, entity |-> c.entity, id |-> <<>>, action |-> <<>>]
<1>1. /\ named \in Seq(AnyChar) /\ Closed(named) \in Seq(Seq(AnyChar)) /\ Len(Closed(named)) = 3
      /\ Closed(named)[1] = c.tenant /\ Closed(named)[2] = c.package /\ Closed(named)[3] = c.entity
  <2>1. RouteShape(bare)
    BY DEF RouteShape
  <2>2. NamedPath(bare) = named /\ bare.tenant = c.tenant /\ bare.package = c.package /\ bare.entity = c.entity
    BY DEF NamedPath
  <2> HIDE DEF bare, named
  <2> QED BY <2>1, <2>2, NamesAreRead DEF Names
<1>2. slash \in Seq(AnyChar) /\ id \in Seq(AnyChar) /\ action \in Seq(AnyChar) /\ Slash \in AnyChar
  <2>1. <<>> \in Seq(AnyChar) /\ <<Slash>> \in Seq(AnyChar) /\ Slash \in AnyChar
    BY DEF AnyChar
  <2> QED BY <2>1 DEF Parted, ProperName
<1>3. FullPath(c) = named \o (slash \o id) \o (IF c.parts = 5 THEN slash \o action ELSE <<>>)
  BY DEF FullPath, NamedPath
<1> DEFINE full == FullPath(c)
<1> HIDE DEF named, slash, id, action, full
<1>4. rest \in Seq(AnyChar) /\ full = named \o slash \o rest
  <2>1. CASE c.parts = 5
    <3>1. slash \o action \in Seq(AnyChar) /\ rest = id \o (slash \o action)
      BY <1>2, <2>1
    <3>2. named \o (slash \o id) \o (slash \o action) = named \o slash \o (id \o (slash \o action))
      <4> DEFINE tail == slash \o action
      <4>1. tail \in Seq(AnyChar)
        BY <3>1
      <4> HIDE DEF tail
      <4>2. Associates(AnyChar, slash, id, tail)
        BY <1>2, <4>1, JoinsAssociate, Zenon
      <4>3. Associates(AnyChar, id, tail, tail)
        BY <1>2, <4>1, JoinsAssociate, Zenon
      <4>4. slash \o id \in Seq(AnyChar) /\ id \o tail \in Seq(AnyChar) /\ (slash \o id) \o tail = slash \o (id \o tail)
        BY <4>2, <4>3, Zenon DEF Associates
      <4>5. Associates(AnyChar, named, slash \o id, tail) /\ Associates(AnyChar, named, slash, id \o tail)
        BY <1>1, <1>2, <4>1, <4>4, JoinsAssociate, Zenon
      <4>6. (named \o (slash \o id)) \o tail = (named \o slash) \o (id \o tail)
        BY <4>4, <4>5, Zenon DEF Associates
      <4> QED BY <4>6 DEF tail
    <3>3. id \o (slash \o action) \in Seq(AnyChar)
      <4> DEFINE tail == slash \o action
      <4>1. tail \in Seq(AnyChar)
        BY <3>1
      <4> HIDE DEF tail
      <4>2. Associates(AnyChar, id, tail, tail)
        BY <1>2, <4>1, JoinsAssociate, Zenon
      <4>3. id \o tail \in Seq(AnyChar)
        BY <4>2, Zenon DEF Associates
      <4> QED BY <4>3 DEF tail
    <3>4. full = named \o (slash \o id) \o (slash \o action)
      BY <1>3, <2>1 DEF full
    <3> HIDE DEF rest
    <3> QED BY <3>1, <3>2, <3>3, <3>4
  <2>2. CASE c.parts # 5
    <3>1. id \o <<>> = id
      BY <1>2
    <3>3. rest = id
      BY <2>2, <3>1
    <3>2. named \o (slash \o id) \o <<>> = named \o slash \o id
      BY <1>1, <1>2
    <3> QED BY <1>2, <1>3, <2>2, <3>2, <3>3 DEF full
  <2> QED BY <2>1, <2>2
<1> HIDE DEF rest
<1>5. s \in Seq(Segs) /\ Len(s) >= 3 /\ s[1] = c.tenant /\ s[2] = c.package /\ s[3] = c.entity
  <2>1. full = named \o <<Slash>> \o rest
    BY <1>4 DEF slash
  <2>2. LET q == Segments(named \o <<Slash>> \o rest) IN
        /\ q \in Seq(Seq(AnyChar)) /\ Len(q) >= 3
        /\ \A i \in 1..3 : q[i] = Closed(named)[i]
    BY <1>1, <1>2, <1>4, NamesStay
  <2> QED BY <1>1, <2>1, <2>2 DEF full
<1>6. parseRoute(FullPath(c)).names = SubSeq(s, 1, 3)
  BY DEF parseRoute, Served, Unrouted
<1>7. SubSeq(s, 1, 3) = <<c.tenant, c.package, c.entity>>
  <2> DEFINE q == SubSeq(s, 1, 3)
  <2> HIDE DEF s, Segs
  <2>2. q \in Seq(Segs) /\ Len(q) = 3 /\ q[1] = s[1] /\ q[2] = s[2] /\ q[3] = s[3]
    BY <1>5
  <2> HIDE DEF q
  <2>3. q = <<q[1], q[2], q[3]>>
    BY <2>2, TripleIs
  <2> QED BY <1>5, <2>2, <2>3 DEF q
<1> QED BY <1>6, <1>7

Reads(c, r) ==
    /\ Served(r) => /\ r.names = <<c.tenant, c.package, c.entity>>
                    /\ r.id = c.id /\ c.action = <<>>
    /\ (/\ \A n \in {c.tenant, c.package, c.entity} : Nameable(n)
        /\ Len(c.tenant) # Len(Reserved) /\ Slash \notin ToSet(c.id) /\ c.action = <<>>)
          => Served(r)

LEMMA RouteIsRead == ASSUME NEW c, RouteShape(c), Parted(c) PROVE Reads(c, parseRoute(FullPath(c)))
<1> DEFINE s == Segments(FullPath(c))
           r == parseRoute(FullPath(c))
           Segs == Seq(AnyChar)
           NotTaken == Len(s) < 3 \/ toLower(s[1]) = Reserved \/ \E i \in 1..3 : ~is_valid_name(s[i])
<1>1. /\ s \in Seq(Segs) /\ \A i \in 1..Len(s) : s[i] # <<>>
      /\ Len(s) <= 4 => NoSlash(c.id) /\ c.action = <<>>
      /\ NoSlash(c.id) /\ c.action = <<>> =>
            Names(c, s) /\ IF c.id = <<>> THEN Len(s) = 3 ELSE Len(s) = 4 /\ s[4] = c.id
  BY PathIsCut, SamePath
<1>2. /\ NotTaken => r = Unrouted
      /\ ~NotTaken => r = [valid |-> TRUE, names |-> SubSeq(s, 1, 3), id |-> IF Len(s) > 3 THEN s[4] ELSE <<>>,
                          action |-> IF Len(s) > 4 THEN s[5] ELSE <<>>, extra |-> SubSeq(s, 6, Len(s))]
  BY DEF parseRoute
<1> HIDE DEF s, r
<1>3. Len(s) \in Nat /\ ~Served(Unrouted)
  BY <1>1 DEF Served, Unrouted
<1>4. ASSUME Served(r)
      PROVE  r.names = <<c.tenant, c.package, c.entity>> /\ r.id = c.id /\ c.action = <<>>
  <2>1. ~NotTaken
    BY <1>2, <1>3, <1>4
  <2>2. /\ r.names = SubSeq(s, 1, 3) /\ r.id = (IF Len(s) > 3 THEN s[4] ELSE <<>>)
        /\ r.action = (IF Len(s) > 4 THEN s[5] ELSE <<>>) /\ r.action = <<>>
    BY <1>2, <1>4, <2>1 DEF Served
  <2>3. Len(s) <= 4
    <3> SUFFICES ASSUME Len(s) > 4 PROVE FALSE
      BY <1>3
    <3>1. s[5] = <<>> /\ 5 \in 1..Len(s)
      BY <1>3, <2>2
    <3> QED BY <1>1, <3>1
  <2>4. Names(c, s) /\ c.action = <<>> /\ IF c.id = <<>> THEN Len(s) = 3 ELSE Len(s) = 4 /\ s[4] = c.id
    BY <1>1, <2>3
  <2>5. r.id = c.id
    BY <2>2, <2>4
  <2>6. SubSeq(s, 1, 3) = <<c.tenant, c.package, c.entity>>
    <3> DEFINE q == SubSeq(s, 1, 3)
    <3>1. Len(s) >= 3
      BY <2>4
    <3>2. q \in Seq(Segs) /\ Len(q) = 3 /\ q[1] = s[1] /\ q[2] = s[2] /\ q[3] = s[3]
      BY <1>1, <3>1
    <3> HIDE DEF q
    <3>3. q = <<q[1], q[2], q[3]>>
      BY <3>2, TripleIs
    <3> QED BY <2>4, <3>2, <3>3 DEF Names, q
  <2> QED BY <2>2, <2>4, <2>5, <2>6
<1>5. ASSUME \A n \in {c.tenant, c.package, c.entity} : Nameable(n),
             Len(c.tenant) # Len(Reserved), Slash \notin ToSet(c.id), c.action = <<>>
      PROVE  Served(r)
  <2>1. NoSlash(c.id)
    <3>1. c.id = <<>> \/ c.id \in Seq(AnyChar)
      BY DEF RouteShape
    <3> DEFINE id == c.id
    <3> HIDE DEF id
    <3>2. DOMAIN id = 1..Len(id)
      <4>1. id = <<>> \/ id \in Seq(AnyChar)
        BY <3>1 DEF id
      <4> QED BY <4>1
    <3>3. \A i \in DOMAIN id : id[i] \in ToSet(id)
      BY DEF ToSet
    <3>4. Slash \notin ToSet(id)
      BY <1>5 DEF id
    <3>5. NoSlash(id)
      BY <3>2, <3>3, <3>4 DEF NoSlash
    <3> QED BY <3>5 DEF id
  <2>2. s[1] = c.tenant /\ s[2] = c.package /\ s[3] = c.entity /\ Len(s) <= 4 /\ Len(s) >= 3
    <3>1. Names(c, s) /\ IF c.id = <<>> THEN Len(s) = 3 ELSE Len(s) = 4 /\ s[4] = c.id
      BY <1>1, <1>5, <2>1
    <3>2. Len(s) <= 4 /\ Len(s) >= 3
      <4> DEFINE size == Len(s)
      <4>1. size = 3 \/ size = 4
        BY <3>1, Zenon
      <4> HIDE DEF size
      <4>2. size <= 4 /\ size >= 3
        BY <4>1
      <4> QED BY <4>2 DEF size
    <3> QED BY <3>1, <3>2 DEF Names
  <2>3. is_valid_name(c.tenant) /\ is_valid_name(c.package) /\ is_valid_name(c.entity)
    BY <1>5 DEF Nameable, is_valid_name, RouteShape, ProperName
  <2>4. toLower(c.tenant) # Reserved
    <3> SUFFICES ASSUME toLower(c.tenant) = Reserved PROVE FALSE
      OBVIOUS
    <3> DEFINE t == c.tenant
    <3>1. DOMAIN toLower(t) = DOMAIN t
      BY DEF toLower
    <3>2. t \in Seq(AnyChar)
      BY DEF RouteShape, ProperName
    <3> HIDE DEF t
    <3>3. DOMAIN t = 1..Len(t) /\ Len(t) \in Nat
      BY <3>2
    <3>4. DOMAIN Reserved = 1..3 /\ Len(Reserved) = 3
      BY DEF Reserved
    <3>5. 1..Len(t) = 1..3
      BY <3>1, <3>3, <3>4 DEF t
    <3>6. Len(t) = 3
      <4>1. Len(t) >= 3
        <5>1. 3 \in 1..Len(t)
          BY <3>5
        <5> QED BY <3>3, <5>1
      <4>2. ~(Len(t) >= 4)
        <5>1. 4 \notin 1..Len(t)
          BY <3>5
        <5> QED BY <3>3, <5>1
      <4> QED BY <3>3, <4>1, <4>2
    <3> QED BY <1>5, <3>4, <3>6 DEF t
  <2>5. ~NotTaken
    BY <1>3, <2>2, <2>3, <2>4
  <2>6. r.valid /\ r.action = <<>>
    BY <1>2, <1>3, <2>2, <2>5
  <2> QED BY <2>6 DEF Served
<1> QED BY <1>4, <1>5 DEF Reads, r

RouteInv ==
    /\ rtcase \in RouteCases
    /\ rtout = <<>> \/ rtout = <<parseRoute(FullPath(rtcase))>>

LEMMA RoutesOK == RouteInv => NeverAnotherRow
<1> SUFFICES ASSUME RouteInv, rtout # <<>> PROVE NeverAnotherRow
  BY DEF NeverAnotherRow
<1> DEFINE c == rtcase
           r == rtout[1]
           names == {c.tenant, c.package, c.entity}
<1>1. r = parseRoute(FullPath(c)) /\ Parted(c)
  BY CasesHaveShape DEF RouteInv
<1>2. ASSUME <<>> \notin names
      PROVE  /\ ProperName(c.tenant) /\ ProperName(c.package) /\ ProperName(c.entity)
             /\ Skips(c) \/ RouteShape(c)
  BY <1>2, CasesHaveShape DEF RouteInv
<1> HIDE DEF r, c
<1>3. ASSUME <<>> \notin names, ~Skips(c) PROVE Reads(c, r)
  BY <1>1, <1>2, <1>3, RouteIsRead
<1>4. ASSUME Served(r), <<>> \notin names
      PROVE  r.names = <<c.tenant, c.package, c.entity>> /\ (Skips(c) \/ (r.id = c.id /\ c.action = <<>>))
  <2>1. CASE ~Skips(c)
    BY <1>3, <1>4, <2>1 DEF Reads
  <2>2. CASE Skips(c)
    <3>1. c.parts # 3
      BY <1>1, <2>2 DEF Skips, Parted
    <3> QED BY <1>1, <1>2, <1>4, <2>2, <3>1, NamesAreServed
  <2> QED BY <2>1, <2>2
<1>5. ASSUME \A n \in names : n # <<>> /\ Nameable(n), Len(c.tenant) # Len(Reserved),
             Slash \notin ToSet(c.id), c.action = <<>>
      PROVE  Served(r)
  <2>1. <<>> \notin names
    BY <1>5
  <2>2. ~Skips(c)
    <3> SUFFICES ASSUME c.id # <<>> PROVE Slash \notin {c.id[1], c.id[Len(c.id)]}
      BY <1>5 DEF Skips
    <3> DEFINE id == c.id
    <3>1. id \in Seq(AnyChar) /\ id # <<>>
      BY <1>1 DEF Parted
    <3> HIDE DEF id
    <3>2. 1 \in DOMAIN id /\ Len(id) \in DOMAIN id
      BY <3>1
    <3>3. id[1] \in ToSet(id) /\ id[Len(id)] \in ToSet(id)
      BY <3>2 DEF ToSet
    <3> QED BY <1>5, <3>3 DEF id
  <2>3. Reads(c, r)
    BY <1>3, <2>1, <2>2
  <2>4. \A n \in {c.tenant, c.package, c.entity} : Nameable(n)
    BY <1>5
  <2> QED BY <1>5, <2>3, <2>4 DEF Reads
<1> QED BY <1>4, <1>5 DEF NeverAnotherRow, r, c

LEMMA RouteStep == RouteInv /\ [RouteRequest]_routeVars => RouteInv'
BY DEF RouteInv, RouteRequest, routeVars

(***************************************************************************)
(* From the socket to the row                                              *)
(***************************************************************************)
RequestInv == ParsingInv /\ RouteInv /\ RangeInv

LEMMA RequestInit == Init => RequestInv
<1> SUFFICES ASSUME Init PROVE RequestInv
  BY DEF Init
<1>1. InitParsing
  <2>1. CASE part = "http"
    BY <2>1 DEF Init, InitCases
  <2>2. CASE part # "http"
    <3>1. hcase = OneStream /\ hgot = 0 /\ hout = Pending
      BY <2>2 DEF Init, InitCases
    <3>2. Broken(0) = <<>>
      <4> DEFINE w == <<"GET", "/status", "HTTP/1.1", "CR", "LF", "word", "CR", "LF">>
      <4>1. w \in Seq(AnyWord)
        BY WordsAre
      <4> HIDE DEF w
      <4>2. SubSeq(w, 1, 0) = <<>>
        BY <4>1
      <4> QED BY <4>2 DEF Broken, w
    <3>3. <<>> \in {Broken(n) : n \in 0..8}
      BY <3>2
    <3>4. <<>> \in Streams
      BY <3>3 DEF Streams
    <3> QED BY <3>1, <3>4 DEF InitParsing, OneStream
  <2> QED BY <2>1, <2>2
<1>2. rtcase \in RouteCases /\ rtout = <<>>
  <2>1. OneRoute \in RouteCases
    <3>1. <<>> \in RouteIds
      <4>1. <<>> \in [1..0 -> {"a", "-", Slash}] /\ 0 \in 0..MaxId
        BY RoutesAssumption
      <4> QED BY <4>1 DEF RouteIds, SeqOf
    <3> QED BY <3>1 DEF OneRoute, RouteCases, RouteNames, RouteActions
  <2>2. CASE part = "routes"
    BY <2>2 DEF Init, InitCases, InitRoutes
  <2>3. CASE part # "routes"
    BY <2>1, <2>3 DEF Init, InitCases
  <2> QED BY <2>2, <2>3
<1>3. rgcase \in RangeCases /\ rgout = Unsent200
  <2>1. OneRange \in RangeCases
    <3>1. 0 \in 0..MaxBytes
      BY SizeAssumption
    <3> QED BY <3>1 DEF OneRange, RangeCases, RangeNumbers
  <2>2. CASE part = "ranges"
    BY <2>2 DEF Init, InitCases, InitRanges
  <2>3. CASE part # "ranges"
    BY <2>1, <2>3 DEF Init, InitCases
  <2> QED BY <2>2, <2>3
<1>4. ParsingInv
  BY <1>1, ParsingInit
<1>5. RouteInv /\ RangeInv
  BY <1>2, <1>3 DEF RouteInv, RangeInv
<1> QED BY <1>4, <1>5 DEF RequestInv

(* A step of another part leaves the three alone.                          *)
LEMMA RequestParts ==
    [Next]_ruleVars => [NextParsing]_parseVars /\ [RouteRequest]_routeVars /\ [ReadRange]_rangeVars
<1> SUFFICES ASSUME [Next]_ruleVars
             PROVE  [NextParsing]_parseVars /\ [RouteRequest]_routeVars /\ [ReadRange]_rangeVars
  OBVIOUS
<1>1. CASE UNCHANGED ruleVars
  BY <1>1 DEF ruleVars, caseVars
<1>2. CASE UNCHANGED caseVars
  BY <1>2 DEF caseVars
<1>3. CASE NextCasePart
  BY <1>3 DEF NextCasePart
<1> QED BY <1>1, <1>2, <1>3 DEF Next

LEMMA RequestStep == RequestInv /\ [Next]_ruleVars => RequestInv'
<1> SUFFICES ASSUME RequestInv, [Next]_ruleVars PROVE RequestInv'
  OBVIOUS
<1>1. [NextParsing]_parseVars /\ [RouteRequest]_routeVars /\ [ReadRange]_rangeVars
  BY RequestParts
<1>2. ParsingInv'
  BY <1>1, ParsingStep DEF RequestInv
<1>3. RouteInv'
  BY <1>1, RouteStep DEF RequestInv
<1>4. RangeInv'
  BY <1>1, RangeStep DEF RequestInv
<1> QED BY <1>2, <1>3, <1>4 DEF RequestInv

(* From the bytes on the socket to the row: the cuts do not change an      *)
(* answer and the two parsers agree, whatever the limits; a served request *)
(* keeps the tenant, package and entity of its URL, and its row unless the *)
(* identifier begins or ends with a separator or is empty before an        *)
(* action, however long it is; a range of a blob is the bytes asked for.   *)
THEOREM RequestsStayOnTheirRows == Spec => []RequestsReachTheirRows
<1>1. RequestInv => RequestsReachTheirRows
  BY CutsOK, TwinsOK, RoutesOK, RangesOK DEF RequestInv, RequestsReachTheirRows
<1> QED BY <1>1, RequestInit, RequestStep, PTL DEF Spec

(***************************************************************************)
(* The table of routes                                                     *)
(***************************************************************************)
AnyWordOfUrl ==
    {Var, "health", "healthz", "version", "api", "status", "metrics", "dbal", "schema", "admin", "config", "adapters",
     "test-connection", "seed", "credentials", "secrets", "reveal", "_search", "_bulk", "create", "update", "delete",
     "_batch", "blob", "_stats", "bql", "parse", "query", ".well-known", "openid-configuration", "oidc", "jwks.json",
     "authorize", "token", "login", "userinfo", "logout", "saml", "metadata", "sso", "cas", "serviceValidate"}
AnyMethod == {"GET", "POST", "PUT", "PATCH", "DELETE", "HEAD", "OPTIONS"}
AnyBudget == {"none", "admin", "read", "mutation"}
AnyRoute ==
    [path : Seq(AnyWordOfUrl), methods : SUBSET AnyMethod, read : AnyBudget, write : AnyBudget, preflight : AnyBudget]

LEMMA RouteIsRoute ==
    ASSUME NEW p \in Seq(AnyWordOfUrl), NEW m \in SUBSET AnyMethod,
           NEW r \in AnyBudget, NEW w \in AnyBudget, NEW f \in AnyBudget
    PROVE  /\ Route(p, m, r, w, f) \in AnyRoute
           /\ Uncounted(p, m) \in AnyRoute /\ Admin(p, m) \in AnyRoute
           /\ Changes(p) \in AnyRoute /\ Entity(p, m) \in AnyRoute
  BY DEF Route, AnyRoute, Uncounted, Admin, Changes, Entity, AnyMethod, AnyBudget

LEMMA Onto ==
    ASSUME NEW s \in Seq(AnyRoute), NEW t \in Seq(AnyRoute)
    PROVE  /\ s \o t \in Seq(AnyRoute) /\ Len(s \o t) = Len(s) + Len(t)
           /\ \A i \in 1..Len(s) : (s \o t)[i] = s[i]
           /\ \A i \in 1..Len(t) : (s \o t)[Len(s) + i] = t[i]
  OBVIOUS

Laid(s, n) == s \in Seq(AnyRoute) /\ Len(s) = n

LEMMA GroupsAre ==
    /\ Laid(HealthRoutes, 7) /\ Laid(SchemaRoutes, 1) /\ Laid(AdminRoutes, 4) /\ Laid(SecretRoutes, 3)
    /\ Laid(RpcRoutes, 1) /\ Laid(SearchRoutes, 1) /\ Laid(BulkRoutes, 3) /\ Laid(BatchRoutes, 1)
    /\ Laid(BlobRoutes, 4) /\ Laid(BqlRoutes, 1) /\ Laid(QueryRoutes, 1) /\ Laid(EntityRoutes, 3)
    /\ Laid(OidcRoutes, 7) /\ Laid(SamlAndCasRoutes, 5)
<1>1. Laid(HealthRoutes, 7)
  <2> DEFINE paths == << <<"health">>, <<"healthz">>, <<"version">>, <<"api", "version">>, <<"status">>,
                                 <<"api", "status">>, <<"metrics">> >>
  <2>1. \A i \in 1..7 : paths[i] \in Seq(AnyWordOfUrl)
    <3>1. /\ paths[1] \in Seq(AnyWordOfUrl) /\ paths[2] \in Seq(AnyWordOfUrl) /\ paths[3] \in Seq(AnyWordOfUrl)
          /\ paths[4] \in Seq(AnyWordOfUrl) /\ paths[5] \in Seq(AnyWordOfUrl) /\ paths[6] \in Seq(AnyWordOfUrl)
          /\ paths[7] \in Seq(AnyWordOfUrl)
      BY DEF AnyWordOfUrl
    <3> HIDE DEF paths
    <3> QED BY <3>1
  <2>2. HealthRoutes = [i \in 1..7 |-> Uncounted(paths[i], {"GET", "OPTIONS"})]
    BY DEF HealthRoutes
  <2> HIDE DEF paths
  <2>3. \A i \in 1..7 : HealthRoutes[i] \in AnyRoute
    <3>1. {"GET", "OPTIONS"} \in SUBSET AnyMethod /\ "none" \in AnyBudget
      BY DEF AnyMethod, AnyBudget
    <3> QED BY <3>1, <2>1, <2>2, RouteIsRoute
  <2> QED BY <2>2, <2>3 DEF Laid
<1>2. Laid(SchemaRoutes, 1)
  BY DEF Laid, SchemaRoutes, AnyRoute, Route, Uncounted, AnyWordOfUrl, AnyMethod, AnyBudget
<1>3. Laid(AdminRoutes, 4)
  BY DEF Laid, AdminRoutes, AnyRoute, Route, Admin, AnyWordOfUrl, AnyMethod, AnyBudget
<1>4. Laid(SecretRoutes, 3)
  BY DEF Laid, SecretRoutes, AnyRoute, Route, Admin, AnyWordOfUrl, AnyMethod, AnyBudget, Var
<1>5. Laid(RpcRoutes, 1) /\ Laid(SearchRoutes, 1) /\ Laid(BatchRoutes, 1)
  BY DEF Laid, RpcRoutes, SearchRoutes, BatchRoutes, AnyRoute, Route, Changes, AnyWordOfUrl, AnyMethod, AnyBudget, Var
<1>6. Laid(BulkRoutes, 3)
  BY DEF Laid, BulkRoutes, AnyRoute, Route, Changes, AnyWordOfUrl, AnyMethod, AnyBudget, Var
<1>7. Laid(BlobRoutes, 4)
  BY DEF Laid, BlobRoutes, AnyRoute, Route, AnyWordOfUrl, AnyMethod, AnyBudget, Var
<1>8. Laid(BqlRoutes, 1) /\ Laid(QueryRoutes, 1)
  BY DEF Laid, BqlRoutes, QueryRoutes, AnyRoute, Route, AnyWordOfUrl, AnyMethod, AnyBudget, Var
<1>9. Laid(EntityRoutes, 3)
  BY DEF Laid, EntityRoutes, AnyRoute, Route, Entity, AnyWordOfUrl, AnyMethod, AnyBudget, Var
<1>10. Laid(OidcRoutes, 7)
  BY DEF Laid, OidcRoutes, AnyRoute, Route, Uncounted, AnyWordOfUrl, AnyMethod, AnyBudget
<1>11. Laid(SamlAndCasRoutes, 5)
  BY DEF Laid, SamlAndCasRoutes, AnyRoute, Route, Uncounted, AnyWordOfUrl, AnyMethod, AnyBudget
<1> QED BY <1>1, <1>2, <1>3, <1>4, <1>5, <1>6, <1>7, <1>8, <1>9, <1>10, <1>11

(* One group after the rows before it.                                     *)
Grown(u, s, m, t, n) ==
    /\ Laid(u, m + n)
    /\ \A i \in 1..m : u[i] = s[i]
    /\ \A i \in 1..n : u[m + i] = t[i]

LEMMA GroupFollows ==
    ASSUME NEW s, NEW t, NEW m \in Nat, NEW n \in Nat, Laid(s, m), Laid(t, n)
    PROVE  Grown(s \o t, s, m, t, n)
  BY Onto DEF Laid, Grown

LEMMA RoutesAre ==
    /\ Laid(registerRoutes, 42)
    /\ \A i \in 1..7 : registerRoutes[0 + i] = HealthRoutes[i]
    /\ \A i \in 1..1 : registerRoutes[7 + i] = SchemaRoutes[i]
    /\ \A i \in 1..4 : registerRoutes[8 + i] = AdminRoutes[i]
    /\ \A i \in 1..3 : registerRoutes[12 + i] = SecretRoutes[i]
    /\ \A i \in 1..1 : registerRoutes[15 + i] = RpcRoutes[i]
    /\ \A i \in 1..1 : registerRoutes[16 + i] = SearchRoutes[i]
    /\ \A i \in 1..3 : registerRoutes[17 + i] = BulkRoutes[i]
    /\ \A i \in 1..1 : registerRoutes[20 + i] = BatchRoutes[i]
    /\ \A i \in 1..4 : registerRoutes[21 + i] = BlobRoutes[i]
    /\ \A i \in 1..1 : registerRoutes[25 + i] = BqlRoutes[i]
    /\ \A i \in 1..1 : registerRoutes[26 + i] = QueryRoutes[i]
    /\ \A i \in 1..3 : registerRoutes[27 + i] = EntityRoutes[i]
    /\ \A i \in 1..7 : registerRoutes[30 + i] = OidcRoutes[i]
    /\ \A i \in 1..5 : registerRoutes[37 + i] = SamlAndCasRoutes[i]
<1> DEFINE t1 == HealthRoutes
           t2 == t1 \o SchemaRoutes
           t3 == t2 \o AdminRoutes
           t4 == t3 \o SecretRoutes
           t5 == t4 \o RpcRoutes
           t6 == t5 \o SearchRoutes
           t7 == t6 \o BulkRoutes
           t8 == t7 \o BatchRoutes
           t9 == t8 \o BlobRoutes
           t10 == t9 \o BqlRoutes
           t11 == t10 \o QueryRoutes
           t12 == t11 \o EntityRoutes
           t13 == t12 \o OidcRoutes
           t14 == t13 \o SamlAndCasRoutes
<1>1. Laid(t1, 7)
  BY GroupsAre
<1>2. Grown(t2, t1, 7, SchemaRoutes, 1) /\ Laid(t2, 8)
  <2>1. Laid(t1, 7) /\ Laid(SchemaRoutes, 1) /\ 7 \in Nat /\ 1 \in Nat
    BY <1>1, GroupsAre
  <2>2. 7 + 1 = 8
    OBVIOUS
  <2> HIDE DEF t1
  <2>3. Grown(t2, t1, 7, SchemaRoutes, 1)
    BY <2>1, GroupFollows, Zenon
  <2>4. Laid(t2, 7 + 1)
    BY <2>3 DEF Grown
  <2> QED BY <2>2, <2>3, <2>4
<1>3. Grown(t3, t2, 8, AdminRoutes, 4) /\ Laid(t3, 12)
  <2>1. Laid(t2, 8) /\ Laid(AdminRoutes, 4) /\ 8 \in Nat /\ 4 \in Nat
    BY <1>2, GroupsAre
  <2>2. 8 + 4 = 12
    OBVIOUS
  <2> HIDE DEF t2
  <2>3. Grown(t3, t2, 8, AdminRoutes, 4)
    BY <2>1, GroupFollows, Zenon
  <2>4. Laid(t3, 8 + 4)
    BY <2>3 DEF Grown
  <2> QED BY <2>2, <2>3, <2>4
<1>4. Grown(t4, t3, 12, SecretRoutes, 3) /\ Laid(t4, 15)
  <2>1. Laid(t3, 12) /\ Laid(SecretRoutes, 3) /\ 12 \in Nat /\ 3 \in Nat
    BY <1>3, GroupsAre
  <2>2. 12 + 3 = 15
    OBVIOUS
  <2> HIDE DEF t3
  <2>3. Grown(t4, t3, 12, SecretRoutes, 3)
    BY <2>1, GroupFollows, Zenon
  <2>4. Laid(t4, 12 + 3)
    BY <2>3 DEF Grown
  <2> QED BY <2>2, <2>3, <2>4
<1>5. Grown(t5, t4, 15, RpcRoutes, 1) /\ Laid(t5, 16)
  <2>1. Laid(t4, 15) /\ Laid(RpcRoutes, 1) /\ 15 \in Nat /\ 1 \in Nat
    BY <1>4, GroupsAre
  <2>2. 15 + 1 = 16
    OBVIOUS
  <2> HIDE DEF t4
  <2>3. Grown(t5, t4, 15, RpcRoutes, 1)
    BY <2>1, GroupFollows, Zenon
  <2>4. Laid(t5, 15 + 1)
    BY <2>3 DEF Grown
  <2> QED BY <2>2, <2>3, <2>4
<1>6. Grown(t6, t5, 16, SearchRoutes, 1) /\ Laid(t6, 17)
  <2>1. Laid(t5, 16) /\ Laid(SearchRoutes, 1) /\ 16 \in Nat /\ 1 \in Nat
    BY <1>5, GroupsAre
  <2>2. 16 + 1 = 17
    OBVIOUS
  <2> HIDE DEF t5
  <2>3. Grown(t6, t5, 16, SearchRoutes, 1)
    BY <2>1, GroupFollows, Zenon
  <2>4. Laid(t6, 16 + 1)
    BY <2>3 DEF Grown
  <2> QED BY <2>2, <2>3, <2>4
<1>7. Grown(t7, t6, 17, BulkRoutes, 3) /\ Laid(t7, 20)
  <2>1. Laid(t6, 17) /\ Laid(BulkRoutes, 3) /\ 17 \in Nat /\ 3 \in Nat
    BY <1>6, GroupsAre
  <2>2. 17 + 3 = 20
    OBVIOUS
  <2> HIDE DEF t6
  <2>3. Grown(t7, t6, 17, BulkRoutes, 3)
    BY <2>1, GroupFollows, Zenon
  <2>4. Laid(t7, 17 + 3)
    BY <2>3 DEF Grown
  <2> QED BY <2>2, <2>3, <2>4
<1>8. Grown(t8, t7, 20, BatchRoutes, 1) /\ Laid(t8, 21)
  <2>1. Laid(t7, 20) /\ Laid(BatchRoutes, 1) /\ 20 \in Nat /\ 1 \in Nat
    BY <1>7, GroupsAre
  <2>2. 20 + 1 = 21
    OBVIOUS
  <2> HIDE DEF t7
  <2>3. Grown(t8, t7, 20, BatchRoutes, 1)
    BY <2>1, GroupFollows, Zenon
  <2>4. Laid(t8, 20 + 1)
    BY <2>3 DEF Grown
  <2> QED BY <2>2, <2>3, <2>4
<1>9. Grown(t9, t8, 21, BlobRoutes, 4) /\ Laid(t9, 25)
  <2>1. Laid(t8, 21) /\ Laid(BlobRoutes, 4) /\ 21 \in Nat /\ 4 \in Nat
    BY <1>8, GroupsAre
  <2>2. 21 + 4 = 25
    OBVIOUS
  <2> HIDE DEF t8
  <2>3. Grown(t9, t8, 21, BlobRoutes, 4)
    BY <2>1, GroupFollows, Zenon
  <2>4. Laid(t9, 21 + 4)
    BY <2>3 DEF Grown
  <2> QED BY <2>2, <2>3, <2>4
<1>10. Grown(t10, t9, 25, BqlRoutes, 1) /\ Laid(t10, 26)
  <2>1. Laid(t9, 25) /\ Laid(BqlRoutes, 1) /\ 25 \in Nat /\ 1 \in Nat
    BY <1>9, GroupsAre
  <2>2. 25 + 1 = 26
    OBVIOUS
  <2> HIDE DEF t9
  <2>3. Grown(t10, t9, 25, BqlRoutes, 1)
    BY <2>1, GroupFollows, Zenon
  <2>4. Laid(t10, 25 + 1)
    BY <2>3 DEF Grown
  <2> QED BY <2>2, <2>3, <2>4
<1>11. Grown(t11, t10, 26, QueryRoutes, 1) /\ Laid(t11, 27)
  <2>1. Laid(t10, 26) /\ Laid(QueryRoutes, 1) /\ 26 \in Nat /\ 1 \in Nat
    BY <1>10, GroupsAre
  <2>2. 26 + 1 = 27
    OBVIOUS
  <2> HIDE DEF t10
  <2>3. Grown(t11, t10, 26, QueryRoutes, 1)
    BY <2>1, GroupFollows, Zenon
  <2>4. Laid(t11, 26 + 1)
    BY <2>3 DEF Grown
  <2> QED BY <2>2, <2>3, <2>4
<1>12. Grown(t12, t11, 27, EntityRoutes, 3) /\ Laid(t12, 30)
  <2>1. Laid(t11, 27) /\ Laid(EntityRoutes, 3) /\ 27 \in Nat /\ 3 \in Nat
    BY <1>11, GroupsAre
  <2>2. 27 + 3 = 30
    OBVIOUS
  <2> HIDE DEF t11
  <2>3. Grown(t12, t11, 27, EntityRoutes, 3)
    BY <2>1, GroupFollows, Zenon
  <2>4. Laid(t12, 27 + 3)
    BY <2>3 DEF Grown
  <2> QED BY <2>2, <2>3, <2>4
<1>13. Grown(t13, t12, 30, OidcRoutes, 7) /\ Laid(t13, 37)
  <2>1. Laid(t12, 30) /\ Laid(OidcRoutes, 7) /\ 30 \in Nat /\ 7 \in Nat
    BY <1>12, GroupsAre
  <2>2. 30 + 7 = 37
    OBVIOUS
  <2> HIDE DEF t12
  <2>3. Grown(t13, t12, 30, OidcRoutes, 7)
    BY <2>1, GroupFollows, Zenon
  <2>4. Laid(t13, 30 + 7)
    BY <2>3 DEF Grown
  <2> QED BY <2>2, <2>3, <2>4
<1>14. Grown(t14, t13, 37, SamlAndCasRoutes, 5) /\ Laid(t14, 42)
  <2>1. Laid(t13, 37) /\ Laid(SamlAndCasRoutes, 5) /\ 37 \in Nat /\ 5 \in Nat
    BY <1>13, GroupsAre
  <2>2. 37 + 5 = 42
    OBVIOUS
  <2> HIDE DEF t13
  <2>3. Grown(t14, t13, 37, SamlAndCasRoutes, 5)
    BY <2>1, GroupFollows, Zenon
  <2>4. Laid(t14, 37 + 5)
    BY <2>3 DEF Grown
  <2> QED BY <2>2, <2>3, <2>4
<1>15. registerRoutes = t14
  BY DEF registerRoutes
<1> HIDE DEF t1, t2, t3, t4, t5, t6, t7, t8, t9, t10, t11, t12, t13, t14
<1>16. Laid(registerRoutes, 42)
  BY <1>14, <1>15
<1>17. \A i \in 1..7 : registerRoutes[0 + i] = HealthRoutes[i]
  BY <1>2, <1>3, <1>4, <1>5, <1>6, <1>7, <1>8, <1>9, <1>10, <1>11, <1>12, <1>13, <1>14, <1>15 DEF Grown, t1
<1>18. \A i \in 1..1 : registerRoutes[7 + i] = SchemaRoutes[i]
  BY <1>2, <1>3, <1>4, <1>5, <1>6, <1>7, <1>8, <1>9, <1>10, <1>11, <1>12, <1>13, <1>14, <1>15 DEF Grown
<1>19. \A i \in 1..4 : registerRoutes[8 + i] = AdminRoutes[i]
  BY <1>3, <1>4, <1>5, <1>6, <1>7, <1>8, <1>9, <1>10, <1>11, <1>12, <1>13, <1>14, <1>15 DEF Grown
<1>20. \A i \in 1..3 : registerRoutes[12 + i] = SecretRoutes[i]
  BY <1>4, <1>5, <1>6, <1>7, <1>8, <1>9, <1>10, <1>11, <1>12, <1>13, <1>14, <1>15 DEF Grown
<1>21. \A i \in 1..1 : registerRoutes[15 + i] = RpcRoutes[i]
  BY <1>5, <1>6, <1>7, <1>8, <1>9, <1>10, <1>11, <1>12, <1>13, <1>14, <1>15 DEF Grown
<1>22. \A i \in 1..1 : registerRoutes[16 + i] = SearchRoutes[i]
  BY <1>6, <1>7, <1>8, <1>9, <1>10, <1>11, <1>12, <1>13, <1>14, <1>15 DEF Grown
<1>23. \A i \in 1..3 : registerRoutes[17 + i] = BulkRoutes[i]
  BY <1>7, <1>8, <1>9, <1>10, <1>11, <1>12, <1>13, <1>14, <1>15 DEF Grown
<1>24. \A i \in 1..1 : registerRoutes[20 + i] = BatchRoutes[i]
  BY <1>8, <1>9, <1>10, <1>11, <1>12, <1>13, <1>14, <1>15 DEF Grown
<1>25. \A i \in 1..4 : registerRoutes[21 + i] = BlobRoutes[i]
  BY <1>9, <1>10, <1>11, <1>12, <1>13, <1>14, <1>15 DEF Grown
<1>26. \A i \in 1..1 : registerRoutes[25 + i] = BqlRoutes[i]
  BY <1>10, <1>11, <1>12, <1>13, <1>14, <1>15 DEF Grown
<1>27. \A i \in 1..1 : registerRoutes[26 + i] = QueryRoutes[i]
  BY <1>11, <1>12, <1>13, <1>14, <1>15 DEF Grown
<1>28. \A i \in 1..3 : registerRoutes[27 + i] = EntityRoutes[i]
  BY <1>12, <1>13, <1>14, <1>15 DEF Grown
<1>29. \A i \in 1..7 : registerRoutes[30 + i] = OidcRoutes[i]
  BY <1>13, <1>14, <1>15 DEF Grown
<1>30. \A i \in 1..5 : registerRoutes[37 + i] = SamlAndCasRoutes[i]
  BY <1>14, <1>15 DEF Grown
<1> QED BY <1>16, <1>17, <1>18, <1>19, <1>20, <1>21, <1>22, <1>23, <1>24, <1>25, <1>26, <1>27, <1>28, <1>29, <1>30
(* What a route spells.                                                    *)
PathOf(i) == registerRoutes[i].path

LEMMA HealthPaths ==
    /\ PathOf(1) = <<"health">>
    /\ PathOf(2) = <<"healthz">>
    /\ PathOf(3) = <<"version">>
    /\ PathOf(4) = <<"api", "version">>
    /\ PathOf(5) = <<"status">>
    /\ PathOf(6) = <<"api", "status">>
    /\ PathOf(7) = <<"metrics">>
<1>1. registerRoutes[1] = HealthRoutes[1] /\ registerRoutes[2] = HealthRoutes[2] /\ registerRoutes[3] = HealthRoutes[3]
       /\ registerRoutes[4] = HealthRoutes[4] /\ registerRoutes[5] = HealthRoutes[5]
       /\ registerRoutes[6] = HealthRoutes[6] /\ registerRoutes[7] = HealthRoutes[7]
  BY RoutesAre
<1> QED BY <1>1 DEF PathOf, HealthRoutes, Route, Uncounted, Admin, Changes, Entity

LEMMA SchemaPaths ==
    /\ PathOf(8) = <<"api", "dbal", "schema">>
<1>1. registerRoutes[8] = SchemaRoutes[1]
  BY RoutesAre
<1> QED BY <1>1 DEF PathOf, SchemaRoutes, Route, Uncounted, Admin, Changes, Entity

LEMMA AdminPaths ==
    /\ PathOf(9) = <<"admin", "config">>
    /\ PathOf(10) = <<"admin", "adapters">>
    /\ PathOf(11) = <<"admin", "test-connection">>
    /\ PathOf(12) = <<"admin", "seed">>
<1>1. registerRoutes[9] = AdminRoutes[1] /\ registerRoutes[10] = AdminRoutes[2] /\ registerRoutes[11] = AdminRoutes[3]
       /\ registerRoutes[12] = AdminRoutes[4]
  BY RoutesAre
<1> QED BY <1>1 DEF PathOf, AdminRoutes, Route, Uncounted, Admin, Changes, Entity

LEMMA SecretPaths ==
    /\ PathOf(13) = <<"admin", "credentials">>
    /\ PathOf(14) = <<"admin", "secrets">>
    /\ PathOf(15) = <<"admin", "secrets", Var, "reveal">>
<1>1. registerRoutes[13] = SecretRoutes[1] /\ registerRoutes[14] = SecretRoutes[2] /\ registerRoutes[15] = SecretRoutes[3]
  BY RoutesAre
<1> QED BY <1>1 DEF PathOf, SecretRoutes, Route, Uncounted, Admin, Changes, Entity

LEMMA RpcPaths ==
    /\ PathOf(16) = <<"api", "dbal">>
<1>1. registerRoutes[16] = RpcRoutes[1]
  BY RoutesAre
<1> QED BY <1>1 DEF PathOf, RpcRoutes, Route, Uncounted, Admin, Changes, Entity

LEMMA SearchPaths ==
    /\ PathOf(17) = <<Var, Var, Var, "_search">>
<1>1. registerRoutes[17] = SearchRoutes[1]
  BY RoutesAre
<1> QED BY <1>1 DEF PathOf, SearchRoutes, Route, Uncounted, Admin, Changes, Entity

LEMMA BulkPaths ==
    /\ PathOf(18) = <<Var, Var, Var, "_bulk", "create">>
    /\ PathOf(19) = <<Var, Var, Var, "_bulk", "update">>
    /\ PathOf(20) = <<Var, Var, Var, "_bulk", "delete">>
<1>1. registerRoutes[18] = BulkRoutes[1] /\ registerRoutes[19] = BulkRoutes[2] /\ registerRoutes[20] = BulkRoutes[3]
  BY RoutesAre
<1> QED BY <1>1 DEF PathOf, BulkRoutes, Route, Uncounted, Admin, Changes, Entity

LEMMA BatchPaths ==
    /\ PathOf(21) = <<Var, Var, "_batch">>
<1>1. registerRoutes[21] = BatchRoutes[1]
  BY RoutesAre
<1> QED BY <1>1 DEF PathOf, BatchRoutes, Route, Uncounted, Admin, Changes, Entity

LEMMA BlobPaths ==
    /\ PathOf(22) = <<Var, Var, "blob", "_stats">>
    /\ PathOf(23) = <<Var, Var, "blob">>
    /\ PathOf(24) = <<Var, Var, "blob", Var, Var>>
    /\ PathOf(25) = <<Var, Var, "blob", Var>>
<1>1. registerRoutes[22] = BlobRoutes[1] /\ registerRoutes[23] = BlobRoutes[2] /\ registerRoutes[24] = BlobRoutes[3]
       /\ registerRoutes[25] = BlobRoutes[4]
  BY RoutesAre
<1> QED BY <1>1 DEF PathOf, BlobRoutes, Route, Uncounted, Admin, Changes, Entity

LEMMA BqlPaths ==
    /\ PathOf(26) = <<Var, Var, "bql", "parse">>
<1>1. registerRoutes[26] = BqlRoutes[1]
  BY RoutesAre
<1> QED BY <1>1 DEF PathOf, BqlRoutes, Route, Uncounted, Admin, Changes, Entity

LEMMA QueryPaths ==
    /\ PathOf(27) = <<Var, Var, "query", Var>>
<1>1. registerRoutes[27] = QueryRoutes[1]
  BY RoutesAre
<1> QED BY <1>1 DEF PathOf, QueryRoutes, Route, Uncounted, Admin, Changes, Entity

LEMMA EntityPaths ==
    /\ PathOf(28) = <<Var, Var, Var>>
    /\ PathOf(29) = <<Var, Var, Var, Var>>
    /\ PathOf(30) = <<Var, Var, Var, Var, Var>>
<1>1. registerRoutes[28] = EntityRoutes[1] /\ registerRoutes[29] = EntityRoutes[2] /\ registerRoutes[30] = EntityRoutes[3]
  BY RoutesAre
<1> QED BY <1>1 DEF PathOf, EntityRoutes, Route, Uncounted, Admin, Changes, Entity

LEMMA OidcPaths ==
    /\ PathOf(31) = <<".well-known", "openid-configuration">>
    /\ PathOf(32) = <<"oidc", "jwks.json">>
    /\ PathOf(33) = <<"oidc", "authorize">>
    /\ PathOf(34) = <<"oidc", "token">>
    /\ PathOf(35) = <<"oidc", "login">>
    /\ PathOf(36) = <<"oidc", "userinfo">>
    /\ PathOf(37) = <<"oidc", "logout">>
<1>1. registerRoutes[31] = OidcRoutes[1] /\ registerRoutes[32] = OidcRoutes[2] /\ registerRoutes[33] = OidcRoutes[3]
       /\ registerRoutes[34] = OidcRoutes[4] /\ registerRoutes[35] = OidcRoutes[5] /\ registerRoutes[36] = OidcRoutes[6]
       /\ registerRoutes[37] = OidcRoutes[7]
  BY RoutesAre
<1> QED BY <1>1 DEF PathOf, OidcRoutes, Route, Uncounted, Admin, Changes, Entity

LEMMA SamlAndCasPaths ==
    /\ PathOf(38) = <<"saml", "metadata">>
    /\ PathOf(39) = <<"saml", "sso">>
    /\ PathOf(40) = <<"saml", "login">>
    /\ PathOf(41) = <<"cas", "login">>
    /\ PathOf(42) = <<"cas", "serviceValidate">>
<1>1. registerRoutes[38] = SamlAndCasRoutes[1] /\ registerRoutes[39] = SamlAndCasRoutes[2]
       /\ registerRoutes[40] = SamlAndCasRoutes[3] /\ registerRoutes[41] = SamlAndCasRoutes[4]
       /\ registerRoutes[42] = SamlAndCasRoutes[5]
  BY RoutesAre
<1> QED BY <1>1 DEF PathOf, SamlAndCasRoutes, Route, Uncounted, Admin, Changes, Entity

(* The routes of a length.                                                 *)
OfLengthOne == {1, 2, 3, 5, 7}
OfLengthThree == {8, 21, 23, 28}
OfLengthFour == {15, 17, 22, 25, 26, 27, 29}
OfLengthFive == {18, 19, 20, 24, 30}
ApiPairs == {4, 6, 16}
AdminPairs == {9, 10, 11, 12, 13, 14}
DiscoveryPair == {31}
OidcPairs == {32, 33, 34, 35, 36, 37}
SamlPairs == {38, 39, 40}
CasPairs == {41, 42}
OfLengthTwo == ApiPairs \cup AdminPairs \cup DiscoveryPair \cup OidcPairs \cup SamlPairs \cup CasPairs

(* Of two routes of one length the earlier spells a word where the later   *)
(* has another or a variable.                                              *)
WordOf(i, k) == PathOf(i)[k]
SizeOf(i) == Len(PathOf(i))
Differs(i, j) == \E k \in 1..SizeOf(j) : WordOf(i, k) # Var /\ WordOf(i, k) # WordOf(j, k)

LEMMA LengthOneDiffers ==
    /\ \A i \in OfLengthOne : SizeOf(i) = 1
    /\ \A i, j \in OfLengthOne : i < j => Differs(i, j)
<1>1. /\ SizeOf(1) = 1 /\ SizeOf(2) = 1 /\ SizeOf(3) = 1 /\ SizeOf(5) = 1 /\ SizeOf(7) = 1
  BY HealthPaths DEF SizeOf
<1>2. /\ WordOf(1, 1) = "health" /\ WordOf(2, 1) = "healthz" /\ WordOf(3, 1) = "version"
      /\ WordOf(5, 1) = "status" /\ WordOf(7, 1) = "metrics"
  BY HealthPaths DEF WordOf
<1>3. \A i \in OfLengthOne : SizeOf(i) = 1
  BY <1>1 DEF OfLengthOne
<1>4. ASSUME NEW i \in OfLengthOne, NEW j \in OfLengthOne, i < j PROVE Differs(i, j)
  <2>1. i \in {1, 2, 3, 5, 7} /\ j \in {1, 2, 3, 5, 7}
    BY DEF OfLengthOne
  <2>2. CASE i = 1
    <3>1. j \in {2, 3, 5, 7}
      BY <1>4, <2>1, <2>2
    <3>2. WordOf(i, 1) # Var /\ WordOf(i, 1) # WordOf(j, 1)
      BY <2>2, <3>1, <1>2, Zenon DEF Var
    <3> QED BY <1>3, <3>2 DEF Differs
  <2>3. CASE i = 2
    <3>1. j \in {3, 5, 7}
      BY <1>4, <2>1, <2>3
    <3>2. WordOf(i, 1) # Var /\ WordOf(i, 1) # WordOf(j, 1)
      BY <2>3, <3>1, <1>2, Zenon DEF Var
    <3> QED BY <1>3, <3>2 DEF Differs
  <2>4. CASE i = 3
    <3>1. j \in {5, 7}
      BY <1>4, <2>1, <2>4
    <3>2. WordOf(i, 1) # Var /\ WordOf(i, 1) # WordOf(j, 1)
      BY <2>4, <3>1, <1>2, Zenon DEF Var
    <3> QED BY <1>3, <3>2 DEF Differs
  <2>5. CASE i = 5
    <3>1. j \in {7}
      BY <1>4, <2>1, <2>5
    <3>2. WordOf(i, 1) # Var /\ WordOf(i, 1) # WordOf(j, 1)
      BY <2>5, <3>1, <1>2, Zenon DEF Var
    <3> QED BY <1>3, <3>2 DEF Differs
  <2>6. i # 7
    BY <1>4, <2>1
  <2> QED BY <2>1, <2>2, <2>3, <2>4, <2>5, <2>6
<1> QED BY <1>3, <1>4

LEMMA LengthThreeDiffers ==
    /\ \A i \in OfLengthThree : SizeOf(i) = 3
    /\ \A i, j \in OfLengthThree : i < j => Differs(i, j)
<1>1. /\ SizeOf(8) = 3
  BY SchemaPaths DEF SizeOf
<1>2. /\ WordOf(8, 3) = "schema"
  BY SchemaPaths DEF WordOf
<1>3. /\ SizeOf(21) = 3
  BY BatchPaths DEF SizeOf
<1>4. /\ WordOf(21, 3) = "_batch"
  BY BatchPaths DEF WordOf
<1>5. /\ SizeOf(23) = 3
  BY BlobPaths DEF SizeOf
<1>6. /\ WordOf(23, 3) = "blob"
  BY BlobPaths DEF WordOf
<1>7. /\ SizeOf(28) = 3
  BY EntityPaths DEF SizeOf
<1>8. /\ WordOf(28, 3) = Var
  BY EntityPaths DEF WordOf
<1>9. \A i \in OfLengthThree : SizeOf(i) = 3
  BY <1>1, <1>3, <1>5, <1>7 DEF OfLengthThree
<1>10. ASSUME NEW i \in OfLengthThree, NEW j \in OfLengthThree, i < j PROVE Differs(i, j)
  <2>1. i \in {8, 21, 23, 28} /\ j \in {8, 21, 23, 28}
    BY DEF OfLengthThree
  <2>2. CASE i = 8
    <3>1. j \in {21, 23, 28}
      BY <1>10, <2>1, <2>2
    <3>2. WordOf(i, 3) # Var /\ WordOf(i, 3) # WordOf(j, 3)
      BY <2>2, <3>1, <1>2, <1>4, <1>6, <1>8, Zenon DEF Var
    <3> QED BY <1>9, <3>2 DEF Differs
  <2>3. CASE i = 21
    <3>1. j \in {23, 28}
      BY <1>10, <2>1, <2>3
    <3>2. WordOf(i, 3) # Var /\ WordOf(i, 3) # WordOf(j, 3)
      BY <2>3, <3>1, <1>4, <1>6, <1>8, Zenon DEF Var
    <3> QED BY <1>9, <3>2 DEF Differs
  <2>4. CASE i = 23
    <3>1. j \in {28}
      BY <1>10, <2>1, <2>4
    <3>2. WordOf(i, 3) # Var /\ WordOf(i, 3) # WordOf(j, 3)
      BY <2>4, <3>1, <1>6, <1>8, Zenon DEF Var
    <3> QED BY <1>9, <3>2 DEF Differs
  <2>5. i # 28
    BY <1>10, <2>1
  <2> QED BY <2>1, <2>2, <2>3, <2>4, <2>5
<1> QED BY <1>9, <1>10

LEMMA LengthFourDiffers ==
    /\ \A i \in OfLengthFour : SizeOf(i) = 4
    /\ \A i, j \in OfLengthFour : i < j => Differs(i, j)
<1>1. /\ SizeOf(15) = 4
  BY SecretPaths DEF SizeOf
<1>2. /\ WordOf(15, 3) = Var
  BY SecretPaths DEF WordOf
<1>3. /\ WordOf(15, 4) = "reveal"
  BY SecretPaths DEF WordOf
<1>4. /\ SizeOf(17) = 4
  BY SearchPaths DEF SizeOf
<1>5. /\ WordOf(17, 3) = Var
  BY SearchPaths DEF WordOf
<1>6. /\ WordOf(17, 4) = "_search"
  BY SearchPaths DEF WordOf
<1>7. /\ SizeOf(22) = 4 /\ SizeOf(25) = 4
  BY BlobPaths DEF SizeOf
<1>8. /\ WordOf(22, 3) = "blob" /\ WordOf(25, 3) = "blob"
  BY BlobPaths DEF WordOf
<1>9. /\ WordOf(22, 4) = "_stats" /\ WordOf(25, 4) = Var
  BY BlobPaths DEF WordOf
<1>10. /\ SizeOf(26) = 4
  BY BqlPaths DEF SizeOf
<1>11. /\ WordOf(26, 3) = "bql"
  BY BqlPaths DEF WordOf
<1>12. /\ WordOf(26, 4) = "parse"
  BY BqlPaths DEF WordOf
<1>13. /\ SizeOf(27) = 4
  BY QueryPaths DEF SizeOf
<1>14. /\ WordOf(27, 3) = "query"
  BY QueryPaths DEF WordOf
<1>15. /\ WordOf(27, 4) = Var
  BY QueryPaths DEF WordOf
<1>16. /\ SizeOf(29) = 4
  BY EntityPaths DEF SizeOf
<1>17. /\ WordOf(29, 3) = Var
  BY EntityPaths DEF WordOf
<1>18. /\ WordOf(29, 4) = Var
  BY EntityPaths DEF WordOf
<1>19. \A i \in OfLengthFour : SizeOf(i) = 4
  BY <1>1, <1>4, <1>7, <1>10, <1>13, <1>16 DEF OfLengthFour
<1>20. ASSUME NEW i \in OfLengthFour, NEW j \in OfLengthFour, i < j PROVE Differs(i, j)
  <2>1. i \in {15, 17, 22, 25, 26, 27, 29} /\ j \in {15, 17, 22, 25, 26, 27, 29}
    BY DEF OfLengthFour
  <2>2. CASE i = 15
    <3>1. j \in {17, 22, 25, 26, 27, 29}
      BY <1>20, <2>1, <2>2
    <3>2. WordOf(i, 4) # Var /\ WordOf(i, 4) # WordOf(j, 4)
      BY <2>2, <3>1, <1>3, <1>6, <1>9, <1>12, <1>15, <1>18, Zenon DEF Var
    <3> QED BY <1>19, <3>2 DEF Differs
  <2>3. CASE i = 17
    <3>1. j \in {22, 25, 26, 27, 29}
      BY <1>20, <2>1, <2>3
    <3>2. WordOf(i, 4) # Var /\ WordOf(i, 4) # WordOf(j, 4)
      BY <2>3, <3>1, <1>6, <1>9, <1>12, <1>15, <1>18, Zenon DEF Var
    <3> QED BY <1>19, <3>2 DEF Differs
  <2>4. CASE i = 22
    <3>1. j \in {25, 26, 27, 29}
      BY <1>20, <2>1, <2>4
    <3>2. WordOf(i, 4) # Var /\ WordOf(i, 4) # WordOf(j, 4)
      BY <2>4, <3>1, <1>9, <1>12, <1>15, <1>18, Zenon DEF Var
    <3> QED BY <1>19, <3>2 DEF Differs
  <2>5. CASE i = 25
    <3>1. j \in {26, 27, 29}
      BY <1>20, <2>1, <2>5
    <3>2. WordOf(i, 3) # Var /\ WordOf(i, 3) # WordOf(j, 3)
      BY <2>5, <3>1, <1>8, <1>11, <1>14, <1>17, Zenon DEF Var
    <3> QED BY <1>19, <3>2 DEF Differs
  <2>6. CASE i = 26
    <3>1. j \in {27, 29}
      BY <1>20, <2>1, <2>6
    <3>2. WordOf(i, 4) # Var /\ WordOf(i, 4) # WordOf(j, 4)
      BY <2>6, <3>1, <1>12, <1>15, <1>18, Zenon DEF Var
    <3> QED BY <1>19, <3>2 DEF Differs
  <2>7. CASE i = 27
    <3>1. j \in {29}
      BY <1>20, <2>1, <2>7
    <3>2. WordOf(i, 3) # Var /\ WordOf(i, 3) # WordOf(j, 3)
      BY <2>7, <3>1, <1>14, <1>17, Zenon DEF Var
    <3> QED BY <1>19, <3>2 DEF Differs
  <2>8. i # 29
    BY <1>20, <2>1
  <2> QED BY <2>1, <2>2, <2>3, <2>4, <2>5, <2>6, <2>7, <2>8
<1> QED BY <1>19, <1>20

LEMMA LengthFiveDiffers ==
    /\ \A i \in OfLengthFive : SizeOf(i) = 5
    /\ \A i, j \in OfLengthFive : i < j => Differs(i, j)
<1>1. /\ SizeOf(18) = 5 /\ SizeOf(19) = 5 /\ SizeOf(20) = 5
  BY BulkPaths DEF SizeOf
<1>2. /\ WordOf(18, 3) = Var /\ WordOf(19, 3) = Var /\ WordOf(20, 3) = Var
  BY BulkPaths DEF WordOf
<1>3. /\ WordOf(18, 5) = "create" /\ WordOf(19, 5) = "update" /\ WordOf(20, 5) = "delete"
  BY BulkPaths DEF WordOf
<1>4. /\ SizeOf(24) = 5
  BY BlobPaths DEF SizeOf
<1>5. /\ WordOf(24, 3) = "blob"
  BY BlobPaths DEF WordOf
<1>6. /\ WordOf(24, 5) = Var
  BY BlobPaths DEF WordOf
<1>7. /\ SizeOf(30) = 5
  BY EntityPaths DEF SizeOf
<1>8. /\ WordOf(30, 3) = Var
  BY EntityPaths DEF WordOf
<1>9. /\ WordOf(30, 5) = Var
  BY EntityPaths DEF WordOf
<1>10. \A i \in OfLengthFive : SizeOf(i) = 5
  BY <1>1, <1>4, <1>7 DEF OfLengthFive
<1>11. ASSUME NEW i \in OfLengthFive, NEW j \in OfLengthFive, i < j PROVE Differs(i, j)
  <2>1. i \in {18, 19, 20, 24, 30} /\ j \in {18, 19, 20, 24, 30}
    BY DEF OfLengthFive
  <2>2. CASE i = 18
    <3>1. j \in {19, 20, 24, 30}
      BY <1>11, <2>1, <2>2
    <3>2. WordOf(i, 5) # Var /\ WordOf(i, 5) # WordOf(j, 5)
      BY <2>2, <3>1, <1>3, <1>6, <1>9, Zenon DEF Var
    <3> QED BY <1>10, <3>2 DEF Differs
  <2>3. CASE i = 19
    <3>1. j \in {20, 24, 30}
      BY <1>11, <2>1, <2>3
    <3>2. WordOf(i, 5) # Var /\ WordOf(i, 5) # WordOf(j, 5)
      BY <2>3, <3>1, <1>3, <1>6, <1>9, Zenon DEF Var
    <3> QED BY <1>10, <3>2 DEF Differs
  <2>4. CASE i = 20
    <3>1. j \in {24, 30}
      BY <1>11, <2>1, <2>4
    <3>2. WordOf(i, 5) # Var /\ WordOf(i, 5) # WordOf(j, 5)
      BY <2>4, <3>1, <1>3, <1>6, <1>9, Zenon DEF Var
    <3> QED BY <1>10, <3>2 DEF Differs
  <2>5. CASE i = 24
    <3>1. j \in {30}
      BY <1>11, <2>1, <2>5
    <3>2. WordOf(i, 3) # Var /\ WordOf(i, 3) # WordOf(j, 3)
      BY <2>5, <3>1, <1>5, <1>8, Zenon DEF Var
    <3> QED BY <1>10, <3>2 DEF Differs
  <2>6. i # 30
    BY <1>11, <2>1
  <2> QED BY <2>1, <2>2, <2>3, <2>4, <2>5, <2>6
<1> QED BY <1>10, <1>11

LEMMA PairsSpell ==
    /\ \A i \in OfLengthTwo : SizeOf(i) = 2
    /\ \A i \in ApiPairs : WordOf(i, 1) = "api"
    /\ \A i \in AdminPairs : WordOf(i, 1) = "admin"
    /\ \A i \in DiscoveryPair : WordOf(i, 1) = ".well-known"
    /\ \A i \in OidcPairs : WordOf(i, 1) = "oidc"
    /\ \A i \in SamlPairs : WordOf(i, 1) = "saml"
    /\ \A i \in CasPairs : WordOf(i, 1) = "cas"
<1>1. \A i \in ApiPairs : SizeOf(i) = 2 /\ WordOf(i, 1) = "api"
  BY HealthPaths, RpcPaths DEF ApiPairs, SizeOf, WordOf
<1>2. \A i \in AdminPairs : SizeOf(i) = 2 /\ WordOf(i, 1) = "admin"
  BY AdminPaths, SecretPaths DEF AdminPairs, SizeOf, WordOf
<1>3. \A i \in DiscoveryPair : SizeOf(i) = 2 /\ WordOf(i, 1) = ".well-known"
  BY OidcPaths DEF DiscoveryPair, SizeOf, WordOf
<1>4. \A i \in OidcPairs : SizeOf(i) = 2 /\ WordOf(i, 1) = "oidc"
  BY OidcPaths DEF OidcPairs, SizeOf, WordOf
<1>5. \A i \in SamlPairs : SizeOf(i) = 2 /\ WordOf(i, 1) = "saml"
  BY SamlAndCasPaths DEF SamlPairs, SizeOf, WordOf
<1>6. \A i \in CasPairs : SizeOf(i) = 2 /\ WordOf(i, 1) = "cas"
  BY SamlAndCasPaths DEF CasPairs, SizeOf, WordOf
<1> QED BY <1>1, <1>2, <1>3, <1>4, <1>5, <1>6 DEF OfLengthTwo

LEMMA ApiPairsDiffer == \A i, j \in ApiPairs : i < j => Differs(i, j)
<1>1. /\ WordOf(4, 2) = "version" /\ WordOf(6, 2) = "status" /\ WordOf(16, 2) = "dbal"
  BY HealthPaths, RpcPaths DEF WordOf
<1>2. SUFFICES ASSUME NEW i \in ApiPairs, NEW j \in ApiPairs, i < j PROVE WordOf(i, 2) # Var /\ WordOf(i, 2) # WordOf(j, 2)
  BY PairsSpell DEF Differs, OfLengthTwo
<1>3. CASE i = 4
  <2>1. j \in {6, 16}
    BY <1>2, <1>3 DEF ApiPairs
  <2> QED BY <1>1, <1>3, <2>1, Zenon DEF Var
<1>4. CASE i = 6
  <2>1. j \in {16}
    BY <1>2, <1>4 DEF ApiPairs
  <2> QED BY <1>1, <1>4, <2>1, Zenon DEF Var
<1>5. i \in {4, 6}
  BY <1>2 DEF ApiPairs
<1> QED BY <1>3, <1>4, <1>5

LEMMA AdminPairsDiffer == \A i, j \in AdminPairs : i < j => Differs(i, j)
<1>1. /\ WordOf(9, 2) = "config" /\ WordOf(10, 2) = "adapters" /\ WordOf(11, 2) = "test-connection"
      /\ WordOf(12, 2) = "seed" /\ WordOf(13, 2) = "credentials" /\ WordOf(14, 2) = "secrets"
  BY AdminPaths, SecretPaths DEF WordOf
<1>2. SUFFICES ASSUME NEW i \in AdminPairs, NEW j \in AdminPairs, i < j PROVE WordOf(i, 2) # Var /\ WordOf(i, 2) # WordOf(j, 2)
  BY PairsSpell DEF Differs, OfLengthTwo
<1>3. CASE i = 9
  <2>1. j \in {10, 11, 12, 13, 14}
    BY <1>2, <1>3 DEF AdminPairs
  <2> QED BY <1>1, <1>3, <2>1, Zenon DEF Var
<1>4. CASE i = 10
  <2>1. j \in {11, 12, 13, 14}
    BY <1>2, <1>4 DEF AdminPairs
  <2> QED BY <1>1, <1>4, <2>1, Zenon DEF Var
<1>5. CASE i = 11
  <2>1. j \in {12, 13, 14}
    BY <1>2, <1>5 DEF AdminPairs
  <2> QED BY <1>1, <1>5, <2>1, Zenon DEF Var
<1>6. CASE i = 12
  <2>1. j \in {13, 14}
    BY <1>2, <1>6 DEF AdminPairs
  <2> QED BY <1>1, <1>6, <2>1, Zenon DEF Var
<1>7. CASE i = 13
  <2>1. j \in {14}
    BY <1>2, <1>7 DEF AdminPairs
  <2> QED BY <1>1, <1>7, <2>1, Zenon DEF Var
<1>8. i \in {9, 10, 11, 12, 13}
  BY <1>2 DEF AdminPairs
<1> QED BY <1>3, <1>4, <1>5, <1>6, <1>7, <1>8

LEMMA OidcPairsDiffer == \A i, j \in OidcPairs : i < j => Differs(i, j)
<1>1. /\ WordOf(32, 2) = "jwks.json" /\ WordOf(33, 2) = "authorize" /\ WordOf(34, 2) = "token"
      /\ WordOf(35, 2) = "login" /\ WordOf(36, 2) = "userinfo" /\ WordOf(37, 2) = "logout"
  BY OidcPaths DEF WordOf
<1>2. SUFFICES ASSUME NEW i \in OidcPairs, NEW j \in OidcPairs, i < j PROVE WordOf(i, 2) # Var /\ WordOf(i, 2) # WordOf(j, 2)
  BY PairsSpell DEF Differs, OfLengthTwo
<1>3. CASE i = 32
  <2>1. j \in {33, 34, 35, 36, 37}
    BY <1>2, <1>3 DEF OidcPairs
  <2> QED BY <1>1, <1>3, <2>1, Zenon DEF Var
<1>4. CASE i = 33
  <2>1. j \in {34, 35, 36, 37}
    BY <1>2, <1>4 DEF OidcPairs
  <2> QED BY <1>1, <1>4, <2>1, Zenon DEF Var
<1>5. CASE i = 34
  <2>1. j \in {35, 36, 37}
    BY <1>2, <1>5 DEF OidcPairs
  <2> QED BY <1>1, <1>5, <2>1, Zenon DEF Var
<1>6. CASE i = 35
  <2>1. j \in {36, 37}
    BY <1>2, <1>6 DEF OidcPairs
  <2> QED BY <1>1, <1>6, <2>1, Zenon DEF Var
<1>7. CASE i = 36
  <2>1. j \in {37}
    BY <1>2, <1>7 DEF OidcPairs
  <2> QED BY <1>1, <1>7, <2>1, Zenon DEF Var
<1>8. i \in {32, 33, 34, 35, 36}
  BY <1>2 DEF OidcPairs
<1> QED BY <1>3, <1>4, <1>5, <1>6, <1>7, <1>8

LEMMA SamlPairsDiffer == \A i, j \in SamlPairs : i < j => Differs(i, j)
<1>1. /\ WordOf(38, 2) = "metadata" /\ WordOf(39, 2) = "sso" /\ WordOf(40, 2) = "login"
  BY SamlAndCasPaths DEF WordOf
<1>2. SUFFICES ASSUME NEW i \in SamlPairs, NEW j \in SamlPairs, i < j PROVE WordOf(i, 2) # Var /\ WordOf(i, 2) # WordOf(j, 2)
  BY PairsSpell DEF Differs, OfLengthTwo
<1>3. CASE i = 38
  <2>1. j \in {39, 40}
    BY <1>2, <1>3 DEF SamlPairs
  <2> QED BY <1>1, <1>3, <2>1, Zenon DEF Var
<1>4. CASE i = 39
  <2>1. j \in {40}
    BY <1>2, <1>4 DEF SamlPairs
  <2> QED BY <1>1, <1>4, <2>1, Zenon DEF Var
<1>5. i \in {38, 39}
  BY <1>2 DEF SamlPairs
<1> QED BY <1>3, <1>4, <1>5

LEMMA CasPairsDiffer == \A i, j \in CasPairs : i < j => Differs(i, j)
<1>1. /\ WordOf(41, 2) = "login" /\ WordOf(42, 2) = "serviceValidate"
  BY SamlAndCasPaths DEF WordOf
<1>2. SUFFICES ASSUME NEW i \in CasPairs, NEW j \in CasPairs, i < j PROVE WordOf(i, 2) # Var /\ WordOf(i, 2) # WordOf(j, 2)
  BY PairsSpell DEF Differs, OfLengthTwo
<1>3. CASE i = 41
  <2>1. j \in {42}
    BY <1>2, <1>3 DEF CasPairs
  <2> QED BY <1>1, <1>3, <2>1, Zenon DEF Var
<1>4. i \in {41}
  BY <1>2 DEF CasPairs
<1> QED BY <1>3, <1>4

LEMMA LengthTwoDiffers ==
    /\ \A i \in OfLengthTwo : SizeOf(i) = 2
    /\ \A i, j \in OfLengthTwo : i < j => Differs(i, j)
<1> SUFFICES ASSUME NEW i \in OfLengthTwo, NEW j \in OfLengthTwo, i < j PROVE Differs(i, j)
  BY PairsSpell
<1>1. WordOf(i, 1) # Var /\ WordOf(i, 1) # WordOf(j, 1) => Differs(i, j)
  BY PairsSpell DEF Differs
<1>2. CASE i \in ApiPairs
  <2>1. CASE j \in ApiPairs
    BY <1>2, <2>1, ApiPairsDiffer
  <2>2. CASE j \notin ApiPairs
    <3>1. WordOf(j, 1) # "api"
      BY <2>2, PairsSpell, Zenon DEF OfLengthTwo
    <3> QED BY <1>1, <1>2, <3>1, PairsSpell, Zenon DEF Var
  <2> QED BY <2>1, <2>2
<1>3. CASE i \in AdminPairs
  <2>1. CASE j \in AdminPairs
    BY <1>3, <2>1, AdminPairsDiffer
  <2>2. CASE j \notin AdminPairs
    <3>1. WordOf(j, 1) # "admin"
      BY <2>2, PairsSpell, Zenon DEF OfLengthTwo
    <3> QED BY <1>1, <1>3, <3>1, PairsSpell, Zenon DEF Var
  <2> QED BY <2>1, <2>2
<1>4. CASE i \in DiscoveryPair
  <2>1. j \notin DiscoveryPair
    BY <1>4 DEF DiscoveryPair
  <2>2. WordOf(j, 1) # ".well-known"
    BY <2>1, PairsSpell, Zenon DEF OfLengthTwo
  <2> QED BY <1>1, <1>4, <2>2, PairsSpell, Zenon DEF Var
<1>5. CASE i \in OidcPairs
  <2>1. CASE j \in OidcPairs
    BY <1>5, <2>1, OidcPairsDiffer
  <2>2. CASE j \notin OidcPairs
    <3>1. WordOf(j, 1) # "oidc"
      BY <2>2, PairsSpell, Zenon DEF OfLengthTwo
    <3> QED BY <1>1, <1>5, <3>1, PairsSpell, Zenon DEF Var
  <2> QED BY <2>1, <2>2
<1>6. CASE i \in SamlPairs
  <2>1. CASE j \in SamlPairs
    BY <1>6, <2>1, SamlPairsDiffer
  <2>2. CASE j \notin SamlPairs
    <3>1. WordOf(j, 1) # "saml"
      BY <2>2, PairsSpell, Zenon DEF OfLengthTwo
    <3> QED BY <1>1, <1>6, <3>1, PairsSpell, Zenon DEF Var
  <2> QED BY <2>1, <2>2
<1>7. CASE i \in CasPairs
  <2>1. CASE j \in CasPairs
    BY <1>7, <2>1, CasPairsDiffer
  <2>2. CASE j \notin CasPairs
    <3>1. WordOf(j, 1) # "cas"
      BY <2>2, PairsSpell, Zenon DEF OfLengthTwo
    <3> QED BY <1>1, <1>7, <3>1, PairsSpell, Zenon DEF Var
  <2> QED BY <2>1, <2>2
<1> QED BY <1>2, <1>3, <1>4, <1>5, <1>6, <1>7 DEF OfLengthTwo

LEMMA EarlierDiffers ==
    ASSUME NEW i \in 1..42, NEW j \in 1..42, i < j, SizeOf(i) = SizeOf(j)
    PROVE  Differs(i, j)
<1>1. \A r \in 1..42 : \/ r \in OfLengthOne \/ r \in OfLengthTwo \/ r \in OfLengthThree
                        \/ r \in OfLengthFour \/ r \in OfLengthFive
  BY DEF OfLengthOne, OfLengthTwo, OfLengthThree, OfLengthFour, OfLengthFive,
         ApiPairs, AdminPairs, DiscoveryPair, OidcPairs, SamlPairs, CasPairs
<1> QED BY <1>1, LengthOneDiffers, LengthTwoDiffers, LengthThreeDiffers, LengthFourDiffers, LengthFiveDiffers

(* No route counts its reads with the changes, and the routes that change  *)
(* by method count those with the changes.                                 *)
BudgetsApart(r) ==
    /\ \A m \in {"GET", "HEAD"} : m \in r.methods => r.read # "mutation"
    /\ \A m \in {"PUT", "PATCH", "DELETE"} : m \in r.methods => r.write = "mutation"

LEMMA BudgetsAre == \A i \in 1..42 : BudgetsApart(registerRoutes[i])
<1>1. \A i \in 1..7 : BudgetsApart(HealthRoutes[i])
  BY DEF BudgetsApart, HealthRoutes, Route, Uncounted, Admin, Changes, Entity
<1>2. \A i \in 1..1 : BudgetsApart(SchemaRoutes[i])
  BY DEF BudgetsApart, SchemaRoutes, Route, Uncounted, Admin, Changes, Entity
<1>3. \A i \in 1..4 : BudgetsApart(AdminRoutes[i])
  BY DEF BudgetsApart, AdminRoutes, Route, Uncounted, Admin, Changes, Entity
<1>4. \A i \in 1..3 : BudgetsApart(SecretRoutes[i])
  BY DEF BudgetsApart, SecretRoutes, Route, Uncounted, Admin, Changes, Entity
<1>5. \A i \in 1..1 : BudgetsApart(RpcRoutes[i])
  BY DEF BudgetsApart, RpcRoutes, Route, Uncounted, Admin, Changes, Entity
<1>6. \A i \in 1..1 : BudgetsApart(SearchRoutes[i])
  BY DEF BudgetsApart, SearchRoutes, Route, Uncounted, Admin, Changes, Entity
<1>7. \A i \in 1..3 : BudgetsApart(BulkRoutes[i])
  BY DEF BudgetsApart, BulkRoutes, Route, Uncounted, Admin, Changes, Entity
<1>8. \A i \in 1..1 : BudgetsApart(BatchRoutes[i])
  BY DEF BudgetsApart, BatchRoutes, Route, Uncounted, Admin, Changes, Entity
<1>9. \A i \in 1..4 : BudgetsApart(BlobRoutes[i])
  BY DEF BudgetsApart, BlobRoutes, Route, Uncounted, Admin, Changes, Entity
<1>10. \A i \in 1..1 : BudgetsApart(BqlRoutes[i])
  BY DEF BudgetsApart, BqlRoutes, Route, Uncounted, Admin, Changes, Entity
<1>11. \A i \in 1..1 : BudgetsApart(QueryRoutes[i])
  BY DEF BudgetsApart, QueryRoutes, Route, Uncounted, Admin, Changes, Entity
<1>12. \A i \in 1..3 : BudgetsApart(EntityRoutes[i])
  BY DEF BudgetsApart, EntityRoutes, Route, Uncounted, Admin, Changes, Entity
<1>13. \A i \in 1..7 : BudgetsApart(OidcRoutes[i])
  BY DEF BudgetsApart, OidcRoutes, Route, Uncounted, Admin, Changes, Entity
<1>14. \A i \in 1..5 : BudgetsApart(SamlAndCasRoutes[i])
  BY DEF BudgetsApart, SamlAndCasRoutes, Route, Uncounted, Admin, Changes, Entity
<1>15. \A i \in 1..7 : BudgetsApart(registerRoutes[i])
  <2> SUFFICES ASSUME NEW i \in 1..7 PROVE BudgetsApart(registerRoutes[i])
    OBVIOUS
  <2>1. i - 0 \in 1..7 /\ 0 + (i - 0) = i
    OBVIOUS
  <2>2. registerRoutes[0 + (i - 0)] = HealthRoutes[i - 0]
    BY <2>1, RoutesAre
  <2> QED BY <1>1, <2>1, <2>2
<1>16. \A i \in 8..8 : BudgetsApart(registerRoutes[i])
  <2> SUFFICES ASSUME NEW i \in 8..8 PROVE BudgetsApart(registerRoutes[i])
    OBVIOUS
  <2>1. i - 7 \in 1..1 /\ 7 + (i - 7) = i
    OBVIOUS
  <2>2. registerRoutes[7 + (i - 7)] = SchemaRoutes[i - 7]
    BY <2>1, RoutesAre
  <2> QED BY <1>2, <2>1, <2>2
<1>17. \A i \in 9..12 : BudgetsApart(registerRoutes[i])
  <2> SUFFICES ASSUME NEW i \in 9..12 PROVE BudgetsApart(registerRoutes[i])
    OBVIOUS
  <2>1. i - 8 \in 1..4 /\ 8 + (i - 8) = i
    OBVIOUS
  <2>2. registerRoutes[8 + (i - 8)] = AdminRoutes[i - 8]
    BY <2>1, RoutesAre
  <2> QED BY <1>3, <2>1, <2>2
<1>18. \A i \in 13..15 : BudgetsApart(registerRoutes[i])
  <2> SUFFICES ASSUME NEW i \in 13..15 PROVE BudgetsApart(registerRoutes[i])
    OBVIOUS
  <2>1. i - 12 \in 1..3 /\ 12 + (i - 12) = i
    OBVIOUS
  <2>2. registerRoutes[12 + (i - 12)] = SecretRoutes[i - 12]
    BY <2>1, RoutesAre
  <2> QED BY <1>4, <2>1, <2>2
<1>19. \A i \in 16..16 : BudgetsApart(registerRoutes[i])
  <2> SUFFICES ASSUME NEW i \in 16..16 PROVE BudgetsApart(registerRoutes[i])
    OBVIOUS
  <2>1. i - 15 \in 1..1 /\ 15 + (i - 15) = i
    OBVIOUS
  <2>2. registerRoutes[15 + (i - 15)] = RpcRoutes[i - 15]
    BY <2>1, RoutesAre
  <2> QED BY <1>5, <2>1, <2>2
<1>20. \A i \in 17..17 : BudgetsApart(registerRoutes[i])
  <2> SUFFICES ASSUME NEW i \in 17..17 PROVE BudgetsApart(registerRoutes[i])
    OBVIOUS
  <2>1. i - 16 \in 1..1 /\ 16 + (i - 16) = i
    OBVIOUS
  <2>2. registerRoutes[16 + (i - 16)] = SearchRoutes[i - 16]
    BY <2>1, RoutesAre
  <2> QED BY <1>6, <2>1, <2>2
<1>21. \A i \in 18..20 : BudgetsApart(registerRoutes[i])
  <2> SUFFICES ASSUME NEW i \in 18..20 PROVE BudgetsApart(registerRoutes[i])
    OBVIOUS
  <2>1. i - 17 \in 1..3 /\ 17 + (i - 17) = i
    OBVIOUS
  <2>2. registerRoutes[17 + (i - 17)] = BulkRoutes[i - 17]
    BY <2>1, RoutesAre
  <2> QED BY <1>7, <2>1, <2>2
<1>22. \A i \in 21..21 : BudgetsApart(registerRoutes[i])
  <2> SUFFICES ASSUME NEW i \in 21..21 PROVE BudgetsApart(registerRoutes[i])
    OBVIOUS
  <2>1. i - 20 \in 1..1 /\ 20 + (i - 20) = i
    OBVIOUS
  <2>2. registerRoutes[20 + (i - 20)] = BatchRoutes[i - 20]
    BY <2>1, RoutesAre
  <2> QED BY <1>8, <2>1, <2>2
<1>23. \A i \in 22..25 : BudgetsApart(registerRoutes[i])
  <2> SUFFICES ASSUME NEW i \in 22..25 PROVE BudgetsApart(registerRoutes[i])
    OBVIOUS
  <2>1. i - 21 \in 1..4 /\ 21 + (i - 21) = i
    OBVIOUS
  <2>2. registerRoutes[21 + (i - 21)] = BlobRoutes[i - 21]
    BY <2>1, RoutesAre
  <2> QED BY <1>9, <2>1, <2>2
<1>24. \A i \in 26..26 : BudgetsApart(registerRoutes[i])
  <2> SUFFICES ASSUME NEW i \in 26..26 PROVE BudgetsApart(registerRoutes[i])
    OBVIOUS
  <2>1. i - 25 \in 1..1 /\ 25 + (i - 25) = i
    OBVIOUS
  <2>2. registerRoutes[25 + (i - 25)] = BqlRoutes[i - 25]
    BY <2>1, RoutesAre
  <2> QED BY <1>10, <2>1, <2>2
<1>25. \A i \in 27..27 : BudgetsApart(registerRoutes[i])
  <2> SUFFICES ASSUME NEW i \in 27..27 PROVE BudgetsApart(registerRoutes[i])
    OBVIOUS
  <2>1. i - 26 \in 1..1 /\ 26 + (i - 26) = i
    OBVIOUS
  <2>2. registerRoutes[26 + (i - 26)] = QueryRoutes[i - 26]
    BY <2>1, RoutesAre
  <2> QED BY <1>11, <2>1, <2>2
<1>26. \A i \in 28..30 : BudgetsApart(registerRoutes[i])
  <2> SUFFICES ASSUME NEW i \in 28..30 PROVE BudgetsApart(registerRoutes[i])
    OBVIOUS
  <2>1. i - 27 \in 1..3 /\ 27 + (i - 27) = i
    OBVIOUS
  <2>2. registerRoutes[27 + (i - 27)] = EntityRoutes[i - 27]
    BY <2>1, RoutesAre
  <2> QED BY <1>12, <2>1, <2>2
<1>27. \A i \in 31..37 : BudgetsApart(registerRoutes[i])
  <2> SUFFICES ASSUME NEW i \in 31..37 PROVE BudgetsApart(registerRoutes[i])
    OBVIOUS
  <2>1. i - 30 \in 1..7 /\ 30 + (i - 30) = i
    OBVIOUS
  <2>2. registerRoutes[30 + (i - 30)] = OidcRoutes[i - 30]
    BY <2>1, RoutesAre
  <2> QED BY <1>13, <2>1, <2>2
<1>28. \A i \in 38..42 : BudgetsApart(registerRoutes[i])
  <2> SUFFICES ASSUME NEW i \in 38..42 PROVE BudgetsApart(registerRoutes[i])
    OBVIOUS
  <2>1. i - 37 \in 1..5 /\ 37 + (i - 37) = i
    OBVIOUS
  <2>2. registerRoutes[37 + (i - 37)] = SamlAndCasRoutes[i - 37]
    BY <2>1, RoutesAre
  <2> QED BY <1>14, <2>1, <2>2
<1> QED BY <1>15, <1>16, <1>17, <1>18, <1>19, <1>20, <1>21, <1>22, <1>23, <1>24, <1>25, <1>26, <1>27, <1>28

(* A request for a route: its path is the route's pattern with values.     *)
Aimed ==
    /\ dcase.aim \in 1..42 /\ dcase.method \in registerRoutes[dcase.aim].methods
    /\ DOMAIN dcase.path = 1..Len(dcase.path)
    /\ FitsPattern(registerRoutes[dcase.aim], dcase.path)

Dispatched ==
    /\ dout.route \in 1..42
    /\ FitsPattern(registerRoutes[dout.route], dcase.path)
    /\ Comes(dout.route, dcase.aim)
    /\ dout.budget = IF dcase.method \in registerRoutes[dout.route].methods
                     THEN budget(registerRoutes[dout.route], dcase.method) ELSE "none"

TableInv == Aimed /\ (dout = NotRouted \/ Dispatched)

LEMMA TableDomain ==
    /\ DOMAIN registerRoutes = 1..42
    /\ \A i \in 1..42 : DOMAIN PathOf(i) = 1..SizeOf(i) /\ SizeOf(i) \in Nat
<1>1. registerRoutes \in Seq(AnyRoute) /\ Len(registerRoutes) = 42
  BY RoutesAre DEF Laid
<1>2. DOMAIN registerRoutes = 1..42 /\ \A i \in 1..42 : registerRoutes[i] \in AnyRoute
  <2>1. /\ DOMAIN registerRoutes = 1..Len(registerRoutes)
        /\ \A i \in 1..Len(registerRoutes) : registerRoutes[i] \in AnyRoute
    <3> DEFINE t == registerRoutes
    <3>1. t \in Seq(AnyRoute)
      BY <1>1
    <3> HIDE DEF t
    <3>2. DOMAIN t = 1..Len(t) /\ \A i \in 1..Len(t) : t[i] \in AnyRoute
      BY <3>1
    <3> QED BY <3>2 DEF t
  <2> QED BY <1>1, <2>1, Zenon
<1>3. ASSUME NEW i \in 1..42 PROVE PathOf(i) \in Seq(AnyWordOfUrl)
  BY <1>2 DEF PathOf, AnyRoute
<1>4. ASSUME NEW i \in 1..42 PROVE DOMAIN PathOf(i) = 1..SizeOf(i) /\ SizeOf(i) \in Nat
  <2> DEFINE p == PathOf(i)
  <2>1. p \in Seq(AnyWordOfUrl)
    BY <1>3
  <2> HIDE DEF p
  <2>2. DOMAIN p = 1..Len(p) /\ Len(p) \in Nat
    BY <2>1
  <2> QED BY <2>2 DEF p, SizeOf
<1> QED BY <1>2, <1>4

LEMMA TableStep == TableInv /\ [Dispatch]_tableVars => TableInv'
<1> SUFFICES ASSUME TableInv, Dispatch PROVE TableInv'
  BY DEF TableInv, Aimed, Dispatched, tableVars, FitsPattern, Comes
<1>1. PICK i \in DOMAIN registerRoutes :
          /\ Takes(i) /\ \A j \in DOMAIN registerRoutes : Takes(j) => Comes(i, j)
          /\ dout' = [route |-> i, budget |-> IF dcase.method \in registerRoutes[i].methods
                                              THEN budget(registerRoutes[i], dcase.method) ELSE "none"]
  BY DEF Dispatch
<1>2. i \in 1..42 /\ dcase.aim \in DOMAIN registerRoutes
  BY <1>1, TableDomain DEF TableInv, Aimed
<1>3. Takes(dcase.aim)
  BY DEF TableInv, Aimed, Takes
<1>4. dcase' = dcase
  BY DEF Dispatch
<1>5. Aimed'
  BY <1>4 DEF TableInv, Aimed, FitsPattern
<1>6. Dispatched'
  <2>1. dout'.route = i /\ dout'.budget = IF dcase.method \in registerRoutes[i].methods
                                              THEN budget(registerRoutes[i], dcase.method) ELSE "none"
    BY <1>1
  <2>2. FitsPattern(registerRoutes[i], dcase.path) /\ Comes(i, dcase.aim)
    BY <1>1, <1>2, <1>3 DEF Takes
  <2> QED BY <1>2, <1>4, <2>1, <2>2 DEF Dispatched
<1> QED BY <1>5, <1>6 DEF TableInv

LEMMA TableOK == TableInv => RequestsReachTheirRoute
<1> SUFFICES ASSUME TableInv, dout # NotRouted PROVE RequestsReachTheirRoute
  BY DEF RequestsReachTheirRoute
<1> DEFINE i == dout.route
           j == dcase.aim
<1>1. Aimed /\ Dispatched
  BY DEF TableInv
<1>2. i \in 1..42 /\ j \in 1..42
  BY <1>1 DEF Aimed, Dispatched
<1>3. /\ SizeOf(i) = Len(dcase.path) /\ SizeOf(j) = Len(dcase.path)
      /\ \A k \in 1..SizeOf(j) : WordOf(i, k) \in {Var, dcase.path[k]} /\ WordOf(j, k) \in {Var, dcase.path[k]}
  BY <1>1 DEF Aimed, Dispatched, FitsPattern, SizeOf, WordOf, PathOf
<1>4. \A r \in 1..42 : Variables(registerRoutes[r]) = {k \in 1..SizeOf(r) : WordOf(r, k) = Var}
  BY TableDomain DEF Variables, WordOf, PathOf
<1>5. Comes(i, j)
  BY <1>1 DEF Dispatched
<1> HIDE DEF i, j
<1>6. ASSUME i # j, \A k \in Variables(registerRoutes[j]) : WordOf(i, k) = Var PROVE FALSE
  <2>1. CASE i < j
    <3>1. PICK k \in 1..SizeOf(j) : WordOf(i, k) # Var /\ WordOf(i, k) # WordOf(j, k)
      BY <1>2, <1>3, <2>1, EarlierDiffers DEF Differs
    <3>2. WordOf(j, k) # Var
      BY <1>2, <1>4, <1>6, <3>1
    <3> QED BY <1>3, <3>1, <3>2
  <2>2. CASE j < i
    <3>1. Variables(registerRoutes[i]) = {} /\ Variables(registerRoutes[j]) # {}
      BY <1>2, <1>5, <2>2 DEF Comes
    <3> QED BY <1>2, <1>3, <1>4, <1>6, <3>1
  <2> QED BY <1>2, <1>6, <2>1, <2>2
<1>7. i = j \/ \E k \in Variables(registerRoutes[j]) : registerRoutes[i].path[k] # Var
  BY <1>6 DEF WordOf, PathOf
<1>8. BudgetsApart(registerRoutes[i])
  BY <1>2, BudgetsAre
<1>9. dout.budget = IF dcase.method \in registerRoutes[i].methods THEN budget(registerRoutes[i], dcase.method) ELSE "none"
  BY <1>1 DEF Dispatched, i
<1>10. dcase.method \in {"GET", "HEAD"} => dout.budget # "mutation"
  BY <1>8, <1>9 DEF BudgetsApart, budget
<1>11. dcase.method \in {"PUT", "PATCH", "DELETE"} /\ dcase.method \in registerRoutes[i].methods => dout.budget = "mutation"
  BY <1>8, <1>9 DEF BudgetsApart, budget
<1> QED BY <1>7, <1>10, <1>11 DEF RequestsReachTheirRoute, i, j

LEMMA TableInit == InitTable => TableInv
<1> SUFFICES ASSUME InitTable PROVE TableInv
  OBVIOUS
<1>1. PICK i \in DOMAIN registerRoutes : \E method \in registerRoutes[i].methods, path \in Fillings(registerRoutes[i]),
          ends \in BOOLEAN : dcase = [aim |-> i, method |-> method, path |-> path, ends |-> ends]
  BY DEF InitTable
<1>2. i \in 1..42 /\ DOMAIN PathOf(i) = 1..SizeOf(i) /\ SizeOf(i) \in Nat
  BY TableDomain
<1>3. dcase.aim = i /\ dcase.method \in registerRoutes[i].methods /\ dcase.path \in Fillings(registerRoutes[i])
  BY <1>1
<1>4. PICK word : dcase.path = Filled(registerRoutes[i], word)
  BY <1>3, Zenon DEF Fillings
<1>5. /\ DOMAIN dcase.path = 1..SizeOf(i)
      /\ \A k \in 1..SizeOf(i) : WordOf(i, k) \in {Var, dcase.path[k]}
  BY <1>2, <1>4 DEF Filled, WordOf, PathOf
<1>6. Len(dcase.path) = SizeOf(i)
  BY <1>2, <1>5
<1>7. FitsPattern(registerRoutes[i], dcase.path)
  BY <1>5, <1>6 DEF FitsPattern, SizeOf, WordOf, PathOf
<1>8. Aimed
  BY <1>2, <1>3, <1>5, <1>6, <1>7 DEF Aimed
<1> QED BY <1>8 DEF TableInv, InitTable

(***************************************************************************)
(* Configuration: URLs                                                     *)
(***************************************************************************)
FreeOf(s, atom) == \A i \in 1..Len(s) : s[i] # atom
Lead(atom, s) == IF s = <<>> THEN <<>> ELSE <<atom>> \o s

LEMMA FoundNowhere ==
    ASSUME NEW Elems, NEW s \in Seq(Elems), NEW atom, FreeOf(s, atom)
    PROVE  Find(s, atom) = 0
  BY DEF Find, FreeOf

LEMMA FoundFirst ==
    ASSUME NEW Elems, NEW s \in Seq(Elems), NEW k \in 1..Len(s), NEW atom, s[k] = atom,
           \A i \in 1..(k - 1) : s[i] # atom
    PROVE  Find(s, atom) = k
<1>1. DOMAIN s = 1..Len(s) /\ Len(s) \in Nat
  OBVIOUS
<1> DEFINE FirstAt(m) == m \in DOMAIN s /\ s[m] = atom /\ ~Has(s, 1, m - 1, {atom})
<1>2. FirstAt(k)
  BY <1>1 DEF Has
<1>3. ASSUME NEW m, FirstAt(m) PROVE m = k
  <2>1. m \in 1..Len(s) /\ s[m] = atom /\ \A i \in 1..(m - 1) : s[i] # atom
    BY <1>1, <1>3 DEF Has
  <2>2. ~(m < k) /\ ~(k < m)
    BY <1>1, <2>1
  <2> QED BY <1>1, <2>1, <2>2
<1>4. (CHOOSE m \in DOMAIN s : s[m] = atom /\ ~Has(s, 1, m - 1, {atom})) = k
  BY <1>2, <1>3
<1> QED BY <1>1, <1>4 DEF Find

(* A text with a separator is cut into what was put together.              *)
LEMMA CutAtAtom ==
    ASSUME NEW Elems, NEW a \in Seq(Elems), NEW b \in Seq(Elems), NEW atom \in Elems, FreeOf(a, atom)
    PROVE  LET s == a \o (<<atom>> \o b)
               k == Find(s, atom)
           IN s \in Seq(Elems) /\ k = Len(a) + 1 /\ Before(s, k) = a /\ After(s, k) = b
<1> DEFINE s == a \o (<<atom>> \o b)
           k == Len(a) + 1
<1>1. /\ s \in Seq(Elems) /\ Len(s) = Len(a) + 1 + Len(b) /\ s[k] = atom
      /\ \A i \in 1..Len(a) : s[i] = a[i]
      /\ \A i \in 1..Len(b) : s[k + i] = b[i]
  OBVIOUS
<1>2. Len(a) \in Nat /\ Len(b) \in Nat
  OBVIOUS
<1> HIDE DEF s
<1>3. Find(s, atom) = k
  <2>1. k \in 1..Len(s) /\ \A i \in 1..(k - 1) : s[i] # atom
    BY <1>1, <1>2 DEF FreeOf
  <2> HIDE DEF k
  <2> QED BY <1>1, <2>1, FoundFirst, ZenonT(40)
<1>4. SubSeq(s, 1, Len(a)) = a
  <2> DEFINE q == SubSeq(s, 1, Len(a))
  <2>1. q \in Seq(Elems) /\ Len(q) = Len(a) /\ \A i \in 1..Len(a) : q[i] = s[i]
    BY <1>1, <1>2
  <2> HIDE DEF q
  <2> QED BY <1>1, <2>1 DEF q
<1>5. SubSeq(s, k + 1, Len(s)) = b
  <2> DEFINE q == SubSeq(s, k + 1, Len(s))
  <2>1. q \in Seq(Elems) /\ Len(q) = Len(b) /\ \A i \in 1..Len(b) : q[i] = s[k + i]
    BY <1>1, <1>2
  <2> HIDE DEF q
  <2> QED BY <1>1, <2>1 DEF q
<1>6. k # 0 /\ k - 1 = Len(a)
  BY <1>2
<1>7. Before(s, k) = a /\ After(s, k) = b
  BY <1>4, <1>5, <1>6 DEF Before, After
<1> QED BY <1>1, <1>3, <1>7 DEF s

IsCut(s, atom, a, b) ==
    /\ Find(s, atom) = 0 <=> b = <<>>
    /\ Before(s, Find(s, atom)) = a /\ After(s, Find(s, atom)) = b

LEMMA CutAtLead ==
    ASSUME NEW Elems, NEW a \in Seq(Elems), NEW b \in Seq(Elems), NEW atom \in Elems, FreeOf(a, atom)
    PROVE  IsCut(a \o Lead(atom, b), atom, a, b)
<1>1. CASE b = <<>>
  <2>1. a \o Lead(atom, b) = a
    BY <1>1 DEF Lead
  <2>2. Find(a, atom) = 0
    BY FoundNowhere
  <2>3. Before(a, 0) = a /\ After(a, 0) = <<>>
    BY DEF Before, After
  <2> QED BY <1>1, <2>1, <2>2, <2>3 DEF IsCut
<1>2. CASE b # <<>>
  <2>1. Lead(atom, b) = <<atom>> \o b
    BY <1>2 DEF Lead
  <2>2. Len(a) + 1 # 0
    OBVIOUS
  <2> QED BY <1>2, <2>1, <2>2, CutAtAtom DEF IsCut
<1> QED BY <1>1, <1>2

(* The parts of a URL, with no separator where it would end a part early.  *)
Written(E, parts) ==
    /\ {":", "/", "?", "@"} \subseteq E
    /\ parts.user \in Seq(E) /\ FreeOf(parts.user, ":") /\ FreeOf(parts.user, "@")
    /\ parts.password \in Seq(E) /\ FreeOf(parts.password, "@")
    /\ parts.host \in Seq(E) /\ \A c \in {":", "/", "?", "@"} : FreeOf(parts.host, c)
    /\ parts.port \in Seq(E) /\ \A c \in {":", "/", "?", "@"} : FreeOf(parts.port, c)
    /\ parts.database \in Seq(E) /\ FreeOf(parts.database, "?") /\ FreeOf(parts.database, "@")
    /\ parts.options \in Seq(E) /\ FreeOf(parts.options, "@")
    /\ parts.password # <<>> => parts.user # <<>>

Address(parts) == parts.host \o Lead(":", parts.port)
Place(parts) == Address(parts) \o Lead("/", parts.database)
Target(parts) == Place(parts) \o Lead("?", parts.options)
Login(parts) == parts.user \o Lead(":", parts.password)

LEMMA FreeJoined ==
    ASSUME NEW Elems, NEW a \in Seq(Elems), NEW b \in Seq(Elems), NEW c, FreeOf(a, c), FreeOf(b, c)
    PROVE  a \o b \in Seq(Elems) /\ FreeOf(a \o b, c)
<1> DEFINE s == a \o b
<1>1. /\ s \in Seq(Elems) /\ Len(s) = Len(a) + Len(b)
      /\ \A i \in 1..Len(s) : s[i] = IF i <= Len(a) THEN a[i] ELSE b[i - Len(a)]
  OBVIOUS
<1> HIDE DEF s
<1>2. \A i \in 1..Len(s) : s[i] # c
  BY <1>1 DEF FreeOf
<1> QED BY <1>1, <1>2 DEF s, FreeOf

LEMMA FreeLead ==
    ASSUME NEW Elems, NEW b \in Seq(Elems), NEW atom \in Elems, NEW c, atom # c, FreeOf(b, c)
    PROVE  Lead(atom, b) \in Seq(Elems) /\ FreeOf(Lead(atom, b), c)
<1>1. CASE b = <<>>
  BY <1>1 DEF Lead, FreeOf
<1>2. CASE b # <<>>
  <2>1. <<atom>> \in Seq(Elems) /\ FreeOf(<<atom>>, c)
    BY DEF FreeOf
  <2>2. <<atom>> \o b \in Seq(Elems) /\ FreeOf(<<atom>> \o b, c)
    BY <2>1, FreeJoined
  <2> QED BY <1>2, <2>2 DEF Lead
<1> QED BY <1>1, <1>2

LEMMA LeadIsSequence ==
    ASSUME NEW Elems, NEW b \in Seq(Elems), NEW atom \in Elems PROVE Lead(atom, b) \in Seq(Elems)
<1>1. <<atom>> \o b \in Seq(Elems)
  OBVIOUS
<1> QED BY <1>1 DEF Lead

(* What is free of separators in the parts put together.                   *)
LEMMA PartsAreFree ==
    ASSUME NEW E, NEW parts, Written(E, parts)
    PROVE  /\ Address(parts) \in Seq(E) /\ \A c \in {"/", "?", "@"} : FreeOf(Address(parts), c)
           /\ Place(parts) \in Seq(E) /\ \A c \in {"?", "@"} : FreeOf(Place(parts), c)
           /\ Target(parts) \in Seq(E) /\ FreeOf(Target(parts), "@")
           /\ Login(parts) \in Seq(E) /\ FreeOf(Login(parts), "@")
<1>1. ":" \in E /\ "/" \in E /\ "?" \in E /\ "@" \in E
  BY DEF Written
<1>2. \A c \in {"/", "?", "@"} : Lead(":", parts.port) \in Seq(E) /\ FreeOf(Lead(":", parts.port), c)
  BY <1>1, FreeLead DEF Written
<1>3. Address(parts) \in Seq(E) /\ \A c \in {"/", "?", "@"} : FreeOf(Address(parts), c)
  BY <1>2, FreeJoined DEF Written, Address
<1>4. \A c \in {"?", "@"} : Lead("/", parts.database) \in Seq(E) /\ FreeOf(Lead("/", parts.database), c)
  BY <1>1, FreeLead DEF Written
<1>5. Place(parts) \in Seq(E) /\ \A c \in {"?", "@"} : FreeOf(Place(parts), c)
  BY <1>3, <1>4, FreeJoined DEF Place
<1>6. Lead("?", parts.options) \in Seq(E) /\ FreeOf(Lead("?", parts.options), "@")
  BY <1>1, FreeLead DEF Written
<1>7. Target(parts) \in Seq(E) /\ FreeOf(Target(parts), "@")
  BY <1>5, <1>6, FreeJoined DEF Target
<1>8. Lead(":", parts.password) \in Seq(E) /\ FreeOf(Lead(":", parts.password), "@")
  BY <1>1, FreeLead DEF Written
<1>9. Login(parts) \in Seq(E) /\ FreeOf(Login(parts), "@")
  BY <1>8, FreeJoined DEF Login, Written
<1> QED BY <1>3, <1>5, <1>7, <1>9

JoinsAlike(a, b, c, d, e) == a \o b \o c \o d \o e = a \o (b \o c \o d \o e)

LEMMA JoinedFive ==
    ASSUME NEW Elems, NEW a \in Seq(Elems), NEW b \in Seq(Elems), NEW c \in Seq(Elems), NEW d \in Seq(Elems),
           NEW e \in Seq(Elems)
    PROVE  JoinsAlike(a, b, c, d, e)
<1> DEFINE bc == b \o c
<1>1. bc \in Seq(Elems)
  OBVIOUS
<1>2. (a \o b) \o c = a \o bc
  OBVIOUS
<1> HIDE DEF bc
<1> DEFINE bcd == bc \o d
<1>3. bcd \in Seq(Elems)
  BY <1>1
<1>4. (a \o bc) \o d = a \o bcd
  BY <1>1
<1> HIDE DEF bcd
<1>5. (a \o bcd) \o e = a \o (bcd \o e)
  BY <1>3
<1> QED BY <1>2, <1>4, <1>5 DEF bc, bcd, JoinsAlike

(* How a URL is written: what is in front of the "@", and the rest.        *)
LEMMA SpelledIs ==
    ASSUME NEW E, NEW parts, Written(E, parts)
    PROVE  Spelled(parts) = IF parts.user = <<>> THEN Target(parts) ELSE Login(parts) \o (<<"@">> \o Target(parts))
<1> DEFINE host == parts.host
           port == Lead(":", parts.port)
           base == Lead("/", parts.database)
           opts == Lead("?", parts.options)
           front == IF parts.user = <<>> THEN <<>> ELSE Login(parts) \o <<"@">>
           login == Login(parts)
           at == <<"@">>
<1>1. host \in Seq(E) /\ port \in Seq(E) /\ base \in Seq(E) /\ opts \in Seq(E) /\ login \in Seq(E) /\ at \in Seq(E)
  <2>1. ":" \in E /\ "/" \in E /\ "?" \in E /\ "@" \in E
    BY DEF Written
  <2>2. parts.host \in Seq(E) /\ parts.port \in Seq(E) /\ parts.database \in Seq(E) /\ parts.options \in Seq(E)
    BY DEF Written
  <2>3. port \in Seq(E) /\ base \in Seq(E) /\ opts \in Seq(E)
    BY <2>1, <2>2, LeadIsSequence, Zenon
  <2>4. at \in Seq(E)
    BY <2>1
  <2>5. login \in Seq(E)
    BY PartsAreFree
  <2> QED BY <2>2, <2>3, <2>4, <2>5
<1>2. front \in Seq(E)
  <2> HIDE DEF login, at
  <2> QED BY <1>1 DEF login, at
<1>3. Spelled(parts) = front \o host \o port \o base \o opts
  BY DEF Spelled, Login, Lead
<1>4. Target(parts) = host \o port \o base \o opts
  BY DEF Target, Place, Address
<1> HIDE DEF host, port, base, opts, front, login, at
<1>5. front \o host \o port \o base \o opts = front \o (host \o port \o base \o opts)
  <2>1. JoinsAlike(front, host, port, base, opts)
    BY <1>1, <1>2, JoinedFive, Zenon
  <2> QED BY <2>1 DEF JoinsAlike
<1>6. Target(parts) \in Seq(E)
  BY PartsAreFree
<1> DEFINE target == Target(parts)
<1>7. Spelled(parts) = front \o target
  BY <1>3, <1>4, <1>5
<1> HIDE DEF target
<1>8. CASE parts.user = <<>>
  <2>1. front = <<>>
    BY <1>8 DEF front
  <2>2. <<>> \o target = target
    BY <1>6 DEF target
  <2> QED BY <1>7, <1>8, <2>1, <2>2 DEF target
<1>9. CASE parts.user # <<>>
  <2>1. front = login \o at
    BY <1>9 DEF front, login, at
  <2>2. (login \o at) \o target = login \o (at \o target)
    BY <1>1, <1>6 DEF target
  <2> QED BY <1>7, <1>9, <2>1, <2>2 DEF target, login, at
<1> QED BY <1>8, <1>9

PortIsTaken(port) == port = <<>> \/ port[1] \in {"5432", "70000"}

ReadAs(c, protocol, parts) ==
    /\ c.ok <=> (protocol # "" /\ PortIsTaken(parts.port))
    /\ c.user = parts.user /\ c.password = parts.password /\ c.host = parts.host
    /\ c.port = parts.port /\ c.database = parts.database /\ c.options = parts.options

(* parseConnectionUrl finds the parts a URL was written from.              *)
LEMMA PartsAreRead ==
    ASSUME NEW E, NEW parts, Written(E, parts), NEW protocol
    PROVE  ReadAs(parseConnectionUrl(Url(protocol, Spelled(parts))), protocol, parts)
<1> DEFINE rest == Spelled(parts)
           at == Find(rest, "@")
           credentials == Before(rest, at)
           main0 == IF at = 0 THEN rest ELSE After(rest, at)
           location == Location(main0)
           address == Before(location, Find(location, "/"))
           colon == Find(address, ":")
<1>1. /\ rest = IF parts.user = <<>> THEN Target(parts) ELSE Login(parts) \o (<<"@">> \o Target(parts))
      /\ Target(parts) \in Seq(E) /\ FreeOf(Target(parts), "@")
      /\ Login(parts) \in Seq(E) /\ FreeOf(Login(parts), "@")
      /\ ":" \in E /\ "/" \in E /\ "?" \in E /\ "@" \in E
  BY SpelledIs, PartsAreFree DEF Written
<1>2. /\ parts.user = <<>> => at = 0 /\ main0 = Target(parts)
      /\ parts.user # <<>> => at # 0 /\ main0 = Target(parts) /\ credentials = Login(parts)
  <2> HIDE DEF rest
  <2>1. CASE parts.user = <<>>
    <3>1. rest = Target(parts)
      BY <1>1, <2>1
    <3>2. Find(Target(parts), "@") = 0
      BY <1>1, FoundNowhere
    <3> QED BY <2>1, <3>1, <3>2
  <2>2. CASE parts.user # <<>>
    <3>1. rest = Login(parts) \o (<<"@">> \o Target(parts))
      BY <1>1, <2>2
    <3>2. at = Len(Login(parts)) + 1 /\ Before(rest, at) = Login(parts) /\ After(rest, at) = Target(parts)
      BY <1>1, <3>1, CutAtAtom
    <3>3. Len(Login(parts)) + 1 # 0
      BY <1>1
    <3> QED BY <2>2, <3>2, <3>3
  <2> QED BY <2>1, <2>2
<1> DEFINE user == parts.user
           password == parts.password
           options == parts.options
           database == parts.database
           host == parts.host
           port == parts.port
           place == Place(parts)
           there == Address(parts)
<1>3. /\ user \in Seq(E) /\ password \in Seq(E) /\ options \in Seq(E) /\ database \in Seq(E)
      /\ host \in Seq(E) /\ port \in Seq(E) /\ place \in Seq(E) /\ there \in Seq(E)
      /\ FreeOf(user, ":") /\ FreeOf(place, "?") /\ FreeOf(there, "/") /\ FreeOf(host, ":")
  BY PartsAreFree DEF Written
<1>4. /\ Login(parts) = user \o Lead(":", password) /\ Target(parts) = place \o Lead("?", options)
      /\ place = there \o Lead("/", database) /\ there = host \o Lead(":", port)
  BY DEF Login, Target, Place, Address
<1> HIDE DEF user, password, options, database, host, port, place, there
<1>5. /\ IsCut(Login(parts), ":", user, password) /\ IsCut(Target(parts), "?", place, options)
      /\ IsCut(place, "/", there, database) /\ IsCut(there, ":", host, port)
  <2>1. IsCut(user \o Lead(":", password), ":", user, password)
    BY <1>1, <1>3, CutAtLead, Zenon
  <2>2. IsCut(place \o Lead("?", options), "?", place, options)
    BY <1>1, <1>3, CutAtLead, Zenon
  <2>3. IsCut(there \o Lead("/", database), "/", there, database)
    BY <1>1, <1>3, CutAtLead, Zenon
  <2>4. IsCut(host \o Lead(":", port), ":", host, port)
    BY <1>1, <1>3, CutAtLead, Zenon
  <2> QED BY <1>4, <2>1, <2>2, <2>3, <2>4, Zenon
<1>6. /\ Before(Login(parts), Find(Login(parts), ":")) = user
      /\ After(Login(parts), Find(Login(parts), ":")) = password
      /\ Before(Target(parts), Find(Target(parts), "?")) = place
      /\ After(Target(parts), Find(Target(parts), "?")) = options
      /\ Before(place, Find(place, "/")) = there
      /\ After(place, Find(place, "/")) = database
      /\ Before(there, Find(there, ":")) = host
      /\ After(there, Find(there, ":")) = port
      /\ Find(there, ":") = 0 <=> port = <<>>
  BY <1>5 DEF IsCut
<1>7. location = place /\ address = there
  BY <1>2, <1>6 DEF Location
<1>8. parseConnectionUrl(Url(protocol, rest)) =
        [ok |-> protocol # "" /\ (colon = 0 \/ (After(address, colon) # <<>> /\ After(address, colon)[1] \in {"5432", "70000"})),
         user |-> IF at = 0 THEN <<>> ELSE Before(credentials, Find(credentials, ":")),
         password |-> IF at = 0 THEN <<>> ELSE After(credentials, Find(credentials, ":")),
         options |-> After(main0, Find(main0, "?")), database |-> After(location, Find(location, "/")),
         host |-> Before(address, colon), port |-> After(address, colon)]
  BY DEF parseConnectionUrl, Url
<1>9. parts.user = <<>> => parts.password = <<>>
  BY DEF Written
<1> DEFINE c == parseConnectionUrl(Url(protocol, rest))
           okay == protocol # "" /\ (colon = 0 \/ (After(address, colon) # <<>> /\ After(address, colon)[1] \in {"5432", "70000"}))
           name == IF at = 0 THEN <<>> ELSE Before(credentials, Find(credentials, ":"))
           secret == IF at = 0 THEN <<>> ELSE After(credentials, Find(credentials, ":"))
           settings == After(main0, Find(main0, "?"))
           base == After(location, Find(location, "/"))
           machine == Before(address, colon)
           door == After(address, colon)
<1>10. /\ c.ok = okay /\ c.user = name /\ c.password = secret /\ c.options = settings /\ c.database = base
       /\ c.host = machine /\ c.port = door
  <2>1. c = [ok |-> okay, user |-> name, password |-> secret, options |-> settings, database |-> base,
             host |-> machine, port |-> door]
    BY <1>8
  <2> HIDE DEF c, okay, name, secret, settings, base, machine, door
  <2> QED BY <2>1
<1> HIDE DEF c, rest, at, credentials, main0, location, address
<1>11. c.user = parts.user /\ c.password = parts.password
  <2>1. name = user /\ secret = password
    BY <1>2, <1>6, <1>9 DEF user, password
  <2> HIDE DEF name, secret
  <2> QED BY <1>10, <2>1 DEF user, password
<1>12. c.options = parts.options /\ c.database = parts.database /\ c.host = parts.host /\ c.port = parts.port
  <2>1. settings = options /\ base = database /\ machine = host /\ door = port
    BY <1>2, <1>6, <1>7
  <2> HIDE DEF settings, base, machine, door
  <2> QED BY <1>10, <2>1 DEF options, database, host, port
<1>13. c.ok <=> (protocol # "" /\ PortIsTaken(parts.port))
  <2>1. okay = (protocol # "" /\ PortIsTaken(port))
    BY <1>6, <1>7 DEF PortIsTaken
  <2> HIDE DEF okay
  <2> QED BY <1>10, <2>1 DEF port
<1> QED BY <1>11, <1>12, <1>13 DEF ReadAs, c, rest

(* The regular expression takes only a number after the ":" of the port.   *)
LEMMA PortIsNumber ==
    ASSUME NEW Elems, NEW s \in Seq(Elems), FreeOf(s, "@"), NEW k \in 1..Len(s), s[k] = ":",
           \A i \in 1..(k - 1) : s[i] \notin {":", "/", "?"}, MatchesUrl(s)
    PROVE  s[k + 1] \in Numbers
<1> DEFINE n == Len(s)
<1>1. n \in Nat
  OBVIOUS
<1> HIDE DEF n
<1>2. PICK u \in 0..n : UserInfo(s, u) /\
        \E h \in (u + 1)..n : ~Has(s, u + 1, h, {":", "/"}) /\
        \E p \in {h} \cup {q \in (h + 2)..n : s[h + 1] = ":" /\ \A m \in (h + 2)..q : s[m] \in Numbers} :
        \E d \in {p} \cup {e \in (p + 2)..n : s[p + 1] = "/" /\ ~Has(s, p + 2, e, {"?"})} :
            d = n \/ s[d + 1] = "?"
  BY DEF MatchesUrl, n
<1>3. u = 0
  <2> SUFFICES ASSUME u # 0 PROVE FALSE
    OBVIOUS
  <2>1. s[u] = "@" /\ u \in 1..n
    BY <1>1, <1>2 DEF UserInfo
  <2> QED BY <2>1 DEF FreeOf, n
<1>4. PICK h \in 1..n : ~Has(s, 1, h, {":", "/"}) /\
        \E p \in {h} \cup {q \in (h + 2)..n : s[h + 1] = ":" /\ \A m \in (h + 2)..q : s[m] \in Numbers} :
        \E d \in {p} \cup {e \in (p + 2)..n : s[p + 1] = "/" /\ ~Has(s, p + 2, e, {"?"})} :
            d = n \/ s[d + 1] = "?"
  BY <1>1, <1>2, <1>3
<1>5. h < k
  <2> SUFFICES ASSUME k <= h PROVE FALSE
    BY <1>1, <1>4 DEF n
  <2>1. k \in 1..h
    BY <1>1, <1>4 DEF n
  <2> QED BY <1>4, <2>1 DEF Has
<1>6. PICK p \in {h} \cup {q \in (h + 2)..n : s[h + 1] = ":" /\ \A m \in (h + 2)..q : s[m] \in Numbers} :
        \E d \in {p} \cup {e \in (p + 2)..n : s[p + 1] = "/" /\ ~Has(s, p + 2, e, {"?"})} :
            d = n \/ s[d + 1] = "?"
  BY <1>4
<1>7. k \in 1..n
  BY DEF n
<1>8. s[h + 1] \notin {"/", "?"}
  <2>1. h + 1 \in 1..(k - 1) \/ h + 1 = k
    BY <1>4, <1>5, <1>7
  <2> QED BY <2>1
<1>9. p # h
  <2> SUFFICES ASSUME p = h PROVE FALSE
    OBVIOUS
  <2>1. h # n
    BY <1>4, <1>5, <1>7
  <2> QED BY <1>6, <1>8, <2>1
<1>10. s[h + 1] = ":" /\ p \in (h + 2)..n /\ \A m \in (h + 2)..p : s[m] \in Numbers
  BY <1>6, <1>9
<1>11. h + 1 = k
  <2>1. h + 1 \in 1..(k - 1) \/ h + 1 = k
    BY <1>4, <1>5, <1>7
  <2> QED BY <1>10, <2>1
<1>12. h + 2 = k + 1 /\ h + 2 \in (h + 2)..p
  BY <1>4, <1>7, <1>10, <1>11
<1> QED BY <1>10, <1>12

AnyAtom == {":", "/", "?", "@", "u", "p", "q", "h", "5432", "70000", "overflow", "x", "d", "e", "o", "r"}

Plain(s, Separators) == s \in Seq(AnyAtom) /\ \A c \in Separators : FreeOf(s, c)

LEMMA ShortTexts ==
    ASSUME NEW Separators
    PROVE  /\ Plain(<<>>, Separators)
           /\ \A a \in AnyAtom : a \notin Separators => Plain(<<a>>, Separators)
           /\ \A a, b, c \in AnyAtom : a \notin Separators /\ b \notin Separators /\ c \notin Separators => Plain(<<a, b, c>>, Separators)
<1>1. Plain(<<>>, Separators)
  BY DEF Plain, FreeOf
<1>2. ASSUME NEW a \in AnyAtom, a \notin Separators PROVE Plain(<<a>>, Separators)
  BY <1>2 DEF Plain, FreeOf
<1>3. ASSUME NEW a \in AnyAtom, NEW b \in AnyAtom, NEW c \in AnyAtom,
             a \notin Separators, b \notin Separators, c \notin Separators
      PROVE  Plain(<<a, b, c>>, Separators)
  BY <1>3 DEF Plain, FreeOf
<1> QED BY <1>1, <1>2, <1>3

LEMMA PartsAreSequences ==
    ASSUME NEW parts \in UrlParts, parts.password # <<>> => parts.user # <<>>
    PROVE  /\ parts.user \in Seq(AnyAtom) /\ parts.password \in Seq(AnyAtom) /\ parts.options \in Seq(AnyAtom)
           /\ parts.host \in Seq(AnyAtom) /\ parts.port \in Seq(AnyAtom) /\ parts.database \in Seq(AnyAtom)
           /\ FreeOf(parts.password, "@") /\ FreeOf(parts.options, "@") => Written(AnyAtom, parts)
<1>1. /\ parts.user \in {<<>>, <<"u">>} /\ parts.host \in {<<>>, <<"h">>}
      /\ parts.port \in {<<>>, <<"5432">>, <<"70000">>, <<"overflow">>, <<"x">>}
      /\ parts.database \in {<<>>, <<"d">>, <<"d", "/", "e">>, <<"d", ":", "e">>}
      /\ parts.password \in {<<>>, <<"p">>, <<"p", ":", "q">>, <<"p", "/", "q">>, <<"p", "?", "q">>, <<"p", "@", "q">>}
      /\ parts.options \in {<<>>, <<"o">>, <<"o", "/", "r">>, <<"o", "?", "r">>, <<"o", ":", "r">>, <<"o", "@", "r">>}
  BY DEF UrlParts
<1> DEFINE user == parts.user
           host == parts.host
           port == parts.port
           database == parts.database
           password == parts.password
           options == parts.options
<1> HIDE DEF user, host, port, database, password, options
<1> DEFINE Used(c) == c \in AnyAtom
<1>9. /\ Used(":") /\ Used("/") /\ Used("?") /\ Used("@") /\ Used("p") /\ Used("q") /\ Used("d") /\ Used("e")
      /\ Used("o") /\ Used("r") /\ Used("u") /\ Used("h") /\ Used("x")
      /\ Used("5432") /\ Used("70000") /\ Used("overflow")
  BY DEF AnyAtom
<1>2. /\ Plain(<<"u">>, {":", "@"})
      /\ Plain(<<"h">>, {":", "/", "?", "@"})
  BY <1>9, ShortTexts, Zenon
<1>3. /\ Plain(<<"5432">>, {":", "/", "?", "@"}) /\ Plain(<<"70000">>, {":", "/", "?", "@"})
      /\ Plain(<<"overflow">>, {":", "/", "?", "@"}) /\ Plain(<<"x">>, {":", "/", "?", "@"})
  BY <1>9, ShortTexts, Zenon
<1>4. Plain(<<"d">>, {"?", "@"}) /\ Plain(<<"d", "/", "e">>, {"?", "@"}) /\ Plain(<<"d", ":", "e">>, {"?", "@"})
  BY <1>9, ShortTexts, Zenon
<1>5. /\ Plain(<<"p">>, {}) /\ Plain(<<"p", ":", "q">>, {}) /\ Plain(<<"p", "/", "q">>, {})
      /\ Plain(<<"p", "?", "q">>, {}) /\ Plain(<<"p", "@", "q">>, {})
  BY <1>9, ShortTexts, Zenon
<1>6. /\ Plain(<<"o">>, {}) /\ Plain(<<"o", ":", "r">>, {}) /\ Plain(<<"o", "/", "r">>, {})
      /\ Plain(<<"o", "?", "r">>, {}) /\ Plain(<<"o", "@", "r">>, {})
  BY <1>9, ShortTexts, Zenon
<1>7. /\ Plain(user, {":", "@"}) /\ Plain(host, {":", "/", "?", "@"}) /\ Plain(port, {":", "/", "?", "@"})
      /\ Plain(database, {"?", "@"}) /\ Plain(password, {}) /\ Plain(options, {})
  BY <1>1, <1>2, <1>3, <1>4, <1>5, <1>6, ShortTexts, Zenon DEF user, host, port, database, password, options
<1>8. {":", "/", "?", "@"} \subseteq AnyAtom
  BY DEF AnyAtom
<1> QED BY <1>7, <1>8 DEF Plain, Written, user, host, port, database, password, options

UrlCase(c) ==
    /\ c.protocol \in {"postgres", "mysql"} /\ c.parts \in UrlParts
    /\ c.parts.password # <<>> => c.parts.user # <<>>

ConnectAnswer(c) ==
    LET url == Url(c.protocol, Spelled(c.parts)) IN
    [status |-> IF ConnectionIsValid(url) THEN "valid" ELSE "invalid", adapter |-> createFromUrl(url, Unset, TRUE)]

(* What the factory makes of a Postgres or MySQL URL.                      *)
LEMMA MadeFromUrl ==
    ASSUME NEW protocol \in {"postgres", "mysql"}, NEW rest
    PROVE  LET url == Url(protocol, rest)
               c == parseConnectionUrl(url)
           IN createFromUrl(url, Unset, TRUE) = IF c.ok THEN [type |-> protocol, at |-> c] ELSE NoAdapter
<1> DEFINE url == Url(protocol, rest)
<1>1. url # Url("", <<>>) /\ url.protocol = protocol /\ protocol # ""
  BY DEF Url
<1>2. extractAdapterType(url) = protocol /\ Lower(protocol) = protocol
  BY <1>1 DEF extractAdapterType, Lower
<1> HIDE DEF url
<1>3. createFromUrl(url, Unset, TRUE) = createFromType(protocol, url, TRUE)
  BY <1>1, <1>2 DEF createFromUrl
<1>4. createFromType(protocol, url, TRUE) =
        IF parseConnectionUrl(url).ok THEN [type |-> protocol, at |-> parseConnectionUrl(url)] ELSE NoAdapter
  BY <1>2 DEF createFromType, createPostgresAdapter, createMySQLAdapter
<1> QED BY <1>3, <1>4 DEF url

LEMMA FreeOrNot ==
    ASSUME NEW Elems, NEW s \in Seq(Elems), NEW c PROVE FreeOf(s, c) <=> c \notin ToSet(s)
  BY DEF FreeOf, ToSet

LEMMA JoinedFree ==
    ASSUME NEW Elems, NEW a \in Seq(Elems), NEW b \in Seq(Elems), NEW c, FreeOf(a \o b, c)
    PROVE  FreeOf(a, c) /\ FreeOf(b, c)
<1> DEFINE s == a \o b
<1>1. /\ Len(s) = Len(a) + Len(b) /\ Len(a) \in Nat /\ Len(b) \in Nat
      /\ \A i \in 1..Len(a) : s[i] = a[i]
      /\ \A i \in 1..Len(b) : s[Len(a) + i] = b[i]
  OBVIOUS
<1>2. \A i \in 1..Len(s) : s[i] # c
  BY DEF FreeOf
<1> HIDE DEF s
<1>3. \A i \in 1..Len(a) : i \in 1..Len(s)
  BY <1>1
<1>4. \A i \in 1..Len(b) : Len(a) + i \in 1..Len(s)
  BY <1>1
<1> QED BY <1>1, <1>2, <1>3, <1>4 DEF FreeOf

(* A URL without an "@" has neither user nor password.                     *)
LEMMA NobodyNamed ==
    ASSUME NEW parts \in UrlParts, parts.password # <<>> => parts.user # <<>>
    PROVE  /\ Spelled(parts) \in Seq(AnyAtom)
           /\ FreeOf(Spelled(parts), "@") => parts.user = <<>> /\ Written(AnyAtom, parts)
<1> DEFINE user == parts.user
           given == Lead(":", parts.password)
           at == <<"@">>
           login == IF user = <<>> THEN <<>> ELSE user \o given \o at
           host == parts.host
           port == Lead(":", parts.port)
           base == Lead("/", parts.database)
           opts == Lead("?", parts.options)
           E == AnyAtom
<1>1. /\ parts.host \in Seq(E) /\ parts.port \in Seq(E) /\ parts.database \in Seq(E) /\ parts.options \in Seq(E)
      /\ user \in Seq(E) /\ parts.password \in Seq(E)
  BY PartsAreSequences
<1>2. ":" \in E /\ "/" \in E /\ "?" \in E /\ "@" \in E
  BY DEF AnyAtom
<1>3. given \in Seq(E) /\ port \in Seq(E) /\ base \in Seq(E) /\ opts \in Seq(E)
  BY <1>1, <1>2, LeadIsSequence, Zenon
<1>4. at \in Seq(E)
  BY <1>2
<1>5. Spelled(parts) = login \o host \o port \o base \o opts
  BY DEF Spelled, Lead
<1> HIDE DEF user, given, at, host, port, base, opts, E
<1> DEFINE named == user \o given
<1>6. named \in Seq(E)
  BY <1>1, <1>3
<1> HIDE DEF named
<1>7. login \in Seq(E) /\ (user # <<>> => login = named \o at)
  BY <1>4, <1>6 DEF named
<1> HIDE DEF login
<1> DEFINE one == login \o host
           two == one \o port
           three == two \o base
<1>8. one \in Seq(E)
  BY <1>1, <1>7 DEF host
<1>9. two \in Seq(E)
  <2> HIDE DEF one
  <2> QED BY <1>3, <1>8
<1>10. three \in Seq(E)
  <2> HIDE DEF two
  <2> QED BY <1>3, <1>9
<1>11. Spelled(parts) = three \o opts
  BY <1>5
<1>12. Spelled(parts) \in Seq(E)
  <2> HIDE DEF three
  <2>1. three \o opts \in Seq(E)
    BY <1>3, <1>10
  <2> QED BY <1>11, <2>1
<1>13. ASSUME FreeOf(Spelled(parts), "@") PROVE parts.user = <<>> /\ Written(E, parts)
  <2>1. FreeOf(three, "@") /\ FreeOf(opts, "@")
    <3> HIDE DEF three
    <3> QED BY <1>3, <1>10, <1>11, <1>13, JoinedFree
  <2>2. FreeOf(two, "@")
    <3> HIDE DEF two
    <3> QED BY <1>3, <1>9, <2>1, JoinedFree
  <2>3. FreeOf(one, "@")
    <3> HIDE DEF one
    <3> QED BY <1>3, <1>8, <2>2, JoinedFree
  <2>4. FreeOf(login, "@")
    BY <1>1, <1>7, <2>3, JoinedFree DEF host
  <2>5. user = <<>>
    <3> SUFFICES ASSUME user # <<>> PROVE FALSE
      OBVIOUS
    <3>1. FreeOf(at, "@")
      BY <1>4, <1>6, <1>7, <2>4, JoinedFree
    <3> QED BY <3>1 DEF at, FreeOf
  <2>6. FreeOf(parts.options, "@")
    <3>1. CASE parts.options = <<>>
      BY <3>1 DEF FreeOf
    <3>2. CASE parts.options # <<>>
      <4>1. opts = <<"?">> \o parts.options /\ <<"?">> \in Seq(E)
        BY <1>2, <3>2 DEF opts, Lead
      <4> QED BY <1>1, <2>1, <4>1, JoinedFree
    <3> QED BY <3>1, <3>2
  <2>7. FreeOf(parts.password, "@")
    <3>1. parts.password = <<>>
      BY <2>5 DEF user
    <3> QED BY <3>1 DEF FreeOf
  <2> QED BY <2>5, <2>6, <2>7, PartsAreSequences DEF user, E
<1> QED BY <1>12, <1>13 DEF E

(* Where the port is in a URL without a user.                              *)
LEMMA PortIsThere ==
    ASSUME NEW parts, Written(AnyAtom, parts), parts.user = <<>>, parts.port # <<>>
    PROVE  LET s == Spelled(parts)
               k == Len(parts.host) + 1
           IN /\ k \in 1..Len(s) /\ s[k] = ":" /\ s[k + 1] = parts.port[1]
              /\ \A i \in 1..(k - 1) : s[i] \notin {":", "/", "?"}
<1> DEFINE s == Spelled(parts)
           host == parts.host
           port == parts.port
           base == Lead("/", parts.database)
           opts == Lead("?", parts.options)
           k == Len(parts.host) + 1
           E == AnyAtom
<1>1. /\ ":" \in E /\ "/" \in E /\ "?" \in E /\ host \in Seq(E) /\ port \in Seq(E)
      /\ parts.database \in Seq(E) /\ parts.options \in Seq(E)
      /\ \A c \in {":", "/", "?"} : FreeOf(host, c)
  BY DEF Written
<1>2. base \in Seq(E) /\ opts \in Seq(E)
  BY <1>1, LeadIsSequence, Zenon
<1>3. s = host \o (<<":">> \o port) \o base \o opts
  <2>1. Lead(":", port) = <<":">> \o port
    BY DEF Lead
  <2>2. s = Target(parts)
    BY SpelledIs
  <2> QED BY <2>1, <2>2 DEF Target, Place, Address
<1>4. Len(host) \in Nat /\ Len(port) \in Nat /\ Len(port) >= 1
  <2> HIDE DEF host, port
  <2>1. port # <<>>
    BY DEF port
  <2> QED BY <1>1, <2>1
<1> HIDE DEF s, host, port, base, opts, E
<1> DEFINE marked == <<":">> \o port
<1>5. marked \in Seq(E) /\ Len(marked) >= 2 /\ marked[1] = ":" /\ marked[2] = port[1]
  BY <1>1, <1>4
<1> HIDE DEF marked
<1> DEFINE one == host \o marked
<1>6. /\ one \in Seq(E) /\ Len(one) >= Len(host) + 2 /\ one[Len(host) + 1] = marked[1] /\ one[Len(host) + 2] = marked[2]
      /\ \A i \in 1..Len(host) : one[i] = host[i]
  BY <1>1, <1>4, <1>5
<1> HIDE DEF one
<1> DEFINE two == one \o base
<1>7. two \in Seq(E) /\ Len(two) >= Len(one) /\ \A i \in 1..Len(one) : two[i] = one[i]
  BY <1>2, <1>6
<1> HIDE DEF two
<1> DEFINE all == two \o opts
<1>8. all \in Seq(E) /\ Len(all) >= Len(two) /\ \A i \in 1..Len(two) : all[i] = two[i]
  BY <1>2, <1>7
<1> HIDE DEF all
<1>9. s = all
  BY <1>3 DEF all, two, one, marked
<1>10. Len(one) \in Nat /\ Len(two) \in Nat /\ Len(all) \in Nat
  BY <1>6, <1>7, <1>8
<1>11. \A i \in 1..(Len(host) + 2) : i \in 1..Len(one) /\ i \in 1..Len(two) /\ i \in 1..Len(all)
  BY <1>4, <1>6, <1>7, <1>8, <1>10
<1>12. \A i \in 1..(Len(host) + 2) : all[i] = one[i]
  BY <1>7, <1>8, <1>11
<1>13. /\ Len(host) + 1 \in 1..(Len(host) + 2) /\ Len(host) + 2 \in 1..(Len(host) + 2)
       /\ \A i \in 1..Len(host) : i \in 1..(Len(host) + 2)
       /\ (Len(host) + 1) + 1 = Len(host) + 2 /\ (Len(host) + 1) - 1 = Len(host)
  BY <1>4
<1>14. s[Len(host) + 1] = ":" /\ s[(Len(host) + 1) + 1] = port[1] /\ Len(host) + 1 \in 1..Len(s)
  BY <1>5, <1>6, <1>9, <1>11, <1>12, <1>13
<1>15. \A i \in 1..Len(host) : s[i] \notin {":", "/", "?"}
  <2>1. \A i \in 1..Len(host) : s[i] = host[i]
    BY <1>6, <1>9, <1>12, <1>13
  <2> QED BY <1>1, <2>1 DEF FreeOf
<1> QED BY <1>13, <1>14, <1>15 DEF s, host, port

LEMMA UrlsAreOpened ==
    ASSUME NEW c, UrlCase(c), ConnectAnswer(c).status = "valid"
    PROVE  /\ \/ ConnectAnswer(c).adapter # NoAdapter \/ c.parts.port = <<"overflow">>
              \/ "@" \in ToSet(Spelled(c.parts))
           /\ ConnectAnswer(c).adapter # NoAdapter =>
                 \/ "@" \in ToSet(c.parts.password) \cup ToSet(c.parts.options)
                 \/ \A f \in DOMAIN c.parts : ConnectAnswer(c).adapter.at[f] = c.parts[f]
<1> DEFINE parts == c.parts
           rest == Spelled(parts)
           url == Url(c.protocol, rest)
           read == parseConnectionUrl(url)
           adapter == ConnectAnswer(c).adapter
<1>1. c.protocol \in {"postgres", "mysql"} /\ parts \in UrlParts /\ (parts.password # <<>> => parts.user # <<>>)
  BY DEF UrlCase
<1>2. adapter = IF read.ok THEN [type |-> c.protocol, at |-> read] ELSE NoAdapter
  <2>1. adapter = createFromUrl(url, Unset, TRUE)
    BY DEF ConnectAnswer
  <2> HIDE DEF adapter
  <2> QED BY <1>1, <2>1, MadeFromUrl
<1>3. (adapter # NoAdapter <=> read.ok) /\ (read.ok => adapter.at = read)
  <2>1. [type |-> c.protocol, at |-> read] # NoAdapter
    <3> HIDE DEF read
    <3>1. [type |-> c.protocol, at |-> read].type = c.protocol /\ NoAdapter.type = "none"
      BY DEF NoAdapter
    <3> QED BY <1>1, <3>1
  <2> HIDE DEF adapter, read
  <2> QED BY <1>2, <2>1
<1>4. Written(AnyAtom, parts) => ReadAs(read, c.protocol, parts)
  BY PartsAreRead
<1>5. MatchesUrl(rest)
  <2>1. ConnectionIsValid(url)
    BY DEF ConnectAnswer
  <2>2. url.protocol = c.protocol /\ url.rest = rest
    BY DEF Url
  <2> HIDE DEF url, rest
  <2>3. extractProtocol(url) = c.protocol
    BY <1>1, <2>2 DEF extractProtocol, Lower
  <2> QED BY <1>1, <2>1, <2>2, <2>3 DEF ConnectionIsValid, validatePostgreSQL, validateMySQL
<1> HIDE DEF adapter, read, url
<1>6. ASSUME "@" \notin ToSet(rest), parts.port # <<"overflow">> PROVE adapter # NoAdapter
  <2>1. FreeOf(rest, "@")
    <3>1. rest \in Seq(AnyAtom)
      BY <1>1, NobodyNamed
    <3> HIDE DEF rest
    <3> QED BY <1>6, <3>1, FreeOrNot
  <2>2. parts.user = <<>> /\ Written(AnyAtom, parts) /\ rest \in Seq(AnyAtom)
    BY <1>1, <2>1, NobodyNamed
  <2>3. PortIsTaken(parts.port)
    <3>1. parts.port \in {<<>>, <<"5432">>, <<"70000">>, <<"overflow">>, <<"x">>}
      BY <1>1 DEF UrlParts
    <3>2. parts.port # <<"x">>
      <4> SUFFICES ASSUME parts.port = <<"x">> PROVE FALSE
        OBVIOUS
      <4> DEFINE k == Len(parts.host) + 1
      <4>1. parts.port # <<>> /\ parts.port[1] = "x"
        OBVIOUS
      <4>2. /\ k \in 1..Len(rest) /\ rest[k] = ":" /\ rest[k + 1] = "x"
            /\ \A i \in 1..(k - 1) : rest[i] \notin {":", "/", "?"}
        BY <2>2, <4>1, PortIsThere
      <4> HIDE DEF k, rest
      <4>3. rest[k + 1] \in Numbers
        BY <1>5, <2>1, <2>2, <4>2, PortIsNumber
      <4> QED BY <4>2, <4>3 DEF Numbers
    <3> QED BY <1>6, <3>1, <3>2 DEF PortIsTaken
  <2> QED BY <1>1, <1>3, <1>4, <2>2, <2>3 DEF ReadAs
<1>7. ASSUME adapter # NoAdapter, "@" \notin ToSet(parts.password) \cup ToSet(parts.options), NEW f \in DOMAIN parts
      PROVE  adapter.at[f] = parts[f]
  <2>1. FreeOf(parts.password, "@") /\ FreeOf(parts.options, "@")
    <3>1. parts.password \in Seq(AnyAtom) /\ parts.options \in Seq(AnyAtom)
      BY <1>1, PartsAreSequences
    <3> QED BY <1>7, <3>1, FreeOrNot
  <2>2. ReadAs(read, c.protocol, parts)
    BY <1>1, <1>4, <2>1, PartsAreSequences
  <2>3. f \in {"user", "password", "host", "port", "database", "options"}
    BY <1>1 DEF UrlParts
  <2>4. adapter.at = read
    BY <1>3, <1>7
  <2> QED BY <2>2, <2>3, <2>4 DEF ReadAs
<1> QED BY <1>6, <1>7 DEF adapter

(* A set of numbers under a bound has a greatest one.                      *)
LEMMA GreatestNat ==
    ASSUME NEW n \in Nat, NEW T, T \subseteq 1..n, T # {}
    PROVE  Max(T) \in T
<1> DEFINE D == {n - i : i \in T}
<1>1. D \subseteq Nat /\ D # {}
  <2>1. \A i \in T : i \in 1..n /\ n - i \in Nat
    OBVIOUS
  <2>2. PICK i : i \in T
    OBVIOUS
  <2>3. n - i \in D
    BY <2>2
  <2> QED BY <2>1, <2>3
<1> HIDE DEF D
<1>2. PICK m \in D : \A k \in D : m <= k
  BY <1>1, LeastNat
<1>3. PICK i \in T : m = n - i
  BY DEF D
<1>4. \A j \in T : i >= j
  <2> TAKE j \in T
  <2>1. n - j \in D
    BY DEF D
  <2>2. n - i <= n - j
    BY <1>2, <1>3, <2>1
  <2>3. i \in Nat /\ j \in Nat
    OBVIOUS
  <2> QED BY <2>2, <2>3
<1> QED BY <1>4 DEF Max

Layered(layers) ==
    \/ layers = <<>>
    \/ \E x : layers = <<x>> /\ (x.layer = "search" \/ (x.layer = "cache" /\ x.ttl \in {"300", "60"}))
    \/ \E x, y : layers = <<x, y>> /\ x.layer = "cache" /\ x.ttl \in {"300", "60"} /\ y.layer = "search"

CacheFits(x) == x.scheme \notin {Unset, "other"} => x.params \in Seq(CacheParams)

(* A cache that is enabled has a lifetime somebody wrote, or the default.  *)
LEMMA LifetimeIsWritten ==
    ASSUME NEW x, CacheFits(x), ~parseCacheUrl(x).error, parseCacheUrl(x).enabled
    PROVE  parseCacheUrl(x).ttl \in {"300", "60"}
<1> DEFINE params == x.params
           given == {i \in DOMAIN params : params[i].key = "ttl"}
<1>1. x.scheme \notin {Unset, "other"}
  BY DEF parseCacheUrl, NotEnabled
<1>2. \A i \in DOMAIN params : ~(params[i].key = "ttl" /\ params[i].value \in {"30abc", "abc", "0"})
  BY DEF parseCacheUrl, NotEnabled
<1>3. parseCacheUrl(x).ttl = LastOf(params, "ttl", "300")
  BY <1>1 DEF parseCacheUrl, NotEnabled
<1>4. params \in Seq(CacheParams)
  BY <1>1 DEF CacheFits
<1>5. Len(params) \in Nat /\ given \subseteq 1..Len(params)
  <2> HIDE DEF params
  <2> QED BY <1>4
<1>6. CASE given = {}
  BY <1>3, <1>6 DEF LastOf
<1>7. CASE given # {}
  <2>1. Max(given) \in given
    <3> HIDE DEF given
    <3> QED BY <1>5, <1>7, GreatestNat
  <2> DEFINE m == Max(given)
  <2>2. m \in DOMAIN params /\ params[m].key = "ttl" /\ params[m] \in CacheParams
    <3> HIDE DEF m, params
    <3> QED BY <1>4, <2>1 DEF m
  <2>3. params[m].value \in {"60", "30abc", "0"}
    <3> DEFINE e == params[m]
    <3> HIDE DEF e
    <3>1. e \in CacheParams /\ e.key = "ttl"
      BY <2>2 DEF e
    <3>2. e.value \in {"60", "30abc", "0"}
      BY <3>1 DEF CacheParams, UrlParam
    <3> QED BY <3>2 DEF e
  <2>4. parseCacheUrl(x).ttl = params[m].value
    BY <1>3, <1>7 DEF LastOf
  <2> QED BY <1>2, <2>2, <2>3, <2>4
<1> QED BY <1>6, <1>7

GoesInFront(a, l, f, j) ==
    [[adapter |-> a, layers |-> l, faulty |-> f] EXCEPT !.layers = j \o @] =
        [adapter |-> a, layers |-> j \o l, faulty |-> f]

LEMMA InFront ==
    ASSUME NEW a, NEW l, NEW f, NEW j PROVE GoesInFront(a, l, f, j)
<1> DEFINE c == [adapter |-> a, layers |-> l, faulty |-> f]
           m == j \o l
<1>1. c.layers = l
  OBVIOUS
<1>2. [c EXCEPT !.layers = j \o @] = [c EXCEPT !.layers = m]
  BY <1>1
<1> HIDE DEF m
<1>3. [c EXCEPT !.layers = m] = [adapter |-> a, layers |-> m, faulty |-> f]
  OBVIOUS
<1> QED BY <1>2, <1>3 DEF m, GoesInFront

JoinsOf(s, Elems, a, b, n, m) ==
    /\ s \in Seq(Elems) /\ Len(s) = n + m
    /\ \A i \in 1..n : s[i] = a[i]
    /\ \A i \in 1..m : s[n + i] = b[i]

LEMMA JoinedOnes ==
    ASSUME NEW Elems, NEW a \in Seq(Elems), NEW b \in Seq(Elems) PROVE JoinsOf(a \o b, Elems, a, b, Len(a), Len(b))
  BY DEF JoinsOf

LEMMA OneAndTwo ==
    ASSUME NEW s, NEW k PROVE <<s>> \o <<>> = <<s>> /\ <<k>> \o <<>> = <<k>> /\ <<k>> \o <<s>> = <<k, s>>
<1> DEFINE E == {s, k}
           t == <<s>>
           u == <<k>>
           v == u \o t
           w == <<k, s>>
<1>1. t \in Seq(E) /\ u \in Seq(E) /\ Len(t) = 1 /\ Len(u) = 1 /\ t[1] = s /\ u[1] = k
  OBVIOUS
<1>2. w \in Seq(E) /\ Len(w) = 2 /\ w[1] = k /\ w[2] = s
  OBVIOUS
<1>3. v \in Seq(E) /\ Len(v) = 2 /\ v[1] = k /\ v[2] = s
  <2> HIDE DEF t, u, E
  <2>1. JoinsOf(v, E, u, t, 1, 1)
    BY <1>1, JoinedOnes, Zenon
  <2> HIDE DEF v
  <2>2. v[1] = u[1] /\ v[1 + 1] = t[1]
    BY <2>1 DEF JoinsOf
  <2> QED BY <1>1, <2>1, <2>2 DEF JoinsOf
<1>4. v = w
  <2> HIDE DEF v, w, E
  <2>1. \A i \in 1..2 : v[i] = w[i]
    BY <1>2, <1>3
  <2> QED BY <1>2, <1>3, <2>1
<1>5. t \o <<>> = t /\ u \o <<>> = u
  <2> HIDE DEF t, u, E
  <2> QED BY <1>1
<1> QED BY <1>4, <1>5

(* The optional layers in front of an adapter: the cache is the outer one. *)
LEMMA LayersInFront ==
    ASSUME NEW a, NEW x, NEW xUsable, NEW y, NEW yUsable, CacheFits(y)
    PROVE  LET direct == [adapter |-> a, layers |-> <<>>, faulty |-> FALSE]
               client == tryCreateCache(tryCreateSearch(direct, x, xUsable), y, yUsable)
           IN client.adapter = a /\ client.faulty = FALSE /\ Layered(client.layers)
<1> DEFINE direct == [adapter |-> a, layers |-> <<>>, faulty |-> FALSE]
           mirrored == tryCreateSearch(direct, x, xUsable)
           client == tryCreateCache(mirrored, y, yUsable)
           s == [layer |-> "search", index |-> parseSearchUrl(x).index, refresh |-> parseSearchUrl(x).refresh]
           k == [layer |-> "cache", ttl |-> parseCacheUrl(y).ttl]
<1>1. s.layer = "search" /\ k.layer = "cache" /\ k.ttl = parseCacheUrl(y).ttl
  OBVIOUS
<1>2. mirrored = direct \/ mirrored = [direct EXCEPT !.layers = <<s>> \o @]
  BY DEF tryCreateSearch
<1>3. client = mirrored \/ (~parseCacheUrl(y).error /\ parseCacheUrl(y).enabled /\ client = [mirrored EXCEPT !.layers = <<k>> \o @])
  <2> HIDE DEF mirrored
  <2> QED BY DEF tryCreateCache
<1> HIDE DEF s, k
<1>4. <<s>> \o <<>> = <<s>> /\ <<k>> \o <<>> = <<k>> /\ <<k>> \o <<s>> = <<k, s>>
  BY OneAndTwo
<1>5. direct.adapter = a /\ direct.layers = <<>> /\ direct.faulty = FALSE
  OBVIOUS
<1>6. \E l \in {<<>>, <<s>>} : mirrored = [adapter |-> a, layers |-> l, faulty |-> FALSE]
  <2> HIDE DEF mirrored
  <2>1. [direct EXCEPT !.layers = <<s>> \o @] = [adapter |-> a, layers |-> <<s>>, faulty |-> FALSE]
    <3>1. GoesInFront(a, <<>>, FALSE, <<s>>)
      BY InFront
    <3> QED BY <1>4, <3>1 DEF GoesInFront
  <2> QED BY <1>2, <2>1
<1> HIDE DEF mirrored, client
<1>7. PICK l \in {<<>>, <<s>>} : mirrored = [adapter |-> a, layers |-> l, faulty |-> FALSE]
  BY <1>6
<1>8. client = mirrored \/ (k.ttl \in {"300", "60"} /\ client = [adapter |-> a, layers |-> <<k>> \o l, faulty |-> FALSE])
  <2>1. [mirrored EXCEPT !.layers = <<k>> \o @] = [adapter |-> a, layers |-> <<k>> \o l, faulty |-> FALSE]
    <3> DEFINE c == [adapter |-> a, layers |-> l, faulty |-> FALSE]
    <3>1. GoesInFront(a, l, FALSE, <<k>>)
      BY InFront
    <3>2. mirrored = c
      BY <1>7
    <3> QED BY <3>1, <3>2, Zenon DEF GoesInFront
  <2> QED BY <1>1, <1>3, <2>1, LifetimeIsWritten
<1>9. \E m : /\ m \in {<<>>, <<s>>} \/ (k.ttl \in {"300", "60"} /\ m \in {<<k>>, <<k, s>>})
             /\ client = [adapter |-> a, layers |-> m, faulty |-> FALSE]
  <2>1. <<k>> \o l \in {<<k>>, <<k, s>>}
    BY <1>4, <1>7
  <2> QED BY <1>7, <1>8, <2>1
<1>10. PICK m : /\ m \in {<<>>, <<s>>} \/ (k.ttl \in {"300", "60"} /\ m \in {<<k>>, <<k, s>>})
                /\ client = [adapter |-> a, layers |-> m, faulty |-> FALSE]
  BY <1>9
<1>11. Layered(m)
  BY <1>1, <1>10, Zenon DEF Layered
<1>12. client.adapter = a /\ client.faulty = FALSE /\ client.layers = m
  BY <1>10
<1> QED BY <1>11, <1>12 DEF client, mirrored

ClientCase(c) ==
    \E named, up, search, searchUsable, cache, cacheUsable :
        c.env = Environment(named, up, search, searchUsable, cache, cacheUsable) /\ CacheFits(cache)

(* Client's constructor: no client, or the adapter of the URL and layers.  *)
LEMMA ClientIs ==
    ASSUME NEW c, NEW env, CacheFits(env.cache)
    PROVE  LET a == createFromUrl(c.url, env.adapter, env.reachable) IN
           \/ (~ConfigIsValid(c) \/ a = NoAdapter) /\ Client(c, env) = NoClient
           \/ /\ ConfigIsValid(c) /\ a # NoAdapter /\ Client(c, env).adapter = a
              /\ Client(c, env) # NoClient /\ Layered(Client(c, env).layers)
<1> DEFINE a == createFromUrl(c.url, env.adapter, env.reachable)
           direct == [adapter |-> a, layers |-> <<>>, faulty |-> FALSE]
           made == tryCreateCache(tryCreateSearch(direct, env.search, env.searchUsable), env.cache, env.cacheUsable)
<1>1. Client(c, env) = IF ~ConfigIsValid(c) \/ a = NoAdapter THEN NoClient ELSE made
  BY DEF Client
<1>2. made.adapter = a /\ made.faulty = FALSE /\ Layered(made.layers)
  <2> HIDE DEF a
  <2> QED BY LayersInFront
<1>3. NoClient.faulty = TRUE
  BY DEF NoClient
<1> HIDE DEF made, a
<1>4. made # NoClient
  BY <1>2, <1>3
<1> QED BY <1>1, <1>2, <1>4 DEF a

(* The client's adapter is the one its configuration names.                *)
LEMMA TypeIsNamed ==
    ASSUME NEW c, ConfigIsValid(c), NEW named, NEW up, createFromUrl(c.url, named, up) # NoAdapter
    PROVE  LET type == createFromUrl(c.url, named, up).type IN
           type = c.adapter \/ (c.adapter = "postgresql" /\ type = "postgres")
<1> DEFINE url == c.url
           p == url.protocol
           a == createFromUrl(url, named, up)
<1>1. ConnectionIsValid(url) /\ (c.adapter = Lower(p) \/ {c.adapter, Lower(p)} \subseteq {"postgres", "postgresql"})
  BY DEF ConfigIsValid, validateDatabaseUrl, extractProtocol
<1>2. /\ p # "" /\ url # Url("", <<>>)
      /\ \/ Lower(p) = "sqlite"
         \/ p \in {"postgres", "postgresql"}
         \/ p = "mysql"
  BY <1>1 DEF ConnectionIsValid, hasValidFormat, extractProtocol, validatePostgreSQL, validateMySQL
<1>3. p \in {"SQLITE", "sqlite", "postgres", "postgresql", "mysql"}
  BY <1>2 DEF Lower
<1>4. a = createFromType(extractAdapterType(url), url, up)
  BY <1>2 DEF createFromUrl
<1>5. CASE p \in {"SQLITE", "sqlite"}
  <2>1. extractAdapterType(url) = p
    BY <1>5 DEF extractAdapterType
  <2>2. Lower(p) = "sqlite"
    BY <1>5 DEF Lower
  <2>3. a = createSQLiteAdapter(url, up)
    BY <1>4, <2>1, <2>2 DEF createFromType
  <2> HIDE DEF a
  <2>4. a.type = "sqlite"
    BY <2>3 DEF createSQLiteAdapter, a
  <2> QED BY <1>1, <2>2, <2>4 DEF a
<1>6. CASE p \in {"postgres", "postgresql"}
  <2>1. extractAdapterType(url) = "postgres" /\ Lower("postgres") = "postgres" /\ Lower(p) = p
    BY <1>6 DEF extractAdapterType, Lower
  <2>2. a = createPostgresAdapter(url, up)
    BY <1>4, <2>1 DEF createFromType
  <2>3. a.type = "postgres"
    <3> DEFINE q == parseConnectionUrl(url)
    <3>1. a = IF q.ok /\ up THEN [type |-> "postgres", at |-> q] ELSE NoAdapter
      BY <2>2 DEF createPostgresAdapter
    <3> HIDE DEF q, a
    <3> QED BY <3>1 DEF a
  <2>4. c.adapter \in {"postgres", "postgresql"}
    BY <1>1, <1>6, <2>1
  <2> HIDE DEF a
  <2> QED BY <2>3, <2>4 DEF a
<1>7. CASE p = "mysql"
  <2>1. extractAdapterType(url) = "mysql" /\ Lower("mysql") = "mysql"
    BY <1>7 DEF extractAdapterType, Lower
  <2>2. a = createMySQLAdapter(url, up)
    BY <1>4, <2>1 DEF createFromType
  <2>3. a.type = "mysql"
    <3> DEFINE q == parseConnectionUrl(url)
    <3>1. a = IF q.ok /\ up THEN [type |-> "mysql", at |-> q] ELSE NoAdapter
      BY <2>2 DEF createMySQLAdapter
    <3> HIDE DEF q, a
    <3> QED BY <3>1 DEF a
  <2> HIDE DEF a
  <2> QED BY <1>1, <1>7, <2>1, <2>3 DEF a
<1> QED BY <1>3, <1>5, <1>6, <1>7

ClientAnswer(c) == [status |-> "done", client |-> Client(c.config, c.env)]

(* Layers, in terms of the elements of the client.                         *)
LEMMA LayersAreOrdered ==
    ASSUME NEW layers, Layered(layers)
    PROVE  /\ {layers[i].layer : i \in DOMAIN layers} = {"cache", "search"} => layers[1].layer = "cache"
           /\ \A i \in DOMAIN layers : layers[i].layer = "cache" => layers[i].ttl \in {"300", "60"}
<1>1. CASE layers = <<>>
  BY <1>1
<1>2. CASE \E x : layers = <<x>> /\ (x.layer = "search" \/ (x.layer = "cache" /\ x.ttl \in {"300", "60"}))
  <2>1. PICK x : layers = <<x>> /\ (x.layer = "search" \/ (x.layer = "cache" /\ x.ttl \in {"300", "60"}))
    BY <1>2
  <2>2. DOMAIN layers = {1} /\ layers[1] = x
    BY <2>1
  <2>3. {layers[i].layer : i \in DOMAIN layers} = {x.layer}
    BY <2>2
  <2> QED BY <2>1, <2>2, <2>3
<1>3. CASE \E x, y : layers = <<x, y>> /\ x.layer = "cache" /\ x.ttl \in {"300", "60"} /\ y.layer = "search"
  <2>1. PICK x, y : layers = <<x, y>> /\ x.layer = "cache" /\ x.ttl \in {"300", "60"} /\ y.layer = "search"
    BY <1>3
  <2>2. DOMAIN layers = {1, 2} /\ layers[1] = x /\ layers[2] = y
    BY <2>1
  <2> QED BY <2>1, <2>2
<1> QED BY <1>1, <1>2, <1>3 DEF Layered

LEMMA ClientsStart ==
    ASSUME NEW c, ClientCase(c)
    PROVE  LET client == ClientAnswer(c).client
               bare == Client(c.config, [c.env EXCEPT !.search = NoExtra, !.cache = NoExtra])
           IN /\ client # NoClient =>
                    \/ client.adapter.type = c.config.adapter
                    \/ c.config.adapter = "postgresql" /\ client.adapter.type = "postgres"
              /\ client.adapter = bare.adapter
              /\ {client.layers[i].layer : i \in DOMAIN client.layers} = {"cache", "search"} => client.layers[1].layer = "cache"
              /\ \A i \in DOMAIN client.layers : client.layers[i].layer = "cache" => client.layers[i].ttl \in {"300", "60"}
<1> DEFINE client == ClientAnswer(c).client
           none == [c.env EXCEPT !.search = NoExtra, !.cache = NoExtra]
           bare == Client(c.config, none)
           a == createFromUrl(c.config.url, c.env.adapter, c.env.reachable)
<1>1. CacheFits(c.env.cache) /\ none.adapter = c.env.adapter /\ none.reachable = c.env.reachable /\ none.cache = NoExtra
  BY DEF ClientCase, Environment
<1>2. CacheFits(NoExtra)
  BY DEF CacheFits, NoExtra, Extra
<1>3. client = Client(c.config, c.env)
  BY DEF ClientAnswer
<1> HIDE DEF none, client, a, bare
<1>4. \/ (~ConfigIsValid(c.config) \/ a = NoAdapter) /\ client = NoClient
      \/ ConfigIsValid(c.config) /\ a # NoAdapter /\ client.adapter = a /\ client # NoClient /\ Layered(client.layers)
  BY <1>1, <1>3, ClientIs DEF a
<1>5. \/ (~ConfigIsValid(c.config) \/ a = NoAdapter) /\ bare = NoClient
      \/ ConfigIsValid(c.config) /\ a # NoAdapter /\ bare.adapter = a /\ bare # NoClient /\ Layered(bare.layers)
  BY <1>1, <1>2, ClientIs DEF a, bare
<1>6. client.adapter = bare.adapter
  BY <1>4, <1>5
<1>7. client # NoClient => client.adapter.type = c.config.adapter \/ (c.config.adapter = "postgresql" /\ client.adapter.type = "postgres")
  BY <1>4, TypeIsNamed DEF a
<1>8. Layered(client.layers)
  BY <1>4 DEF NoClient, Layered
<1> QED BY <1>6, <1>7, <1>8, LayersAreOrdered DEF client, bare, none

AdminAnswer(c) == [status |-> "done", switch |-> handlePostConfig(c.request, c.env),
                   test |-> handleTestConnection(c.request, c.env), listed |-> handleGetAdapters(c.request)]

LEMMA TestsForetell ==
    ASSUME NEW c PROVE AdminAnswer(c).test = 200 <=> AdminAnswer(c).switch = 200
<1> DEFINE r == c.request
           rejected == AdminRejection(r)
           found == RequestedClient(r, c.env) # NoClient
<1>1. /\ AdminAnswer(c).test = IF rejected # 0 THEN rejected ELSE IF found THEN 200 ELSE 422
      /\ AdminAnswer(c).switch = IF rejected # 0 THEN rejected ELSE IF found THEN 200 ELSE 500
  BY DEF AdminAnswer, handlePostConfig, handleTestConnection
<1> HIDE DEF rejected, found
<1> QED BY <1>1

Modes == {"", "--port", "--mode"}
Halts == {"", "crash", "help"}
Settings(Ports) == [port : Ports, development : BOOLEAN, daemon : BOOLEAN]
Readings(Ports) == [config : Settings(Ports), want : Modes, halt : Halts]

Going(acc) == acc.halt = ""
Idle(acc) == acc.want = ""
AtPort(acc) == acc.want = "--port"
PortIs(acc) == acc.config.port = "9000"
IsNine(arg) == arg = "9000"
IsOption(arg) == arg \in {"--port", "--mode"}
IsPortOption(arg) == arg = "--port"

(* One argument.                                                           *)
TakesOne(Ports, acc, arg, next) ==
    /\ next \in Readings(Ports)
    /\ Going(next) => Going(acc)
    /\ Going(acc) /\ AtPort(acc) /\ IsNine(arg) => PortIs(next)
    /\ Going(acc) /\ Going(next) /\ PortIs(acc) /\ arg \in Arguments => PortIs(next)
    /\ Going(acc) /\ ~IsOption(arg) => Idle(next)
    /\ Going(acc) /\ Idle(acc) /\ IsPortOption(arg) => AtPort(next)

TakesSo(Ports, acc, arg, next) ==
    /\ next \in Readings(Ports)
    /\ acc.halt # "" => next.halt # ""
    /\ acc.halt = "" /\ acc.want = "--port" => next.config.port = arg /\ (next.halt = "" => IsPort(arg))
    /\ acc.want # "--port" => next.config.port = acc.config.port
    /\ acc.halt = "" /\ arg \notin {"--port", "--mode"} => next.want = ""
    /\ acc.halt = "" /\ acc.want = "" /\ arg = "--port" => next.want = "--port"

LEMMA ArgumentIsRead ==
    ASSUME NEW Ports, NEW acc \in Readings(Ports), NEW arg \in Ports PROVE TakesSo(Ports, acc, arg, TakeArgument(acc, arg))
<1> DEFINE next == TakeArgument(acc, arg)
<1>1. acc.config \in Settings(Ports) /\ acc.want \in Modes /\ acc.halt \in Halts
  BY DEF Readings
<1>11. CASE acc.halt # ""
  <2>1. next = acc
    BY <1>11 DEF TakeArgument
  <2> HIDE DEF next
  <2> QED BY <1>11, <2>1 DEF TakesSo, next
<1>12. CASE acc.halt = "" /\ acc.want = "--port"
  <2> DEFINE end == IF IsPort(arg) THEN "" ELSE "crash"
  <2>1. next = [acc EXCEPT !.config.port = arg, !.halt = end, !.want = ""]
    BY <1>12 DEF TakeArgument
  <2>2. end \in Halts /\ "" \in Modes /\ (end = "" => IsPort(arg))
    BY DEF Halts, Modes
  <2> HIDE DEF next, end
  <2>3. next \in Readings(Ports) /\ next.config.port = arg /\ next.halt = end /\ next.want = ""
    BY <2>1, <2>2 DEF Readings, Settings
  <2> QED BY <1>12, <2>2, <2>3 DEF TakesSo, next
<1>13. CASE acc.halt = "" /\ acc.want = "--mode"
  <2> DEFINE development == DevelopmentMode(arg)
  <2>1. next = [acc EXCEPT !.config.development = development, !.want = ""]
    BY <1>13 DEF TakeArgument
  <2>2. development \in BOOLEAN /\ "" \in Modes
    BY DEF Modes, DevelopmentMode
  <2> HIDE DEF next, development
  <2>3. next \in Readings(Ports) /\ next.config.port = acc.config.port /\ next.halt = acc.halt /\ next.want = ""
    BY <2>1, <2>2 DEF Readings, Settings
  <2> QED BY <1>13, <2>3 DEF TakesSo, next
<1>14. CASE acc.halt = "" /\ acc.want = "" /\ arg \in {"--port", "--mode"}
  <2>1. next = [acc EXCEPT !.want = arg]
    BY <1>14 DEF TakeArgument
  <2>2. arg \in Modes
    BY <1>14 DEF Modes
  <2> HIDE DEF next
  <2>3. next \in Readings(Ports) /\ next.config.port = acc.config.port /\ next.halt = acc.halt /\ next.want = arg
    BY <2>1, <2>2 DEF Readings
  <2> QED BY <1>14, <2>3 DEF TakesSo, next
<1>15. CASE acc.halt = "" /\ acc.want = "" /\ arg \notin {"--port", "--mode"}
  <2>1. \/ next = acc
        \/ next = [acc EXCEPT !.config.daemon = TRUE]
        \/ next = [acc EXCEPT !.halt = "help"]
    BY <1>15 DEF TakeArgument
  <2>2. "help" \in Halts
    BY DEF Halts
  <2> HIDE DEF next
  <2>3. next \in Readings(Ports) /\ next.config.port = acc.config.port /\ next.want = acc.want
    <3>1. CASE next = acc
      BY <3>1
    <3>2. CASE next = [acc EXCEPT !.config.daemon = TRUE]
      BY <3>2 DEF Readings, Settings
    <3>3. CASE next = [acc EXCEPT !.halt = "help"]
      BY <2>2, <3>3 DEF Readings
    <3> QED BY <2>1, <3>1, <3>2, <3>3
  <2> QED BY <1>15, <2>3 DEF TakesSo, next
<1> QED BY <1>1, <1>11, <1>12, <1>13, <1>14, <1>15 DEF Modes

LEMMA ArgumentIsTaken ==
    ASSUME NEW Ports, NEW acc \in Readings(Ports), NEW arg \in Ports PROVE TakesOne(Ports, acc, arg, TakeArgument(acc, arg))
<1> DEFINE next == TakeArgument(acc, arg)
<1>1. TakesSo(Ports, acc, arg, next)
  BY ArgumentIsRead
<1>2. arg \in Arguments /\ IsPort(arg) => arg = "9000"
  BY DEF Arguments, IsPort
<1> HIDE DEF next
<1> QED BY <1>1, <1>2, Zenon DEF TakesOne, TakesSo, Going, Idle, AtPort, PortIs, IsNine, IsOption, IsPortOption, next

(* What the parser has in hand after each of the arguments.                *)
TakesArguments(config, args, taken) ==
    taken = [n \in 0..Len(args) |-> IF n = 0 THEN NoArguments(config) ELSE TakeArgument(taken[n - 1], args[n])]

LEMMA ArgumentsAreTaken ==
    ASSUME NEW config, NEW Elems, NEW args \in Seq(Elems)
    PROVE  \E taken : TakesArguments(config, args, taken) /\ parseCommandLine(config, args) = taken[Len(args)]
<1> DEFINE size == Len(args)
           Body(k, n) == IF n = 0 THEN NoArguments(config) ELSE TakeArgument(k[n - 1], args[n])
           Fold(k, m) == k = [n \in 0..m |-> Body(k, n)]
           T == {m \in Nat : \E k : Fold(k, m)}
<1>1. size \in Nat
  OBVIOUS
<1>2. 0 \in T
  <2> DEFINE k == [n \in 0..0 |-> NoArguments(config)]
  <2>1. k = [n \in 0..0 |-> Body(k, n)]
    OBVIOUS
  <2> HIDE DEF k, Body
  <2> QED BY <2>1
<1>3. ASSUME NEW m \in Nat, m \in T PROVE m + 1 \in T
  <2> HIDE DEF Body
  <2>1. PICK k : Fold(k, m)
    BY <1>3
  <2> DEFINE h == [n \in 0..(m + 1) |-> IF n = m + 1 THEN Body(k, n) ELSE k[n]]
  <2>2. \A n \in 0..m : k[n] = Body(k, n)
    BY <2>1
  <2>3. ASSUME NEW n \in 0..(m + 1) PROVE h[n] = Body(h, n)
    <3>1. CASE n = 0
      <4>1. Body(h, n) = Body(k, n) /\ n \in 0..m /\ n # m + 1
        BY <3>1 DEF Body
      <4> QED BY <2>2, <4>1
    <3>2. CASE n # 0
      <4>1. n - 1 \in 0..m /\ n - 1 # m + 1 /\ n - 1 \in 0..(m + 1)
        BY <3>2
      <4>2. h[n - 1] = k[n - 1]
        BY <4>1
      <4> HIDE DEF h
      <4>3. Body(h, n) = Body(k, n)
        BY <4>2 DEF Body
      <4>4. h[n] = Body(k, n)
        <5>1. CASE n = m + 1 BY <5>1 DEF h
        <5>2. CASE n # m + 1
          <6>1. n \in 0..m
            BY <5>2
          <6> QED BY <2>2, <5>2, <6>1 DEF h
        <5> QED BY <5>1, <5>2
      <4> QED BY <4>3, <4>4
    <3> QED BY <3>1, <3>2
  <2>4. h = [n \in 0..(m + 1) |-> h[n]]
    OBVIOUS
  <2> HIDE DEF h
  <2>5. Fold(h, m + 1)
    BY <2>3, <2>4
  <2> QED BY <2>5
<1> HIDE DEF T
<1>4. Nat \subseteq T
  BY <1>2, <1>3, SetInduction
<1>5. PICK k : Fold(k, size)
  BY <1>1, <1>4 DEF T
<1> DEFINE taken == CHOOSE r : r = [n \in 0..size |-> Body(r, n)]
<1>6. parseCommandLine(config, args) = taken[size]
  BY DEF parseCommandLine
<1>7. taken = [n \in 0..size |-> Body(taken, n)]
  <2> HIDE DEF Body, size
  <2> QED BY <1>5
<1> HIDE DEF taken
<1>8. TakesArguments(config, args, taken)
  BY <1>7 DEF TakesArguments
<1> HIDE DEF size
<1> QED BY <1>6, <1>8 DEF size

PortAt(args, i) ==
    /\ IsNine(args[i]) /\ IsPortOption(args[i - 1])
    /\ i > 2 => ~IsOption(args[i - 2])

(* The last --port that is an option of its own decides.                   *)
LEMMA LastPortWins ==
    ASSUME NEW Ports, Arguments \subseteq Ports, NEW config \in Settings(Ports), NEW args \in Seq(Arguments)
    PROVE  LET parsed == parseCommandLine(config, args) IN
           /\ parsed.halt \in Halts
           /\ Going(parsed) => \A i \in 2..Len(args) : PortAt(args, i) => PortIs(parsed)
<1> DEFINE size == Len(args)
           parsed == parseCommandLine(config, args)
<1>1. size \in Nat
  OBVIOUS
<1>2. PICK taken : TakesArguments(config, args, taken) /\ parsed = taken[size]
  BY ArgumentsAreTaken
<1>3. taken[0] = NoArguments(config) /\ \A n \in 1..size : taken[n] = TakeArgument(taken[n - 1], args[n])
  BY <1>1, <1>2 DEF TakesArguments
<1>4. \A n \in 1..size : args[n] \in Arguments
  OBVIOUS
<1> HIDE DEF size, parsed
<1>5. taken[0] \in Readings(Ports) /\ Idle(taken[0])
  <2>1. "" \in Modes /\ "" \in Halts
    BY DEF Modes, Halts
  <2>2. NoArguments(config) \in Readings(Ports) /\ NoArguments(config).want = ""
    BY <2>1 DEF NoArguments, Readings
  <2> QED BY <1>3, <2>2, Zenon DEF Idle
<1>6. \A n \in Nat : n <= size => taken[n] \in Readings(Ports)
  <2> DEFINE T == {n \in Nat : n <= size => taken[n] \in Readings(Ports)}
  <2>1. 0 \in T
    BY <1>5
  <2>2. ASSUME NEW n \in Nat, n \in T PROVE n + 1 \in T
    <3> SUFFICES ASSUME n + 1 <= size PROVE taken[n + 1] \in Readings(Ports)
      OBVIOUS
    <3>1. n + 1 \in 1..size /\ (n + 1) - 1 = n /\ taken[n] \in Readings(Ports)
      BY <1>1, <2>2
    <3>2. taken[n + 1] = TakeArgument(taken[n], args[n + 1]) /\ args[n + 1] \in Ports
      BY <1>3, <1>4, <3>1
    <3> QED BY <3>1, <3>2, ArgumentIsTaken DEF TakesOne
  <2> HIDE DEF T
  <2>3. Nat \subseteq T
    BY <2>1, <2>2, SetInduction
  <2> QED BY <2>3 DEF T
<1>7. \A n \in Nat : n + 1 <= size => TakesOne(Ports, taken[n], args[n + 1], taken[n + 1])
  <2> SUFFICES ASSUME NEW n \in Nat, n + 1 <= size PROVE TakesOne(Ports, taken[n], args[n + 1], taken[n + 1])
    OBVIOUS
  <2>1. n + 1 \in 1..size /\ (n + 1) - 1 = n /\ taken[n] \in Readings(Ports)
    BY <1>1, <1>6
  <2>2. taken[n + 1] = TakeArgument(taken[n], args[n + 1]) /\ args[n + 1] \in Ports
    BY <1>3, <1>4, <2>1
  <2> QED BY <2>1, <2>2, ArgumentIsTaken
<1>12. parsed.halt \in Halts
  BY <1>1, <1>2, <1>6 DEF Readings
<1>13. ASSUME Going(parsed), NEW i \in 2..size, PortAt(args, i) PROVE PortIs(parsed)
  <2>1. i \in Nat /\ i >= 2 /\ i <= size
    BY <1>1, <1>13
  <2>2. IsNine(args[i]) /\ IsPortOption(args[i - 1]) /\ (i > 2 => ~IsOption(args[i - 2]))
    BY <1>13 DEF PortAt
  <2>8. \A n \in Nat : n <= size => Going(taken[n])
    <3> DEFINE T == {m \in Nat : m <= size => Going(taken[size - m])}
    <3>1. 0 \in T
      BY <1>1, <1>2, <1>13
    <3>2. ASSUME NEW m \in Nat, m \in T PROVE m + 1 \in T
      <4> SUFFICES ASSUME m + 1 <= size PROVE Going(taken[size - (m + 1)])
        OBVIOUS
      <4> DEFINE n == size - (m + 1)
      <4>1. n \in Nat /\ n + 1 = size - m /\ n + 1 <= size /\ Going(taken[size - m])
        BY <1>1, <2>1, <3>2
      <4> HIDE DEF n
      <4>2. TakesOne(Ports, taken[n], args[n + 1], taken[n + 1]) /\ Going(taken[n + 1])
        BY <1>7, <4>1
      <4> QED BY <4>2 DEF TakesOne, n
    <3> HIDE DEF T
    <3>3. Nat \subseteq T
      BY <3>1, <3>2, SetInduction
    <3> SUFFICES ASSUME NEW n \in Nat, n <= size PROVE Going(taken[n])
      OBVIOUS
    <3>4. size - n \in Nat /\ size - (size - n) = n /\ size - n <= size
      BY <1>1, <2>1
    <3> QED BY <3>3, <3>4 DEF T
  <2>9. PortIs(taken[i])
    <3>1. Idle(taken[i - 2])
      <4>1. CASE i = 2
        BY <1>5, <4>1
      <4>2. CASE i > 2
        <5> DEFINE n == i - 3
        <5>1. n \in Nat /\ n + 1 = i - 2 /\ n + 1 <= size /\ n <= size
          BY <1>1, <2>1, <4>2
        <5> HIDE DEF n
        <5>2. TakesOne(Ports, taken[n], args[n + 1], taken[n + 1]) /\ Going(taken[n]) /\ ~IsOption(args[n + 1])
          BY <1>7, <2>1, <2>2, <2>8, <4>2, <5>1
        <5> QED BY <5>1, <5>2 DEF TakesOne
      <4> QED BY <1>1, <2>1, <4>1, <4>2
    <3>2. AtPort(taken[i - 1])
      <4> DEFINE n == i - 2
      <4>1. n \in Nat /\ n + 1 = i - 1 /\ n + 1 <= size /\ n <= size
        BY <1>1, <2>1
      <4>2. Idle(taken[n])
        BY <3>1
      <4> HIDE DEF n
      <4>3. TakesOne(Ports, taken[n], args[n + 1], taken[n + 1]) /\ Going(taken[n]) /\ IsPortOption(args[n + 1])
        BY <1>7, <2>1, <2>2, <2>8, <4>1
      <4> QED BY <4>1, <4>2, <4>3 DEF TakesOne
    <3> DEFINE n == i - 1
    <3>3. n \in Nat /\ n + 1 = i /\ n + 1 <= size /\ n <= size
      BY <1>1, <2>1
    <3>4. AtPort(taken[n])
      BY <3>2
    <3> HIDE DEF n
    <3>5. TakesOne(Ports, taken[n], args[n + 1], taken[n + 1]) /\ Going(taken[n]) /\ IsNine(args[n + 1])
      BY <1>7, <2>1, <2>2, <2>8, <3>3
    <3> QED BY <3>3, <3>4, <3>5 DEF TakesOne
  <2>10. \A m \in Nat : i + m <= size => PortIs(taken[i + m])
    <3> DEFINE T == {m \in Nat : i + m <= size => PortIs(taken[i + m])}
    <3>1. 0 \in T
      BY <1>1, <2>1, <2>9
    <3>2. ASSUME NEW m \in Nat, m \in T PROVE m + 1 \in T
      <4> SUFFICES ASSUME i + (m + 1) <= size PROVE PortIs(taken[i + (m + 1)])
        OBVIOUS
      <4> DEFINE n == i + m
      <4>1. n \in Nat /\ n + 1 = i + (m + 1) /\ n + 1 <= size /\ n <= size /\ n + 1 \in 1..size /\ PortIs(taken[i + m])
        BY <1>1, <2>1, <3>2
      <4>2. PortIs(taken[n])
        BY <4>1
      <4> HIDE DEF n
      <4>3. TakesOne(Ports, taken[n], args[n + 1], taken[n + 1]) /\ Going(taken[n]) /\ Going(taken[n + 1]) /\ args[n + 1] \in Arguments
        BY <1>4, <1>7, <2>8, <4>1
      <4>4. PortIs(taken[n + 1])
        BY <4>2, <4>3 DEF TakesOne
      <4> QED BY <4>1, <4>4
    <3> HIDE DEF T
    <3>3. Nat \subseteq T
      BY <3>1, <3>2, SetInduction
    <3> QED BY <3>3 DEF T
  <2>11. PortIs(taken[size])
    <3> DEFINE m == size - i
    <3>1. m \in Nat /\ i + m = size /\ i + m <= size
      BY <1>1, <2>1
    <3> HIDE DEF m
    <3> QED BY <2>10, <3>1
  <2> QED BY <1>2, <2>11
<1> QED BY <1>12, <1>13 DEF parsed, size

BootCase(c) == c.args \in Seq(Arguments) /\ c.env.daemon \in BOOLEAN

LEMMA DaemonsBoot ==
    ASSUME NEW c, BootCase(c), main(c.env, c.args).status = "started", NEW i \in 2..Len(c.args), PortAt(c.args, i)
    PROVE  main(c.env, c.args).config.port = "9000"
<1> DEFINE env == c.env
           args == c.args
           config == fromEnvironment(env)
           Ports == Arguments \cup {config.port}
           parsed == parseCommandLine(config, args)
<1>1. config \in Settings(Ports)
  <2> DEFINE port == IF env.port = Unset THEN "8080" ELSE env.port
             development == IF env.mode = Unset THEN FALSE ELSE DevelopmentMode(env.mode)
             daemon == env.daemon
  <2>1. config = [DaemonConfig EXCEPT !.port = port, !.daemon = daemon, !.development = development]
    BY DEF fromEnvironment, DaemonConfig
  <2>2. development \in BOOLEAN /\ daemon \in BOOLEAN
    <3>1. \A v : DevelopmentMode(v) \in BOOLEAN
      BY DEF DevelopmentMode
    <3> QED BY <3>1 DEF BootCase
  <2> HIDE DEF port, development, daemon, config
  <2>3. config = [port |-> port, development |-> development, daemon |-> daemon]
    BY <2>1 DEF DaemonConfig
  <2> QED BY <2>2, <2>3 DEF Settings
<1>2. Arguments \subseteq Ports
  OBVIOUS
<1>3. args \in Seq(Arguments)
  BY DEF BootCase
<1> HIDE DEF config, Ports
<1>4. /\ parsed.halt \in Halts
      /\ Going(parsed) => \A j \in 2..Len(args) : PortAt(args, j) => PortIs(parsed)
  BY <1>1, <1>2, <1>3, LastPortWins
<1> HIDE DEF parsed
<1>5. main(env, args) = IF env.port # Unset /\ ~IsPort(env.port) THEN [status |-> "crash"]
                        ELSE IF parsed.halt # "" THEN [status |-> parsed.halt]
                        ELSE [status |-> "started", config |-> parsed.config, client |-> createClientConfig(parsed.config, env)]
  BY DEF main, parsed, config
<1>6. parsed.halt # "started"
  BY <1>4 DEF Halts
<1>7. Going(parsed) /\ main(env, args).config = parsed.config
  <2>1. main(env, args).status = "started"
    OBVIOUS
  <2> DEFINE m == main(env, args)
             h == parsed.halt
             started == [status |-> "started", config |-> parsed.config, client |-> createClientConfig(parsed.config, env)]
  <2>2. [status |-> "crash"].status = "crash" /\ [status |-> h].status = h /\ started.config = parsed.config
    OBVIOUS
  <2> HIDE DEF h, started, m
  <2>3. m \in {[status |-> "crash"], [status |-> h]} \/ (h = "" /\ m = started)
    BY <1>5 DEF h, started, m
  <2>4. m.status = "started"
    BY <2>1 DEF m
  <2>5. h = "" /\ m = started
    BY <1>6, <2>2, <2>3, <2>4 DEF h
  <2> QED BY <2>2, <2>5 DEF h, m, Going
<1> QED BY <1>4, <1>7 DEF PortIs

ConfigInv ==
    \/ ccase.kind = "url" /\ UrlCase(ccase) /\ cout \in {Undecided, ConnectAnswer(ccase)}
    \/ ccase.kind = "client" /\ ClientCase(ccase) /\ cout \in {Undecided, ClientAnswer(ccase)}
    \/ ccase.kind = "boot" /\ BootCase(ccase) /\ cout \in {Undecided, main(ccase.env, ccase.args)}
    \/ ccase.kind = "admin" /\ cout \in {Undecided, AdminAnswer(ccase)}

LEMMA ConfigStep == ConfigInv /\ [NextConfig]_configVars => ConfigInv'
<1> SUFFICES ASSUME ConfigInv, [NextConfig]_configVars PROVE ConfigInv'
  OBVIOUS
<1>1. CASE UNCHANGED configVars
  BY <1>1 DEF configVars, ConfigInv
<1>2. CASE NextConfig
  <2>1. ccase' = ccase /\ (ConnectUrl \/ StartClient \/ BootDaemon \/ AdminRequest)
    BY <1>2 DEF NextConfig
  <2>2. CASE ConnectUrl
    <3>1. ccase.kind = "url" /\ cout' = ConnectAnswer(ccase)
      BY <2>2 DEF ConnectUrl, ConnectAnswer
    <3>2. UrlCase(ccase)
      BY <3>1, Zenon DEF ConfigInv
    <3> QED BY <2>1, <3>1, <3>2, Zenon DEF ConfigInv
  <2>3. CASE StartClient
    <3>1. ccase.kind = "client" /\ cout' = ClientAnswer(ccase)
      BY <2>3 DEF StartClient, ClientAnswer
    <3>2. ClientCase(ccase)
      BY <3>1, Zenon DEF ConfigInv
    <3> QED BY <2>1, <3>1, <3>2, Zenon DEF ConfigInv
  <2>4. CASE BootDaemon
    <3>1. ccase.kind = "boot" /\ cout' = main(ccase.env, ccase.args)
      BY <2>4 DEF BootDaemon
    <3>2. BootCase(ccase)
      BY <3>1, Zenon DEF ConfigInv
    <3> QED BY <2>1, <3>1, <3>2, Zenon DEF ConfigInv
  <2>5. CASE AdminRequest
    <3>1. ccase.kind = "admin" /\ cout' = AdminAnswer(ccase)
      BY <2>5 DEF AdminRequest, AdminAnswer
    <3> QED BY <2>1, <3>1, Zenon DEF ConfigInv
  <2> QED BY <2>1, <2>2, <2>3, <2>4, <2>5
<1> QED BY <1>1, <1>2

LEMMA ConfigOK == ConfigInv => StartsAsConfigured
<1> SUFFICES ASSUME ConfigInv PROVE StartsAsConfigured
  OBVIOUS
<1>1. /\ ccase.kind = "url" /\ cout # Undecided => UrlCase(ccase) /\ cout = ConnectAnswer(ccase)
      /\ ccase.kind = "client" /\ cout # Undecided => ClientCase(ccase) /\ cout = ClientAnswer(ccase)
      /\ ccase.kind = "boot" /\ cout # Undecided => BootCase(ccase) /\ cout = main(ccase.env, ccase.args)
      /\ ccase.kind = "admin" /\ cout # Undecided => cout = AdminAnswer(ccase)
  BY Zenon DEF ConfigInv
<1>2. PartsAreFound
  BY <1>1, UrlsAreOpened, Zenon DEF PartsAreFound
<1>3. ValidIsCreated
  <2>1. ccase.kind = "url" /\ cout # Undecided /\ cout.status = "valid" =>
          cout.adapter # NoAdapter \/ ccase.parts.port = <<"overflow">> \/ "@" \in ToSet(Spelled(ccase.parts))
    BY <1>1, UrlsAreOpened, Zenon
  <2>2. ccase.kind = "client" /\ cout # Undecided /\ cout.client # NoClient =>
          \/ cout.client.adapter.type = ccase.config.adapter
          \/ ccase.config.adapter = "postgresql" /\ cout.client.adapter.type = "postgres"
    BY <1>1, ClientsStart, Zenon
  <2> QED BY <2>1, <2>2, Zenon DEF ValidIsCreated
<1>4. ExtrasAreOptional
  <2> SUFFICES ASSUME ccase.kind = "client", cout # Undecided PROVE ExtrasAreOptional
    BY Zenon DEF ExtrasAreOptional
  <2>1. ClientCase(ccase) /\ cout = ClientAnswer(ccase)
    BY <1>1, Zenon
  <2> DEFINE client == ClientAnswer(ccase).client
             bare == Client(ccase.config, [ccase.env EXCEPT !.search = NoExtra, !.cache = NoExtra])
  <2>2. /\ client.adapter = bare.adapter
        /\ {client.layers[i].layer : i \in DOMAIN client.layers} = {"cache", "search"} => client.layers[1].layer = "cache"
        /\ \A i \in DOMAIN client.layers : client.layers[i].layer = "cache" => client.layers[i].ttl \in {"300", "60"}
    BY <2>1, ClientsStart
  <2>3. cout.client = client
    BY <2>1, Zenon
  <2> HIDE DEF client
  <2> QED BY <2>2, <2>3, Zenon DEF ExtrasAreOptional
<1>5. CommandLineWins
  <2> SUFFICES ASSUME ccase.kind = "boot", cout # Undecided, cout.status = "started", NEW i \in 2..Len(ccase.args),
                      ccase.args[i] = "9000", ccase.args[i - 1] = "--port",
                      i > 2 => ccase.args[i - 2] \notin {"--port", "--mode"}
               PROVE  cout.config.port = "9000"
    BY Zenon DEF CommandLineWins
  <2>1. PortAt(ccase.args, i)
    BY Zenon DEF PortAt, IsNine, IsPortOption, IsOption
  <2> QED BY <1>1, <2>1, DaemonsBoot, Zenon
<1>6. TestForetellsSwitch
  <2> SUFFICES ASSUME ccase.kind = "admin", cout # Undecided PROVE cout.test = 200 <=> cout.switch = 200
    BY Zenon DEF TestForetellsSwitch
  <2>1. cout = AdminAnswer(ccase)
    BY <1>1, Zenon
  <2>2. AdminAnswer(ccase).test = 200 <=> AdminAnswer(ccase).switch = 200
    BY TestsForetell
  <2> QED BY <2>1, <2>2, Zenon
<1> QED BY <1>2, <1>3, <1>4, <1>5, <1>6 DEF StartsAsConfigured

LEMMA ShortLists ==
    ASSUME NEW Elems, NEW n \in Nat, NEW s \in SeqOf(Elems, n) PROVE s \in Seq(Elems)
  BY DEF SeqOf

LEMMA ConfigInit == InitConfig => ConfigInv
<1> SUFFICES ASSUME InitConfig PROVE ConfigInv
  OBVIOUS
<1>1. cout = Undecided
  BY DEF InitConfig
<1>2. CASE ccase \in [kind : {"url"}, protocol : {"postgres", "mysql"}, parts : {q \in UrlParts : q.password # <<>> => q.user # <<>>}]
  <2>1. ccase.kind = "url" /\ UrlCase(ccase)
    BY <1>2 DEF UrlCase
  <2> QED BY <1>1, <2>1 DEF ConfigInv
<1>3. CASE \E url \in SomeUrls, adapter \in {"sqlite", "postgres", "postgresql", "mongodb", ""}, named \in {Unset, "mysql"},
            up \in BOOLEAN :
            ccase = [kind |-> "client", config |-> Production(adapter, url), env |-> BareEnv(named, up)]
  <2>1. PICK adapter, url, named, up : ccase = [kind |-> "client", config |-> Production(adapter, url), env |-> BareEnv(named, up)]
    BY <1>3, Zenon
  <2>2. ccase.kind = "client" /\ ccase.env = Environment(named, up, NoExtra, TRUE, NoExtra, TRUE)
    BY <2>1 DEF BareEnv
  <2>3. CacheFits(NoExtra)
    BY DEF CacheFits, NoExtra, Extra
  <2> QED BY <1>1, <2>2, <2>3, Zenon DEF ConfigInv, ClientCase
<1>4. CASE \E search \in Extras(SearchParams), cache \in Extras(CacheParams), su, cu, up \in BOOLEAN :
            ccase = [kind |-> "client", config |-> Production("sqlite", Url("sqlite", <<"h">>)),
                     env |-> Environment(Unset, up, search, su, cache, cu)]
  <2>1. PICK search, cache, su, cu, up :
          /\ cache \in Extras(CacheParams)
          /\ ccase = [kind |-> "client", config |-> Production("sqlite", Url("sqlite", <<"h">>)),
                      env |-> Environment(Unset, up, search, su, cache, cu)]
    BY <1>4, Zenon
  <2>2. ccase.kind = "client" /\ ccase.env = Environment(Unset, up, search, su, cache, cu)
    BY <2>1
  <2>3. CacheFits(cache)
    <3>1. CASE cache \in [scheme : {"fits"}, params : SeqOf(CacheParams, MaxParams)]
      BY <3>1, ConfigurationAssumption, ShortLists DEF CacheFits
    <3>2. CASE cache \in {Extra(Unset, <<>>), Extra("other", <<>>)}
      BY <3>2 DEF CacheFits, Extra
    <3> QED BY <2>1, <3>1, <3>2 DEF Extras
  <2> QED BY <1>1, <2>2, <2>3, Zenon DEF ConfigInv, ClientCase
<1>5. CASE \E args \in SeqOf(Arguments, MaxArguments), port \in {Unset, "8081", "x"}, mode \in {Unset, "dev"} :
            ccase = [kind |-> "boot", args |-> args, env |-> [BootEnv EXCEPT !.port = port, !.mode = mode]]
  <2>1. PICK args, port, mode :
            /\ args \in SeqOf(Arguments, MaxArguments)
            /\ ccase = [kind |-> "boot", args |-> args, env |-> [BootEnv EXCEPT !.port = port, !.mode = mode]]
    BY <1>5
  <2>2. args \in Seq(Arguments)
    BY <2>1, ConfigurationAssumption, ShortLists
  <2>3. [BootEnv EXCEPT !.port = port, !.mode = mode].daemon = FALSE
    BY DEF BootEnv
  <2>4. ccase.kind = "boot" /\ BootCase(ccase)
    BY <2>1, <2>2, <2>3 DEF BootCase
  <2> QED BY <1>1, <2>4 DEF ConfigInv
<1>6. CASE \E args \in SeqOf(Arguments, 1), daemon \in BOOLEAN, url, url2 \in {NoUrl, Url("mysql", <<"h">>)} :
            ccase = [kind |-> "boot", args |-> args, env |-> [BootEnv EXCEPT !.daemon = daemon, !.url = url, !.url2 = url2]]
  <2>1. PICK args, daemon, url, url2 :
            /\ args \in SeqOf(Arguments, 1) /\ daemon \in BOOLEAN
            /\ ccase = [kind |-> "boot", args |-> args, env |-> [BootEnv EXCEPT !.daemon = daemon, !.url = url, !.url2 = url2]]
    BY <1>6
  <2>2. args \in Seq(Arguments)
    BY <2>1, ShortLists
  <2>3. [BootEnv EXCEPT !.daemon = daemon, !.url = url, !.url2 = url2].daemon = daemon
    BY DEF BootEnv
  <2>4. ccase.kind = "boot" /\ BootCase(ccase)
    BY <2>1, <2>2, <2>3 DEF BootCase
  <2> QED BY <1>1, <2>4 DEF ConfigInv
<1>7. CASE \E method \in {"GET", "POST", "OPTIONS"}, token \in {Unset, "t"}, shown \in {Unset, "t", "s"}, json, up \in BOOLEAN,
            adapter \in {"", "sqlite", "mysql", "redis", "oracle"}, url \in SomeUrls :
            ccase = [kind |-> "admin", env |-> BareEnv(Unset, up),
                     request |-> AdminCall(method, token, shown, json, adapter, url)]
  <2>1. PICK method \in {"GET", "POST", "OPTIONS"}, token \in {Unset, "t"}, shown \in {Unset, "t", "s"}, json, up \in BOOLEAN,
            adapter \in {"", "sqlite", "mysql", "redis", "oracle"}, url \in SomeUrls :
            ccase = [kind |-> "admin", env |-> BareEnv(Unset, up),
                     request |-> AdminCall(method, token, shown, json, adapter, url)]
    BY <1>7
  <2>2. ccase.kind = "admin"
    BY <2>1
  <2> QED BY <1>1, <2>2 DEF ConfigInv
<1> QED BY <1>2, <1>3, <1>4, <1>5, <1>6, <1>7 DEF InitConfig

(***************************************************************************)
(* Coming up                                                               *)
(***************************************************************************)
LEMMA OneAimIsAimed == dcase = OneAim => Aimed
<1> SUFFICES ASSUME dcase = OneAim PROVE Aimed
  OBVIOUS
<1> DEFINE path == <<"health">>
<1>1. dcase.aim = 1 /\ dcase.method = "GET" /\ dcase.path = path
  BY DEF OneAim
<1>2. DOMAIN path = 1..Len(path)
  OBVIOUS
<1>3. "GET" \in registerRoutes[1].methods
  <2>1. registerRoutes[1] = HealthRoutes[1]
    BY RoutesAre
  <2>2. HealthRoutes[1].methods = {"GET", "OPTIONS"}
    BY DEF HealthRoutes, Uncounted, Route
  <2> QED BY <2>1, <2>2
<1>4. registerRoutes[1].path = path
  BY HealthPaths DEF PathOf
<1> HIDE DEF path
<1>5. FitsPattern(registerRoutes[1], path)
  BY <1>4 DEF FitsPattern
<1>6. 1 \in 1..42
  OBVIOUS
<1> QED BY <1>1, <1>2, <1>3, <1>5, <1>6, Zenon DEF Aimed

LEMMA UpInit == Init => ConfigInv /\ TableInv
<1> SUFFICES ASSUME Init PROVE ConfigInv /\ TableInv
  OBVIOUS
<1>1. ConfigInv
  <2>1. CASE part = "config"
    BY <2>1, ConfigInit DEF Init, InitCases
  <2>2. CASE part # "config"
    <3>1. ccase = OneStart /\ cout = Undecided
      BY <2>2 DEF Init, InitCases
    <3>2. ccase.kind = "client" /\ ccase.env = Environment(Unset, TRUE, NoExtra, TRUE, NoExtra, TRUE)
      BY <3>1 DEF OneStart, BareEnv
    <3>3. CacheFits(NoExtra)
      BY DEF CacheFits, NoExtra, Extra
    <3> QED BY <3>1, <3>2, <3>3, Zenon DEF ConfigInv, ClientCase
  <2> QED BY <2>1, <2>2
<1>2. TableInv
  <2>1. CASE part = "table"
    BY <2>1, TableInit DEF Init, InitCases
  <2>2. CASE part # "table"
    BY <2>2, OneAimIsAimed DEF Init, InitCases, TableInv
  <2> QED BY <2>1, <2>2
<1> QED BY <1>1, <1>2

LEMMA UpStep == ConfigInv /\ TableInv /\ [Next]_ruleVars => (ConfigInv /\ TableInv)'
<1> SUFFICES ASSUME ConfigInv, TableInv, [Next]_ruleVars PROVE ConfigInv' /\ TableInv'
  OBVIOUS
<1>1. [NextConfig]_configVars /\ [Dispatch]_tableVars
  <2>1. CASE UNCHANGED ruleVars
    BY <2>1 DEF ruleVars, caseVars
  <2>2. CASE UNCHANGED caseVars
    BY <2>2 DEF caseVars
  <2>3. CASE NextCasePart
    BY <2>3 DEF NextCasePart
  <2> QED BY <2>1, <2>2, <2>3 DEF Next
<1> QED BY <1>1, ConfigStep, TableStep

(* The daemon comes up as it was configured and a request reaches the      *)
(* route it is for: the factory reads a URL as it was written and opens    *)
(* what the validator lets through, the optional layers stay optional, the *)
(* last --port on the command line wins however long that line is, a test  *)
(* of a connection foretells the switch to it, and no route of the table   *)
(* hides a more particular one.                                            *)
THEOREM DaemonComesUp == Spec => []ComesUpAsConfigured
<1>1. ConfigInv /\ TableInv => ComesUpAsConfigured
  BY ConfigOK, TableOK DEF ComesUpAsConfigured
<1> QED BY <1>1, UpInit, UpStep, PTL DEF Spec
=============================================================================
