--------------------------- MODULE StepwiseProofs ---------------------------
(***************************************************************************)
(* What is done step by step adds up: documents of the search mirror drift *)
(* from their rows only for causes that are known, for any callers and     *)
(* rows; workflow runs are sound, for any number of posts, workflows and   *)
(* edits, and so is the sort of their nodes, for any keys and edges; and   *)
(* the loops that make a statement agree, for any columns.                 *)
(***************************************************************************)
EXTENDS SearchingAdapter, RowWriting, WorkflowEngine, FiniteSetTheorems, WellFoundedInduction, TLAPS

(***************************************************************************)
(* SearchingAdapter                                                        *)
(***************************************************************************)
USE SearchAssumption DEF Gone

(* Rows, documents and requests stay well-typed.                           *)
LEMMA TypeStep == TypeOK /\ [Next]_vars => TypeOK'
<1> SUFFICES ASSUME TypeOK, [Next]_vars PROVE TypeOK'
  OBVIOUS
<1> USE DEF TypeOK, store, local
<1>0. inTx' \in BOOLEAN
  BY DEF Next, WriteRecord, RemoveRecord, Write, Mirror, MirrorLost, Return, WriteMany,
     BeginTransaction, CommitTransaction, RollbackTransaction, vars
<1>1. ASSUME NEW p \in Procs, NEW i \in Ids, WriteRecord(p, i) PROVE TypeOK'
  <2>1. version' \in 0 .. MaxVersion /\ version' # 0
    BY <1>1 DEF WriteRecord, NewVersion
  <2> QED BY <1>0, <1>1, <2>1 DEF WriteRecord, Write, Mirrors
<1>2. ASSUME NEW p \in Procs, NEW i \in Ids, RemoveRecord(p, i) PROVE TypeOK'
  BY <1>0, <1>2 DEF RemoveRecord, Write, Mirrors
<1>3. ASSUME NEW p \in Procs, Mirror(p) PROVE TypeOK'
  <2>1. excuse' \in [Ids -> SUBSET Causes]
    BY <1>3 DEF Mirror, Causes
  <2> QED BY <1>0, <1>3, <2>1 DEF Mirror, Return
<1>4. ASSUME NEW p \in Procs, MirrorLost(p) PROVE TypeOK'
  <2>1. excuse' \in [Ids -> SUBSET Causes]
    BY <1>4 DEF MirrorLost, Causes
  <2> QED BY <1>0, <1>4, <2>1 DEF MirrorLost, Return
<1>5. ASSUME NEW r \in [Ids -> 0 .. MaxVersion], ChangeUnmirrored(r)
      PROVE  /\ row' \in [Ids -> 0 .. MaxVersion] /\ outdated' \subseteq Procs
             /\ excuse' \in [Ids -> SUBSET Causes] /\ UNCHANGED <<doc, local>>
  BY <1>5 DEF ChangeUnmirrored, Causes
<1>6. ASSUME NEW S \in (SUBSET Ids) \ {{}}, WriteMany(S) PROVE TypeOK'
  <2>1. version' \in 0 .. MaxVersion
    BY <1>6 DEF WriteMany, NewVersion
  <2>2. PICK v \in {Gone, version'} :
           ChangeUnmirrored([i \in Ids |-> IF i \in S THEN v ELSE row[i]])
    BY <1>6 DEF WriteMany
  <2>3. [i \in Ids |-> IF i \in S THEN v ELSE row[i]] \in [Ids -> 0 .. MaxVersion]
    BY <2>1
  <2> QED BY <1>0, <1>5, <1>6, <2>1, <2>2, <2>3 DEF WriteMany
<1>7. CASE BeginTransaction \/ CommitTransaction
  BY <1>0, <1>7 DEF BeginTransaction, CommitTransaction
<1>8. CASE RollbackTransaction
  BY <1>0, <1>5, <1>8 DEF RollbackTransaction
<1>9. CASE UNCHANGED vars
  BY <1>9 DEF vars
<1> QED BY <1>1, <1>2, <1>3, <1>4, <1>6, <1>7, <1>8, <1>9 DEF Next

(* The search layer never leaves its types.                                *)
THEOREM Typing == Spec => []TypeOK
<1>1. Init => TypeOK
  <2>1. Init => inTx \in BOOLEAN
    BY DEF Init
  <2> QED BY <2>1 DEF Init, TypeOK
<1> QED BY <1>1, TypeStep, PTL DEF Spec
-----------------------------------------------------------------------------
(***************************************************************************)
(* What DriftExplained rests on: a mirror that is not outdated carries the *)
(* row, and only requests under way are outdated.                          *)
(***************************************************************************)
Current ==
    /\ \A p \in Procs : pc[p] # "idle" /\ p \notin outdated => buf[p] = row[target[p]]
    /\ \A p \in Procs : p \in outdated => pc[p] # "idle"

(* Every step keeps the mirrors that were not overtaken current.           *)
LEMMA CurrentStep == TypeOK /\ Current /\ [Next]_vars => Current'
<1> SUFFICES ASSUME TypeOK, Current, [Next]_vars PROVE Current'
  OBVIOUS
<1> USE DEF TypeOK, Current, store, local
<1>1. ASSUME NEW p \in Procs, NEW i \in Ids, WriteRecord(p, i) \/ RemoveRecord(p, i) PROVE Current'
  BY <1>1 DEF WriteRecord, RemoveRecord, Write, Mirrors
<1>2. ASSUME NEW p \in Procs, Mirror(p) \/ MirrorLost(p) PROVE Current'
  BY <1>2 DEF Mirror, MirrorLost, Return
<1>3. ASSUME NEW r, ChangeUnmirrored(r) PROVE Current'
  BY <1>3 DEF ChangeUnmirrored
<1>4. ASSUME NEW S \in (SUBSET Ids) \ {{}}, WriteMany(S) PROVE Current'
  BY <1>3, <1>4 DEF WriteMany
<1>5. CASE BeginTransaction \/ CommitTransaction
  BY <1>5 DEF BeginTransaction, CommitTransaction
<1>6. CASE RollbackTransaction
  BY <1>3, <1>6 DEF RollbackTransaction
<1>7. CASE UNCHANGED vars
  BY <1>7 DEF vars
<1> QED BY <1>1, <1>2, <1>4, <1>5, <1>6, <1>7 DEF Next

(* Every step keeps a differing document explained.                        *)
LEMMA DriftStep == TypeOK /\ Current /\ DriftExplained /\ [Next]_vars => DriftExplained'
<1> SUFFICES ASSUME TypeOK, Current, DriftExplained, [Next]_vars,
                    NEW i \in Ids, doc'[i] # row'[i], excuse'[i] = {}
             PROVE  \E p \in Mirrors(i)' : p \notin outdated'
  BY DEF DriftExplained, Repair
<1> USE DEF TypeOK, Current, store, local
<1>1. ASSUME NEW p \in Procs, NEW j \in Ids, WriteRecord(p, j) \/ RemoveRecord(p, j)
      PROVE  \E q \in Mirrors(i)' : q \notin outdated'
  <2>1. /\ row'[j] = buf'[p] /\ pc'[p] # "idle" /\ target'[p] = j
        /\ pc[p] = "idle" /\ outdated' = outdated \cup Mirrors(j)
        /\ UNCHANGED <<doc, excuse>>
    BY <1>1 DEF WriteRecord, RemoveRecord, Write
  <2>2. CASE i = j
    BY <2>1, <2>2 DEF Mirrors
  <2>3. CASE i # j
    <3>1. row'[i] = row[i] /\ \A q \in Procs : q # p => pc'[q] = pc[q] /\ target'[q] = target[q]
      BY <1>1, <2>3 DEF WriteRecord, RemoveRecord, Write
    <3>2. PICK q \in Mirrors(i) : q \notin outdated
      BY <2>1, <3>1 DEF DriftExplained, Repair
    <3>3. q # p /\ q \in Mirrors(i)' /\ q \notin outdated'
      BY <2>1, <2>3, <3>1, <3>2 DEF Mirrors
    <3> QED BY <3>3
  <2> QED BY <2>2, <2>3
<1>2. ASSUME NEW p \in Procs, Mirror(p)
      PROVE  \E q \in Mirrors(i)' : q \notin outdated'
  <2>1. target[p] # i
    BY <1>2 DEF Mirror, Return
  <2>2. doc'[i] = doc[i] /\ excuse'[i] = excuse[i]
    BY <1>2, <2>1 DEF Mirror
  <2>3. PICK q \in Mirrors(i) : q \notin outdated
    BY <1>2, <2>2 DEF DriftExplained, Repair, Mirror, Return
  <2>4. q \in Mirrors(i)' /\ q \notin outdated'
    BY <1>2, <2>1, <2>3 DEF Mirror, Return, Mirrors
  <2> QED BY <2>4
<1>3. ASSUME NEW p \in Procs, MirrorLost(p)
      PROVE  \E q \in Mirrors(i)' : q \notin outdated'
  <2>1. target[p] # i /\ excuse'[i] = excuse[i]
    BY <1>3 DEF MirrorLost
  <2>2. PICK q \in Mirrors(i) : q \notin outdated
    BY <1>3, <2>1 DEF DriftExplained, Repair, MirrorLost, Return
  <2>3. q \in Mirrors(i)' /\ q \notin outdated'
    BY <1>3, <2>1, <2>2 DEF MirrorLost, Return, Mirrors
  <2> QED BY <2>3
<1>4. ASSUME NEW r, ChangeUnmirrored(r)
      PROVE  \E q \in Mirrors(i)' : q \notin outdated'
  <2>1. r[i] = row[i] /\ excuse'[i] = excuse[i] /\ row' = r
    BY <1>4 DEF ChangeUnmirrored
  <2>2. PICK q \in Mirrors(i) : q \notin outdated
    BY <1>4, <2>1 DEF DriftExplained, Repair, ChangeUnmirrored
  <2>3. q \in Mirrors(i)' /\ q \notin outdated'
    BY <1>4, <2>1, <2>2 DEF ChangeUnmirrored, Mirrors
  <2> QED BY <2>3
<1>5. ASSUME NEW S \in (SUBSET Ids) \ {{}}, WriteMany(S)
      PROVE  \E q \in Mirrors(i)' : q \notin outdated'
  BY <1>4, <1>5 DEF WriteMany
<1>6. CASE BeginTransaction \/ CommitTransaction \/ UNCHANGED vars
  BY <1>6 DEF BeginTransaction, CommitTransaction, vars, DriftExplained, Repair, Mirrors
<1>7. CASE RollbackTransaction
  BY <1>4, <1>7 DEF RollbackTransaction
<1> QED BY <1>1, <1>2, <1>3, <1>5, <1>6, <1>7 DEF Next

(* A document differs from its row only while the latest writer's mirror   *)
(* is under way, or because a mirror was lost or crossed, or the row       *)
(* changed unmirrored.                                                     *)
THEOREM DriftIsExplained == Spec => []DriftExplained
<1>1. Init => Current /\ DriftExplained
  BY DEF Init, Current, DriftExplained
<1> QED BY <1>1, Typing, CurrentStep, DriftStep, PTL DEF Spec

(* A mirror that no later write has overtaken makes the document the row.  *)
THEOREM WritesHeal == Spec => HealedByNextWrite
<1> DEFINE Heals == \A p \in Procs : pc[p] # "idle" /\ p \notin outdated /\ Mirror(p) =>
                        doc'[target[p]] = row'[target[p]]
<1>1. TypeOK /\ Current /\ [Next]_vars => [Heals]_vars
  BY DEF TypeOK, Current, Mirror, Return, store
<1>2. Init => Current
  BY DEF Init, Current
<1> QED BY <1>1, <1>2, Typing, CurrentStep, PTL DEF Spec, HealedByNextWrite

HIDE SearchAssumption DEF Gone

(***************************************************************************)
(* WorkflowEngine: the sort of the nodes.  A set of numbers that holds 0   *)
(* and every successor holds them all, so the turns of the loops are all   *)
(* in the invariant.                                                       *)
(***************************************************************************)
(* A nonempty set of numbers has a least one.                              *)
LEMMA LeastNat ==
    ASSUME NEW T, T \subseteq Nat, T # {}
    PROVE  \E m \in T : \A k \in T : m <= k
<1> DEFINE R == OpToRel(<, Nat)
<1>1. IsWellFoundedOn(R, Nat)
  BY NatLessThanWellFounded
<1>2. \A x, y \in Nat : y < x => <<y, x>> \in R
  BY DEF OpToRel
<1> HIDE DEF R
<1>3. PICK m \in T : \A y \in T : ~ (<<y, m>> \in R)
  BY <1>1, WFMin
<1>4. m \in Nat /\ \A k \in T : k \in Nat /\ ~(k < m)
  BY <1>2, <1>3
<1> QED
  BY <1>4

(* Induction, over a set of numbers.                                       *)
LEMMA SetInduction ==
    ASSUME NEW S, 0 \in S, \A n \in Nat : n \in S => n + 1 \in S
    PROVE  Nat \subseteq S
<1> SUFFICES ASSUME Nat \ S # {} PROVE FALSE
  OBVIOUS
<1>1. PICK m \in Nat \ S : \A k \in Nat \ S : m <= k
  <2> DEFINE T == Nat \ S
  <2>1. T \subseteq Nat /\ T # {}
    OBVIOUS
  <2> HIDE DEF T
  <2>2. PICK m \in T : \A k \in T : m <= k
    BY <2>1, LeastNat
  <2> QED
    BY <2>2 DEF T
<1>2. m # 0 /\ m - 1 \in Nat
  OBVIOUS
<1>3. m - 1 \in S
  BY <1>1, <1>2
<1> QED
  BY <1>2, <1>3

LoopRuns(State, first, step, f) ==
    f \in [Nat -> State] /\ f[0] = first /\ \A n \in Nat : f[n + 1] = step[f[n]]

(* A loop that takes a state to the next has a state after any number of   *)
(* turns.                                                                  *)
LEMMA LoopsExist ==
    ASSUME NEW State, NEW first, NEW step, first \in State, step \in [State -> State]
    PROVE  \E f : LoopRuns(State, first, step, f)
<1> DEFINE Runs(n) == {f \in [0..n -> State] : f[0] = first /\ \A i \in 0..(n - 1) : f[i + 1] = step[f[i]]}
           S == {n \in Nat : \E f \in Runs(n) : TRUE}
           best(n) == CHOOSE f \in Runs(n) : TRUE
           g == [n \in Nat |-> best(n)[n]]
<1>1. Nat \subseteq S
  <2>1. 0 \in S
    <3>1. [i \in 0..0 |-> first] \in Runs(0)
      OBVIOUS
    <3> QED BY <3>1
  <2>2. ASSUME NEW n \in Nat, n \in S PROVE n + 1 \in S
    <3>1. PICK f \in Runs(n) : TRUE
      BY <2>2
    <3> DEFINE h == [i \in 0..(n + 1) |-> IF i = n + 1 THEN step[f[n]] ELSE f[i]]
    <3>2. f \in [0..n -> State] /\ f[0] = first /\ \A i \in 0..(n - 1) : f[i + 1] = step[f[i]]
      BY <3>1
    <3>3. f[n] \in State
      BY <3>2
    <3>4. h \in [0..(n + 1) -> State] /\ h[0] = first
      BY <3>2, <3>3
    <3>5. ASSUME NEW i \in 0..n PROVE h[i + 1] = step[h[i]]
      <4>1. CASE i = n BY <4>1
      <4>2. CASE i # n
        <5>1. i \in 0..(n - 1) /\ i + 1 \in 0..n /\ i + 1 # n + 1 /\ i # n + 1 /\ i \in 0..(n + 1) /\ i + 1 \in 0..(n + 1)
          BY <4>2
        <5> QED BY <5>1, <3>2
      <4> QED BY <4>1, <4>2
    <3>6. h \in Runs(n + 1)
      <4> HIDE DEF h
      <4>1. \A i \in 0..((n + 1) - 1) : h[i + 1] = step[h[i]]
        BY <3>5
      <4> QED BY <3>4, <4>1
    <3> HIDE DEF h, Runs
    <3> QED BY <3>6
  <2> HIDE DEF S
  <2> QED BY <2>1, <2>2, SetInduction
<1>2. ASSUME NEW n \in Nat PROVE best(n) \in Runs(n)
  BY <1>1
<1>3. ASSUME NEW n \in Nat, NEW f \in Runs(n), NEW m \in Nat, NEW h \in Runs(m)
      PROVE  \A i \in Nat : i <= n /\ i <= m => f[i] = h[i]
  <2> DEFINE T == {i \in Nat : i <= n /\ i <= m => f[i] = h[i]}
  <2>1. 0 \in T
    OBVIOUS
  <2>2. ASSUME NEW i \in Nat, i \in T PROVE i + 1 \in T
    <3> SUFFICES ASSUME i + 1 <= n, i + 1 <= m PROVE f[i + 1] = h[i + 1]
      OBVIOUS
    <3>1. i \in 0..(n - 1) /\ i \in 0..(m - 1) /\ f[i] = h[i]
      BY <2>2
    <3> QED BY <3>1
  <2> HIDE DEF T
  <2>3. Nat \subseteq T
    BY <2>1, <2>2, SetInduction
  <2> QED BY <2>3 DEF T
<1> HIDE DEF best
<1>4. ASSUME NEW n \in Nat PROVE g[n] \in State /\ g[n + 1] = step[g[n]]
  <2>1. best(n) \in Runs(n) /\ best(n + 1) \in Runs(n + 1)
    BY <1>2
  <2>2. best(n + 1)[n] = best(n)[n]
    <3>1. n + 1 \in Nat /\ n <= n /\ n <= n + 1
      OBVIOUS
    <3> HIDE DEF Runs
    <3> QED BY <2>1, <1>3, <3>1
  <2>3. n \in 0..((n + 1) - 1)
    OBVIOUS
  <2>4. best(n + 1)[n + 1] = step[best(n + 1)[n]]
    BY <2>1, <2>3
  <2>5. n \in 0..n /\ best(n) \in [0..n -> State]
    BY <2>1
  <2> QED BY <2>2, <2>4, <2>5
<1>5. g[0] = first
  BY <1>2
<1>6. g \in [Nat -> State]
  BY <1>4
<1> HIDE DEF g
<1>7. LoopRuns(State, first, step, g)
  BY <1>4, <1>5, <1>6 DEF LoopRuns
<1> QED BY <1>7

(***************************************************************************)
(* The order of the nodes                                                  *)
(***************************************************************************)
(* A turn of the sort's loops takes a state of theirs to another.          *)
LEMMA TurnTyped ==
    ASSUME NEW keys, keys \in Seq(ToSet(keys)), NEW edges, NEW s \in Sorts(keys)
    PROVE  After(keys, edges, s) \in Sorts(keys)
<1> DEFINE N == ToSet(keys)
<1>1. keys \in Seq(N) /\ Len(keys) \in Nat /\ \A i \in 1..Len(keys) : keys[i] \in N
  OBVIOUS
<1>2. /\ s.seeded \in Nat /\ s.queue \in Seq(N) /\ s.taken \in Nat /\ s.at \in Nat
      /\ s.indegree \in [N -> Int]
  BY DEF Sorts
<1> HIDE DEF N
<1>3. s.seeded < Len(keys) => SeedKey(keys, s) \in Sorts(keys)
  <2> SUFFICES ASSUME s.seeded < Len(keys) PROVE SeedKey(keys, s) \in Sorts(keys)
    OBVIOUS
  <2>1. keys[s.seeded + 1] \in N
    BY <1>1, <1>2
  <2> QED BY <1>2, <2>1 DEF SeedKey, Sorts, N
<1>4. Known(keys, edges[s.at]) => FollowEdge(edges, s) \in Sorts(keys)
  BY <1>2 DEF FollowEdge, Sorts, Known, N
<1>5. PassEdge(s) \in Sorts(keys) /\ TakeNode(s) \in Sorts(keys)
  BY <1>2 DEF PassEdge, TakeNode, Sorts, N
<1>6. Len(s.queue) \in Nat
  BY <1>2
<1>7. CASE s.seeded < Len(keys)
  BY <1>1, <1>2, <1>3, <1>7 DEF After
<1>8. CASE s.seeded >= Len(keys)
  BY <1>1, <1>2, <1>4, <1>5, <1>6, <1>8 DEF After
<1> QED BY <1>1, <1>2, <1>7, <1>8

(* The kinds of turns.                                                     *)
LEMMA TurnKinds ==
    ASSUME NEW keys, NEW edges, NEW s \in Sorts(keys), Len(keys) \in Nat
    PROVE  /\ s.seeded < Len(keys) => After(keys, edges, s) = SeedKey(keys, s)
           /\ s.seeded >= Len(keys) /\ s.taken >= Len(s.queue) => After(keys, edges, s) = s
           /\ s.seeded >= Len(keys) /\ s.taken < Len(s.queue) /\ s.at > Len(edges) =>
                 After(keys, edges, s) = TakeNode(s)
           /\ (/\ s.seeded >= Len(keys) /\ s.taken < Len(s.queue) /\ ~(s.at > Len(edges))
               /\ Known(keys, edges[s.at]) /\ edges[s.at][1] = s.queue[s.taken + 1]) =>
                 After(keys, edges, s) = FollowEdge(edges, s)
           /\ (/\ s.seeded >= Len(keys) /\ s.taken < Len(s.queue) /\ ~(s.at > Len(edges))
               /\ ~(Known(keys, edges[s.at]) /\ edges[s.at][1] = s.queue[s.taken + 1])) =>
                 After(keys, edges, s) = PassEdge(s)
<1>1. s.seeded \in Nat /\ s.taken \in Nat /\ Len(s.queue) \in Nat
  BY DEF Sorts
<1>2. CASE s.seeded < Len(keys)
  BY <1>1, <1>2 DEF After
<1>3. CASE s.seeded >= Len(keys) /\ s.taken >= Len(s.queue)
  BY <1>1, <1>3 DEF After
<1>4. CASE s.seeded >= Len(keys) /\ s.taken < Len(s.queue)
  <2>1. After(keys, edges, s) = IF s.at > Len(edges) THEN TakeNode(s)
            ELSE IF Known(keys, edges[s.at]) /\ edges[s.at][1] = s.queue[s.taken + 1]
            THEN FollowEdge(edges, s)
            ELSE PassEdge(s)
    BY <1>1, <1>4 DEF After
  <2> QED BY <1>1, <1>4, <2>1
<1> QED BY <1>1, <1>2, <1>3, <1>4

LEMMA OwnSeq ==
    ASSUME NEW Key, NEW keys \in Seq(Key)
    PROVE  keys \in Seq(ToSet(keys)) /\ \A i \in 1..Len(keys) : keys[i] \in ToSet(keys)
BY DEF ToSet

LEMMA UnsortedTyped ==
    ASSUME NEW Key, NEW keys \in Seq(Key), NEW edges \in Seq(Key \X Key)
    PROVE  /\ Unsorted(keys, edges) \in Sorts(keys)
           /\ \A k : /\ Into(keys, edges, k) \subseteq DOMAIN edges
                     /\ IsFiniteSet(Into(keys, edges, k)) /\ Cardinality(Into(keys, edges, k)) \in Nat
<1>1. IsFiniteSet(DOMAIN edges)
  <2>1. DOMAIN edges = 1..Len(edges) /\ Len(edges) \in Nat
    OBVIOUS
  <2> QED BY <2>1, FS_Interval
<1>2. ASSUME NEW k PROVE /\ Into(keys, edges, k) \subseteq DOMAIN edges
                         /\ IsFiniteSet(Into(keys, edges, k)) /\ Cardinality(Into(keys, edges, k)) \in Nat
  <2>1. Into(keys, edges, k) \in SUBSET DOMAIN edges
    BY DEF Into
  <2> QED BY <1>1, <2>1, FS_Subset, FS_CardinalityType
<1>3. <<>> \in Seq(ToSet(keys))
  OBVIOUS
<1>4. [k \in ToSet(keys) |-> Cardinality(Into(keys, edges, k))] \in [ToSet(keys) -> Int]
  BY <1>2
<1> QED BY <1>2, <1>3, <1>4 DEF Unsorted, Sorts

(* The sort has a state after any number of turns.                         *)
LEMMA SortingTurns ==
    ASSUME NEW Key, NEW keys \in Seq(Key), NEW edges \in Seq(Key \X Key)
    PROVE  LoopRuns(Sorts(keys), Unsorted(keys, edges), Turn(keys, edges), Sorting(keys, edges))
<1> DEFINE Body(f) == [n \in Nat |-> IF n = 0 THEN Unsorted(keys, edges) ELSE Turn(keys, edges)[f[n - 1]]]
<1>1. Turn(keys, edges) \in [Sorts(keys) -> Sorts(keys)]
  <2>1. \A s \in Sorts(keys) : After(keys, edges, s) \in Sorts(keys)
    BY OwnSeq, TurnTyped
  <2> QED BY <2>1 DEF Turn
<1>2. PICK f \in [Nat -> Sorts(keys)] :
         f[0] = Unsorted(keys, edges) /\ \A n \in Nat : f[n + 1] = Turn(keys, edges)[f[n]]
  <2>1. Unsorted(keys, edges) \in Sorts(keys)
    BY UnsortedTyped
  <2> DEFINE State == Sorts(keys)
             first == Unsorted(keys, edges)
             step == Turn(keys, edges)
  <2>2. first \in State /\ step \in [State -> State]
    BY <1>1, <2>1
  <2> HIDE DEF Body, State, first, step
  <2>3. \E f : LoopRuns(State, first, step, f)
    BY <2>2, LoopsExist
  <2> QED BY <2>3 DEF State, first, step, LoopRuns
<1>3. f = Body(f)
  <2>1. ASSUME NEW n \in Nat PROVE f[n] = Body(f)[n]
    <3>1. CASE n = 0 BY <1>2, <3>1
    <3>2. CASE n # 0
      <4>1. n - 1 \in Nat /\ (n - 1) + 1 = n
        BY <3>2
      <4>2. f[(n - 1) + 1] = Turn(keys, edges)[f[n - 1]]
        BY <1>2, <4>1
      <4> QED BY <3>2, <4>1, <4>2
    <3> QED BY <3>1, <3>2
  <2>2. DOMAIN f = Nat /\ DOMAIN Body(f) = Nat /\ f = [n \in Nat |-> f[n]] /\ Body(f) = [n \in Nat |-> Body(f)[n]]
    OBVIOUS
  <2> QED BY <2>1, <2>2
<1>4. Sorting(keys, edges) = CHOOSE g : g = Body(g)
  BY DEF Sorting
<1> DEFINE g == Sorting(keys, edges)
<1>5. g = Body(g)
  BY <1>3, <1>4
<1>6. g[0] = Unsorted(keys, edges) /\ \A n \in Nat : g[n + 1] = Turn(keys, edges)[g[n]]
  <2> HIDE DEF g
  <2>1. \A n \in Nat : g[n] = IF n = 0 THEN Unsorted(keys, edges) ELSE Turn(keys, edges)[g[n - 1]]
    BY <1>5
  <2>2. \A n \in Nat : n + 1 \in Nat /\ n + 1 # 0 /\ (n + 1) - 1 = n
    OBVIOUS
  <2> QED BY <2>1, <2>2
<1>7. DOMAIN g = Nat
  <2> HIDE DEF g
  <2> QED BY <1>5
<1>8. \A n \in Nat : g[n] \in Sorts(keys)
  <2> HIDE DEF g
  <2> DEFINE T == {n \in Nat : g[n] \in Sorts(keys)}
  <2>0. Unsorted(keys, edges) \in Sorts(keys)
    BY UnsortedTyped
  <2>1. 0 \in T
    BY <1>6, <2>0
  <2>2. ASSUME NEW n \in Nat, n \in T PROVE n + 1 \in T
    <3>1. g[n] \in Sorts(keys) /\ g[n + 1] = Turn(keys, edges)[g[n]]
      BY <1>6, <2>2
    <3>2. g[n + 1] \in Sorts(keys)
      BY <1>1, <3>1
    <3> QED BY <3>2
  <2> HIDE DEF T
  <2>3. Nat \subseteq T
    BY <2>1, <2>2, SetInduction
  <2> QED BY <2>3 DEF T
<1>9. g = [n \in Nat |-> g[n]]
  <2> HIDE DEF g
  <2> QED BY <1>5
<1> HIDE DEF g
<1>10. g \in [Nat -> Sorts(keys)]
  BY <1>8, <1>9
<1> QED BY <1>6, <1>10 DEF g, LoopRuns

(* The edges that were followed: those of the nodes that were taken, and   *)
(* the first ones of the node in front.                                    *)
Followed(keys, edges, s) ==
    {i \in DOMAIN edges :
        /\ Known(keys, edges[i])
        /\ \E h \in 1..Len(s.queue) :
              s.queue[h] = edges[i][1] /\ (h <= s.taken \/ (h = s.taken + 1 /\ i < s.at))}

Queued(s, k) == \E h \in 1..Len(s.queue) : s.queue[h] = k

(* Nothing is taken before every key was looked at.                        *)
SortShape(keys, edges, s) ==
    /\ s \in Sorts(keys)
    /\ s.seeded <= Len(keys) /\ s.taken <= Len(s.queue) /\ s.at \in 1..(Len(edges) + 1)
    /\ s.seeded < Len(keys) =>
          /\ s.taken = 0 /\ s.at = 1
          /\ \A k \in ToSet(keys) : s.indegree[k] = Cardinality(Into(keys, edges, k))

(* A node that edges lead to is in the queue when its count is used up.    *)
SortWaits(keys, edges, s) ==
    /\ \A k \in ToSet(keys) :
          /\ Into(keys, edges, k) # {} => (Queued(s, k) <=> s.indegree[k] <= 0)
          /\ Into(keys, edges, k) = {} => s.indegree[k] = 0
    /\ \A i \in 1..s.seeded : Into(keys, edges, keys[i]) = {} => Queued(s, keys[i])

(* Every place of the queue stands for a key of its own.                   *)
Places(keys, edges, s, place) ==
    /\ place \in [1..Len(s.queue) -> 1..Len(keys)]
    /\ \A i \in 1..Len(s.queue) :
          /\ s.queue[i] = keys[place[i]]
          /\ Into(keys, edges, s.queue[i]) = {} => place[i] <= s.seeded
          /\ \A j \in 1..Len(s.queue) : place[i] = place[j] => i = j

(* Of distinct keys each counts the edges that were not followed, and      *)
(* stands behind the nodes its edges come from.                            *)
SortOrder(keys, edges, s) ==
    Distinct(keys) =>
       /\ \A k \in ToSet(keys) : s.indegree[k] = Cardinality(Into(keys, edges, k) \ Followed(keys, edges, s))
       /\ \A j \in 1..Len(s.queue) : \A i \in Into(keys, edges, s.queue[j]) :
             \E h \in 1..(j - 1) : s.queue[h] = edges[i][1]

SortInv(keys, edges, s) ==
    /\ SortShape(keys, edges, s)
    /\ SortWaits(keys, edges, s)
    /\ \E place : Places(keys, edges, s, place)
    /\ SortOrder(keys, edges, s)

LEMMA UnsortedInv ==
    ASSUME NEW Key, NEW keys \in Seq(Key), NEW edges \in Seq(Key \X Key)
    PROVE  SortInv(keys, edges, Unsorted(keys, edges))
<1> DEFINE s == Unsorted(keys, edges)
<1>1. /\ s \in Sorts(keys)
      /\ \A k : /\ Into(keys, edges, k) \subseteq DOMAIN edges
                /\ IsFiniteSet(Into(keys, edges, k)) /\ Cardinality(Into(keys, edges, k)) \in Nat
  BY UnsortedTyped
<1>2. s.seeded = 0 /\ s.queue = <<>> /\ s.taken = 0 /\ s.at = 1 /\ Len(s.queue) = 0 /\ Len(keys) \in Nat /\ Len(edges) \in Nat
  BY DEF Unsorted
<1>3. \A k \in ToSet(keys) : s.indegree[k] = Cardinality(Into(keys, edges, k))
  BY DEF Unsorted
<1> HIDE DEF s
<1>4. SortShape(keys, edges, s)
  BY <1>1, <1>2, <1>3 DEF SortShape
<1>5. \A k : Cardinality(Into(keys, edges, k)) = 0 <=> Into(keys, edges, k) = {}
  BY <1>1, FS_EmptySet
<1>6. SortWaits(keys, edges, s)
  BY <1>1, <1>2, <1>3, <1>5 DEF SortWaits, Queued
<1>7. Places(keys, edges, s, <<>>)
  <2>1. <<>> \in [1..0 -> 1..Len(keys)]
    OBVIOUS
  <2> QED BY <1>2, <2>1 DEF Places
<1>8. Followed(keys, edges, s) = {}
  BY <1>2 DEF Followed
<1>9. SortOrder(keys, edges, s)
  <2>1. \A k : Into(keys, edges, k) \ {} = Into(keys, edges, k)
    OBVIOUS
  <2> QED BY <1>2, <1>3, <1>8, <2>1 DEF SortOrder
<1> QED BY <1>4, <1>6, <1>7, <1>9 DEF SortInv, s

(* A key that no edge leads to joins the queue.                            *)
LEMMA SeedKeyInv ==
    ASSUME NEW Key, NEW keys \in Seq(Key), NEW edges \in Seq(Key \X Key), NEW s,
           SortInv(keys, edges, s), s.seeded < Len(keys)
    PROVE  SortInv(keys, edges, SeedKey(keys, s))
<1> DEFINE t == SeedKey(keys, s)
           key == keys[s.seeded + 1]
           L == Len(s.queue)
           Card(k) == Cardinality(Into(keys, edges, k))
<1>1. SortShape(keys, edges, s) /\ SortWaits(keys, edges, s) /\ SortOrder(keys, edges, s)
  BY DEF SortInv
<1>2. PICK place : Places(keys, edges, s, place)
  BY DEF SortInv
<1>3. /\ s \in Sorts(keys) /\ s.seeded \in Nat /\ s.queue \in Seq(ToSet(keys)) /\ L \in Nat
      /\ Len(keys) \in Nat /\ Len(edges) \in Nat
  BY <1>1 DEF SortShape, Sorts
<1>4. s.taken = 0 /\ s.at = 1 /\ \A k \in ToSet(keys) : s.indegree[k] = Card(k)
  BY <1>1 DEF SortShape
<1>5. keys \in Seq(ToSet(keys)) /\ key \in ToSet(keys) /\ s.seeded + 1 \in 1..Len(keys)
  <2>1. s.seeded + 1 \in 1..Len(keys)
    BY <1>3
  <2> QED BY <2>1, OwnSeq
<1>6. \A k : IsFiniteSet(Into(keys, edges, k)) /\ Card(k) \in Nat /\ (Card(k) = 0 <=> Into(keys, edges, k) = {})
  BY UnsortedTyped, FS_EmptySet
<1>7. t \in Sorts(keys)
  <2>1. After(keys, edges, s) = t
    BY <1>3, TurnKinds
  <2>2. After(keys, edges, s) \in Sorts(keys)
    BY <1>3, <1>5, TurnTyped
  <2> QED BY <2>1, <2>2
<1>8. t.seeded = s.seeded + 1 /\ t.taken = 0 /\ t.at = 1 /\ t.indegree = s.indegree
      /\ t.queue = (IF Into(keys, edges, key) = {} THEN Append(s.queue, key) ELSE s.queue)
  <2>1. t.seeded = s.seeded + 1 /\ t.taken = s.taken /\ t.at = s.at /\ t.indegree = s.indegree
        /\ t.queue = (IF s.indegree[key] = 0 THEN Append(s.queue, key) ELSE s.queue)
    BY DEF SeedKey
  <2> HIDE DEF t
  <2> QED BY <1>4, <1>5, <1>6, <2>1
<1> HIDE DEF t, key, Card
<1>9. SortShape(keys, edges, t)
  BY <1>3, <1>4, <1>7, <1>8 DEF SortShape, Sorts, Card
<1>10. Followed(keys, edges, s) = {} /\ Followed(keys, edges, t) = {}
  <2>1. \A i \in DOMAIN edges : ~(i < 1) /\ \A h \in 1..Len(s.queue) : ~(h <= 0)
    OBVIOUS
  <2>2. \A h \in 1..Len(t.queue) : ~(h <= 0)
    OBVIOUS
  <2> QED BY <1>4, <1>8, <2>1, <2>2 DEF Followed
<1>11. CASE Into(keys, edges, key) # {}
  <2>1. t.queue = s.queue
    BY <1>8, <1>11
  <2>2. SortWaits(keys, edges, t)
    <3>1. \A i \in 1..t.seeded : i \in 1..s.seeded \/ keys[i] = key
      BY <1>3, <1>8 DEF key
    <3> QED BY <1>1, <1>8, <1>11, <2>1, <3>1 DEF SortWaits, Queued
  <2>3. Places(keys, edges, t, place)
    <3>1. \A n : n <= s.seeded /\ n \in 1..Len(keys) => n <= t.seeded
      BY <1>3, <1>8
    <3> QED BY <1>2, <2>1, <3>1 DEF Places
  <2>4. SortOrder(keys, edges, t)
    BY <1>1, <1>8, <1>10, <2>1 DEF SortOrder
  <2> QED BY <1>9, <2>2, <2>3, <2>4 DEF SortInv, t
<1>12. CASE Into(keys, edges, key) = {}
  <2>1. /\ t.queue = Append(s.queue, key) /\ Len(t.queue) = L + 1 /\ t.queue[L + 1] = key
        /\ \A h \in 1..L : t.queue[h] = s.queue[h] /\ s.queue[h] \in ToSet(keys)
    BY <1>3, <1>5, <1>8, <1>12
  <2>2. \A k : Queued(t, k) <=> Queued(s, k) \/ k = key
    <3>1. 1..(L + 1) = (1..L) \cup {L + 1}
      BY <1>3
    <3> QED BY <2>1, <3>1 DEF Queued
  <2>3. SortWaits(keys, edges, t)
    <3>1. \A i \in 1..t.seeded : i \in 1..s.seeded \/ keys[i] = key
      BY <1>3, <1>8 DEF key
    <3> QED BY <1>1, <1>8, <1>12, <2>2, <3>1 DEF SortWaits
  <2> DEFINE more == [i \in 1..(L + 1) |-> IF i = L + 1 THEN s.seeded + 1 ELSE place[i]]
  <2>4. Places(keys, edges, t, more)
    <3>1. /\ place \in [1..L -> 1..Len(keys)]
          /\ \A i \in 1..L : /\ s.queue[i] = keys[place[i]]
                             /\ Into(keys, edges, s.queue[i]) = {} => place[i] <= s.seeded
                             /\ \A j \in 1..L : place[i] = place[j] => i = j
      BY <1>2 DEF Places
    <3>2. more[L + 1] = s.seeded + 1 /\ \A i \in 1..L : more[i] = place[i] /\ i # L + 1 /\ place[i] \in 1..Len(keys)
      BY <1>3, <3>1
    <3>3. more \in [1..(L + 1) -> 1..Len(keys)]
      BY <1>3, <1>5, <3>1
    <3>4. \A i \in 1..(L + 1) : i \in 1..L \/ i = L + 1
      BY <1>3
    <3> HIDE DEF more, L
    <3>5. ASSUME NEW i \in 1..(L + 1)
          PROVE  /\ t.queue[i] = keys[more[i]]
                 /\ Into(keys, edges, t.queue[i]) = {} => more[i] <= t.seeded
      <4>1. CASE i = L + 1
        BY <1>3, <1>8, <2>1, <3>2, <4>1 DEF key
      <4>2. CASE i \in 1..L
        <5>1. t.queue[i] = s.queue[i] /\ more[i] = place[i]
          BY <2>1, <3>2, <4>2
        <5>2. s.queue[i] = keys[place[i]] /\ (Into(keys, edges, s.queue[i]) = {} => place[i] <= s.seeded)
          BY <3>1, <4>2
        <5>3. place[i] \in Nat /\ t.seeded = s.seeded + 1 /\ s.seeded \in Nat
          BY <1>3, <1>8, <3>2, <4>2
        <5>4. place[i] <= s.seeded => place[i] <= t.seeded
          BY <5>3
        <5> QED BY <5>1, <5>2, <5>4
      <4> QED BY <3>4, <4>1, <4>2
    <3>6. \A i \in 1..L : more[i] # s.seeded + 1
      <4>1. ASSUME NEW i \in 1..L, place[i] = s.seeded + 1 PROVE FALSE
        <5>1. s.queue[i] = key
          BY <3>1, <4>1 DEF key
        <5>2. place[i] <= s.seeded
          BY <1>12, <3>1, <5>1
        <5> QED BY <1>3, <4>1, <5>2
      <4> QED BY <3>2, <4>1
    <3>7. ASSUME NEW i \in 1..(L + 1), NEW j \in 1..(L + 1), more[i] = more[j] PROVE i = j
      BY <3>1, <3>2, <3>4, <3>6, <3>7
    <3> QED BY <2>1, <3>3, <3>5, <3>7 DEF Places
  <2>5. SortOrder(keys, edges, t)
    <3> SUFFICES ASSUME Distinct(keys) PROVE SortOrder(keys, edges, t)
      BY DEF SortOrder
    <3>1. \A k \in ToSet(keys) : t.indegree[k] = Cardinality(Into(keys, edges, k) \ Followed(keys, edges, t))
      BY <1>1, <1>8, <1>10 DEF SortOrder
    <3>2. ASSUME NEW j \in 1..(L + 1), NEW i \in Into(keys, edges, t.queue[j])
          PROVE  \E h \in 1..(j - 1) : t.queue[h] = edges[i][1]
      <4>1. j \in 1..L
        BY <1>3, <1>12, <2>1, <3>2
      <4>2. PICK h \in 1..(j - 1) : s.queue[h] = edges[i][1]
        BY <1>1, <2>1, <4>1, <3>2 DEF SortOrder
      <4>3. h \in 1..L
        BY <1>3, <4>1
      <4> QED BY <2>1, <4>2, <4>3
    <3> QED BY <2>1, <3>1, <3>2 DEF SortOrder
  <2> HIDE DEF more
  <2> QED BY <1>9, <2>3, <2>4, <2>5 DEF SortInv, t
<1> QED BY <1>11, <1>12

LEMMA CountLess ==
    ASSUME NEW S, IsFiniteSet(S), NEW T, NEW x \in S \ T
    PROVE  Cardinality(S \ (T \cup {x})) = Cardinality(S \ T) - 1
<1>1. IsFiniteSet(S \ T)
  BY FS_Difference
<1>2. S \ (T \cup {x}) = (S \ T) \ {x}
  OBVIOUS
<1>3. Cardinality((S \ T) \ {x}) = Cardinality(S \ T) - 1
  BY <1>1, FS_RemoveElement
<1> QED BY <1>2, <1>3

(* In a queue of distinct keys every node stands once.                     *)
LEMMA QueuedOnce ==
    ASSUME NEW keys, NEW edges, NEW s, NEW place, Places(keys, edges, s, place), Distinct(keys),
           NEW i \in 1..Len(s.queue), NEW j \in 1..Len(s.queue), s.queue[i] = s.queue[j], NEW Key, keys \in Seq(Key)
    PROVE  i = j
<1>1. place[i] \in 1..Len(keys) /\ place[j] \in 1..Len(keys)
  BY DEF Places
<1>3. keys[place[i]] = keys[place[j]]
  BY DEF Places
<1>4. DOMAIN keys = 1..Len(keys)
  OBVIOUS
<1>2. place[i] = place[j]
  BY <1>1, <1>3, <1>4 DEF Distinct
<1> QED BY <1>2 DEF Places

(* Taking the node in front, or passing an edge of another, follows none.  *)
LEMMA PassInv ==
    ASSUME NEW Key, NEW keys \in Seq(Key), NEW edges \in Seq(Key \X Key), NEW s, NEW t,
           SortInv(keys, edges, s), s.seeded >= Len(keys), s.taken < Len(s.queue),
           \/ t = TakeNode(s) /\ s.at > Len(edges)
           \/ /\ t = PassEdge(s) /\ ~(s.at > Len(edges))
              /\ ~(Known(keys, edges[s.at]) /\ edges[s.at][1] = s.queue[s.taken + 1])
    PROVE  SortInv(keys, edges, t)
<1>1. SortShape(keys, edges, s) /\ SortWaits(keys, edges, s) /\ SortOrder(keys, edges, s)
  BY DEF SortInv
<1>2. PICK place : Places(keys, edges, s, place)
  BY DEF SortInv
<1>3. /\ s \in Sorts(keys) /\ s.seeded \in Nat /\ s.queue \in Seq(ToSet(keys)) /\ Len(s.queue) \in Nat
      /\ s.taken \in Nat /\ Len(keys) \in Nat /\ Len(edges) \in Nat /\ s.at \in 1..(Len(edges) + 1)
      /\ s.indegree \in [ToSet(keys) -> Int]
  BY <1>1 DEF SortShape, Sorts
<1>4. t.seeded = s.seeded /\ t.queue = s.queue /\ t.indegree = s.indegree
  BY DEF TakeNode, PassEdge
<1>5. t \in Sorts(keys) /\ t.taken <= Len(s.queue) /\ t.at \in 1..(Len(edges) + 1)
  <2>1. CASE t = TakeNode(s) /\ s.at > Len(edges)
    BY <1>3, <2>1 DEF TakeNode, Sorts
  <2>2. CASE t = PassEdge(s) /\ ~(s.at > Len(edges))
    BY <1>3, <2>2 DEF PassEdge, Sorts
  <2> QED BY <2>1, <2>2
<1>6. SortShape(keys, edges, t)
  <2>1. s.seeded <= Len(keys) /\ ~(s.seeded < Len(keys))
    BY <1>1, <1>3 DEF SortShape
  <2> QED BY <1>4, <1>5, <2>1 DEF SortShape
<1>7. SortWaits(keys, edges, t)
  BY <1>1, <1>4 DEF SortWaits, Queued
<1>8. Places(keys, edges, t, place)
  BY <1>2, <1>4 DEF Places
<1>9. Followed(keys, edges, t) = Followed(keys, edges, s)
  <2>1. CASE t = TakeNode(s) /\ s.at > Len(edges)
    <3>1. t.taken = s.taken + 1 /\ t.at = 1
      BY <2>1 DEF TakeNode
    <3>2. ASSUME NEW i \in DOMAIN edges, NEW h \in 1..Len(s.queue)
          PROVE  (h <= t.taken \/ (h = t.taken + 1 /\ i < t.at)) <=>
                 (h <= s.taken \/ (h = s.taken + 1 /\ i < s.at))
      <4>1. i \in 1..Len(edges)
        OBVIOUS
      <4>2. h \in Nat /\ i < s.at /\ ~(i < t.at)
        BY <1>3, <2>1, <3>1, <4>1
      <4>3. h <= t.taken <=> h <= s.taken \/ h = s.taken + 1
        BY <1>3, <3>1, <4>2
      <4> QED BY <4>2, <4>3
    <3> QED BY <1>4, <3>2 DEF Followed
  <2>2. CASE /\ t = PassEdge(s) /\ ~(s.at > Len(edges))
             /\ ~(Known(keys, edges[s.at]) /\ edges[s.at][1] = s.queue[s.taken + 1])
    <3>1. t.taken = s.taken /\ t.at = s.at + 1
      BY <2>2 DEF PassEdge
    <3>2. ASSUME NEW i \in DOMAIN edges, NEW h \in 1..Len(s.queue), Known(keys, edges[i]), s.queue[h] = edges[i][1]
          PROVE  (h <= t.taken \/ (h = t.taken + 1 /\ i < t.at)) <=>
                 (h <= s.taken \/ (h = s.taken + 1 /\ i < s.at))
      <4>1. i \in 1..Len(edges)
        OBVIOUS
      <4>2. ~(h = s.taken + 1 /\ i = s.at)
        BY <2>2, <3>2
      <4> QED BY <1>3, <3>1, <4>1, <4>2
    <3> QED BY <1>4, <3>2 DEF Followed
  <2> QED BY <2>1, <2>2
<1>10. SortOrder(keys, edges, t)
  BY <1>1, <1>4, <1>9 DEF SortOrder
<1> QED BY <1>6, <1>7, <1>8, <1>10 DEF SortInv

(* Following an edge, its target joins the queue when it waits for none.   *)
LEMMA FollowInv ==
    ASSUME NEW Key, NEW keys \in Seq(Key), NEW edges \in Seq(Key \X Key), NEW s,
           SortInv(keys, edges, s), s.seeded >= Len(keys), s.taken < Len(s.queue), ~(s.at > Len(edges)),
           Known(keys, edges[s.at]), edges[s.at][1] = s.queue[s.taken + 1]
    PROVE  SortInv(keys, edges, FollowEdge(edges, s))
<1> DEFINE t == FollowEdge(edges, s)
           e == edges[s.at]
           next == e[2]
           L == Len(s.queue)
<1>1. SortShape(keys, edges, s) /\ SortWaits(keys, edges, s) /\ SortOrder(keys, edges, s)
  BY DEF SortInv
<1>2. PICK place : Places(keys, edges, s, place)
  BY DEF SortInv
<1>3. /\ s \in Sorts(keys) /\ s.seeded \in Nat /\ s.queue \in Seq(ToSet(keys)) /\ L \in Nat
      /\ s.taken \in Nat /\ Len(keys) \in Nat /\ Len(edges) \in Nat /\ s.at \in 1..Len(edges)
      /\ s.indegree \in [ToSet(keys) -> Int]
  BY <1>1 DEF SortShape, Sorts
<1>4. next \in ToSet(keys) /\ s.at \in DOMAIN edges /\ s.at \in Into(keys, edges, next) /\ s.taken + 1 \in 1..L
  <2>1. next \in ToSet(keys)
    BY DEF Known
  <2>2. s.at \in DOMAIN edges
    BY <1>3
  <2>3. s.at \in Into(keys, edges, next)
    BY <2>2 DEF Into
  <2>4. s.taken + 1 \in 1..L
    BY <1>3
  <2> QED BY <2>1, <2>2, <2>3, <2>4
<1>5. /\ t.seeded = s.seeded /\ t.taken = s.taken /\ t.at = s.at + 1
      /\ t.indegree = [s.indegree EXCEPT ![next] = @ - 1]
      /\ t.queue = (IF s.indegree[next] = 1 THEN Append(s.queue, next) ELSE s.queue)
  BY DEF FollowEdge
<1>6. t \in Sorts(keys)
  <2>1. After(keys, edges, s) = t
    BY <1>3, TurnKinds
  <2>2. After(keys, edges, s) \in Sorts(keys)
    BY <1>3, OwnSeq, TurnTyped
  <2> QED BY <2>1, <2>2
<1>7. keys \in Seq(ToSet(keys))
  BY OwnSeq
<1>8. /\ t.indegree[next] = s.indegree[next] - 1 /\ s.indegree[next] \in Int
      /\ \A k \in ToSet(keys) : k # next => t.indegree[k] = s.indegree[k]
  BY <1>3, <1>4, <1>5
<1>9. \A i \in DOMAIN edges : i \in 1..Len(edges)
  OBVIOUS
<1> HIDE DEF t, next
<1>10. \A k : k # next => s.at \notin Into(keys, edges, k)
  BY DEF Into, next
<1>11. \A k : IsFiniteSet(Into(keys, edges, k))
  BY UnsortedTyped
<1>12. IF s.indegree[next] = 1
       THEN /\ t.queue = Append(s.queue, next) /\ Len(t.queue) = L + 1 /\ t.queue[L + 1] = next
            /\ \A h \in 1..L : t.queue[h] = s.queue[h]
            /\ ~Queued(s, next)
       ELSE t.queue = s.queue
  <2>1. s.indegree[next] = 1 => ~Queued(s, next)
    BY <1>1, <1>4 DEF SortWaits
  <2>2. ASSUME NEW q, q = Append(s.queue, next)
        PROVE  Len(q) = L + 1 /\ q[L + 1] = next /\ \A h \in 1..L : q[h] = s.queue[h]
    BY <1>3, <1>4, <2>2
  <2> HIDE DEF L
  <2> QED BY <1>5, <2>1, <2>2
<1>13. \A h \in 1..L : h \in 1..Len(t.queue) /\ t.queue[h] = s.queue[h]
  <2>1. CASE s.indegree[next] = 1
    <3> HIDE DEF L
    <3>1. L \in Nat /\ Len(t.queue) = L + 1
      BY <1>3, <1>12, <2>1
    <3> QED BY <1>12, <2>1, <3>1
  <2>2. CASE s.indegree[next] # 1
    BY <1>12, <2>2
  <2> QED BY <2>1, <2>2
<1>14. \A h \in 1..Len(t.queue) : h \in 1..L \/ (h = L + 1 /\ s.indegree[next] = 1 /\ t.queue[h] = next)
  BY <1>3, <1>12
<1>15. Len(t.queue) >= L /\ Len(t.queue) \in Nat
  BY <1>3, <1>12
<1>16. SortShape(keys, edges, t)
  <2>1. t.seeded <= Len(keys)
    BY <1>1, <1>5 DEF SortShape
  <2>2. ~(t.seeded < Len(keys))
    BY <1>3, <1>5
  <2>3. t.at \in 1..(Len(edges) + 1)
    BY <1>3, <1>5
  <2>4. t.taken <= Len(t.queue)
    <3> HIDE DEF L
    <3>1. t.taken = s.taken /\ s.taken \in Nat /\ s.taken + 1 \in 1..L /\ L \in Nat
      BY <1>3, <1>4, <1>5
    <3> QED BY <1>15, <3>1
  <2> QED BY <1>6, <2>1, <2>2, <2>3, <2>4 DEF SortShape
<1>17. \A k : Queued(t, k) <=> Queued(s, k) \/ (k = next /\ s.indegree[next] = 1)
  <2>1. ASSUME NEW k, Queued(s, k) PROVE Queued(t, k)
    BY <1>13, <2>1 DEF Queued
  <2>2. ASSUME NEW k, Queued(t, k) PROVE Queued(s, k) \/ (k = next /\ s.indegree[next] = 1)
    BY <1>13, <1>14, <2>2 DEF Queued
  <2>3. s.indegree[next] = 1 => Queued(t, next)
    <3>1. L + 1 \in 1..(L + 1)
      BY <1>3
    <3> QED BY <1>12, <3>1 DEF Queued
  <2> QED BY <2>1, <2>2, <2>3
<1>18. SortWaits(keys, edges, t)
  <2>1. ASSUME NEW k \in ToSet(keys), Into(keys, edges, k) # {} PROVE Queued(t, k) <=> t.indegree[k] <= 0
    <3>1. Queued(s, k) <=> s.indegree[k] <= 0
      BY <1>1, <2>1 DEF SortWaits
    <3>2. CASE k = next
      <4>1. t.indegree[k] = s.indegree[k] - 1 /\ s.indegree[k] \in Int
        BY <1>8, <3>2
      <4>2. Queued(t, k) <=> (s.indegree[k] <= 0 \/ s.indegree[k] = 1)
        BY <1>17, <3>1, <3>2
      <4> QED BY <4>1, <4>2
    <3>3. CASE k # next
      BY <1>8, <1>17, <3>1, <3>3
    <3> QED BY <3>2, <3>3
  <2>2. ASSUME NEW k \in ToSet(keys), Into(keys, edges, k) = {} PROVE t.indegree[k] = 0
    <3>1. k # next
      BY <1>4, <2>2
    <3> QED BY <1>1, <1>8, <2>2, <3>1 DEF SortWaits
  <2>3. ASSUME NEW i \in 1..t.seeded, Into(keys, edges, keys[i]) = {} PROVE Queued(t, keys[i])
    <3>1. Queued(s, keys[i])
      BY <1>1, <1>5, <2>3 DEF SortWaits
    <3> QED BY <1>17, <3>1
  <2> QED BY <2>1, <2>2, <2>3 DEF SortWaits
<1>19. /\ place \in [1..L -> 1..Len(keys)]
       /\ \A i \in 1..L : /\ s.queue[i] = keys[place[i]]
                          /\ Into(keys, edges, s.queue[i]) = {} => place[i] <= s.seeded
                          /\ \A j \in 1..L : place[i] = place[j] => i = j
  BY <1>2 DEF Places
<1>20. \E more : Places(keys, edges, t, more)
  <2>1. CASE s.indegree[next] # 1
    <3>1. t.queue = s.queue /\ t.seeded = s.seeded
      BY <1>5, <1>12, <2>1
    <3>2. Places(keys, edges, t, place)
      BY <1>2, <3>1 DEF Places
    <3> QED BY <3>2
  <2>2. CASE s.indegree[next] = 1
    <3>1. PICK p \in 1..Len(keys) : keys[p] = next
      <4>1. DOMAIN keys = 1..Len(keys)
        OBVIOUS
      <4>2. \E p \in DOMAIN keys : keys[p] = next
        BY <1>4 DEF ToSet
      <4> QED BY <4>1, <4>2
    <3> DEFINE more == [i \in 1..(L + 1) |-> IF i = L + 1 THEN p ELSE place[i]]
    <3>00. L \in Nat
      BY <1>3
    <3> HIDE DEF L
    <3>0. L \in Nat /\ L + 1 \in 1..(L + 1) /\ \A i \in 1..L : i \in 1..(L + 1) /\ i # L + 1
      BY <3>00
    <3>2. more[L + 1] = p /\ \A i \in 1..L : more[i] = place[i] /\ i # L + 1 /\ place[i] \in 1..Len(keys)
      BY <1>19, <3>0
    <3>4. \A i \in 1..(L + 1) : i \in 1..L \/ i = L + 1
      BY <3>0
    <3>3. more \in [1..(L + 1) -> 1..Len(keys)]
      BY <1>19, <3>1, <3>4
    <3> HIDE DEF more
    <3>5. Len(t.queue) = L + 1 /\ t.queue[L + 1] = next
      BY <1>12, <2>2
    <3>6. Into(keys, edges, next) # {}
      BY <1>4
    <3>7. ASSUME NEW i \in 1..(L + 1)
          PROVE  /\ t.queue[i] = keys[more[i]]
                 /\ Into(keys, edges, t.queue[i]) = {} => more[i] <= t.seeded
      <4>1. CASE i = L + 1
        BY <3>1, <3>2, <3>5, <3>6, <4>1
      <4>2. CASE i \in 1..L
        <5>1. t.queue[i] = s.queue[i] /\ more[i] = place[i]
          BY <1>13, <3>2, <4>2
        <5>2. s.queue[i] = keys[place[i]] /\ (Into(keys, edges, s.queue[i]) = {} => place[i] <= s.seeded)
          BY <1>19, <4>2
        <5> QED BY <1>5, <5>1, <5>2
      <4> QED BY <3>4, <4>1, <4>2
    <3>8. \A i \in 1..L : more[i] # p
      <4>1. ASSUME NEW i \in 1..L, place[i] = p PROVE FALSE
        <5>1. s.queue[i] = next
          BY <1>19, <3>1, <4>1
        <5>2. ~Queued(s, next)
          BY <1>12, <2>2
        <5> QED BY <4>1, <5>1, <5>2 DEF Queued, L
      <4> QED BY <3>2, <4>1
    <3>9. ASSUME NEW i \in 1..(L + 1), NEW j \in 1..(L + 1), more[i] = more[j] PROVE i = j
      BY <1>19, <3>2, <3>4, <3>8, <3>9
    <3>10. Places(keys, edges, t, more)
      BY <3>3, <3>5, <3>7, <3>9 DEF Places
    <3> QED BY <3>10
  <2> QED BY <2>1, <2>2
<1>21. SortOrder(keys, edges, t)
  <2> SUFFICES ASSUME Distinct(keys) PROVE SortOrder(keys, edges, t)
    BY DEF SortOrder
  <2>1. s.at \notin Followed(keys, edges, s)
    <3>1. ASSUME NEW h \in 1..L, s.queue[h] = edges[s.at][1], h <= s.taken \/ (h = s.taken + 1 /\ s.at < s.at)
          PROVE  FALSE
      <4>1. h <= s.taken
        BY <1>3, <3>1
      <4>2. h = s.taken + 1
        BY <1>2, <1>4, <3>1, QueuedOnce
      <4> QED BY <1>3, <4>1, <4>2
    <3> QED BY <3>1 DEF Followed
  <2>2. Followed(keys, edges, t) = Followed(keys, edges, s) \cup {s.at}
    <3>1. ASSUME NEW i \in DOMAIN edges, i \in Followed(keys, edges, t) PROVE i \in Followed(keys, edges, s) \cup {s.at}
      <4>1. PICK h \in 1..Len(t.queue) :
               t.queue[h] = edges[i][1] /\ (h <= t.taken \/ (h = t.taken + 1 /\ i < t.at))
        BY <3>1 DEF Followed
      <4>2. h \in 1..L /\ Known(keys, edges[i])
        BY <1>3, <1>4, <1>5, <1>15, <3>1, <4>1 DEF Followed
      <4>3. s.queue[h] = edges[i][1]
        BY <1>13, <4>1, <4>2
      <4>4. i = s.at \/ h <= s.taken \/ (h = s.taken + 1 /\ i < s.at)
        BY <1>3, <1>5, <1>9, <4>1, <4>2
      <4> QED BY <4>2, <4>3, <4>4 DEF Followed
    <3>2. ASSUME NEW i \in DOMAIN edges, i \in Followed(keys, edges, s) PROVE i \in Followed(keys, edges, t)
      <4>1. PICK h \in 1..L : s.queue[h] = edges[i][1] /\ (h <= s.taken \/ (h = s.taken + 1 /\ i < s.at))
        BY <3>2 DEF Followed
      <4>2. h \in 1..Len(t.queue) /\ t.queue[h] = edges[i][1] /\ Known(keys, edges[i])
        BY <1>13, <3>2, <4>1 DEF Followed
      <4>3. h <= t.taken \/ (h = t.taken + 1 /\ i < t.at)
        BY <1>3, <1>5, <1>9, <4>1
      <4> QED BY <4>2, <4>3 DEF Followed
    <3>3. s.at \in Followed(keys, edges, t)
      <4>1. s.taken + 1 \in 1..Len(t.queue) /\ t.queue[s.taken + 1] = edges[s.at][1]
        BY <1>4, <1>13
      <4>2. s.taken + 1 = t.taken + 1 /\ s.at < t.at
        BY <1>3, <1>5
      <4> QED BY <1>4, <4>1, <4>2 DEF Followed
    <3>4. Followed(keys, edges, t) \subseteq DOMAIN edges /\ Followed(keys, edges, s) \subseteq DOMAIN edges
      BY DEF Followed
    <3> QED BY <3>1, <3>2, <3>3, <3>4
  <2>3. ASSUME NEW k \in ToSet(keys)
        PROVE  t.indegree[k] = Cardinality(Into(keys, edges, k) \ Followed(keys, edges, t))
    <3>1. s.indegree[k] = Cardinality(Into(keys, edges, k) \ Followed(keys, edges, s))
      BY <1>1 DEF SortOrder
    <3>2. CASE k = next
      <4>1. s.at \in Into(keys, edges, k) \ Followed(keys, edges, s)
        BY <1>4, <2>1, <3>2
      <4>2. Cardinality(Into(keys, edges, k) \ (Followed(keys, edges, s) \cup {s.at})) =
               Cardinality(Into(keys, edges, k) \ Followed(keys, edges, s)) - 1
        BY <1>11, <4>1, CountLess
      <4> QED BY <1>8, <2>2, <3>1, <3>2, <4>2
    <3>3. CASE k # next
      <4>1. Into(keys, edges, k) \ Followed(keys, edges, t) = Into(keys, edges, k) \ Followed(keys, edges, s)
        BY <1>10, <2>2, <3>3
      <4> QED BY <1>8, <3>1, <3>3, <4>1
    <3> QED BY <3>2, <3>3
  <2>4. ASSUME NEW j \in 1..Len(t.queue), NEW i \in Into(keys, edges, t.queue[j])
        PROVE  \E h \in 1..(j - 1) : t.queue[h] = edges[i][1]
    <3>1. CASE j \in 1..L
      <4>1. t.queue[j] = s.queue[j]
        BY <1>13, <3>1
      <4>2. PICK h \in 1..(j - 1) : s.queue[h] = edges[i][1]
        BY <1>1, <2>4, <3>1, <4>1 DEF SortOrder
      <4>3. h \in 1..L
        BY <1>3, <3>1
      <4> QED BY <1>13, <4>2, <4>3
    <3>2. CASE j = L + 1 /\ s.indegree[next] = 1 /\ t.queue[j] = next
      <4>1. t.indegree[next] = 0
        BY <1>8, <3>2
      <4>2. Cardinality(Into(keys, edges, next) \ Followed(keys, edges, t)) = 0
        BY <1>4, <2>3, <4>1
      <4>3. IsFiniteSet(Into(keys, edges, next) \ Followed(keys, edges, t))
        BY <1>11, FS_Difference
      <4>4. Into(keys, edges, next) \ Followed(keys, edges, t) = {}
        BY <4>2, <4>3, FS_EmptySet
      <4>5. i \in Followed(keys, edges, t)
        BY <2>4, <3>2, <4>4
      <4>6. PICK h \in 1..Len(t.queue) :
               t.queue[h] = edges[i][1] /\ (h <= t.taken \/ (h = t.taken + 1 /\ i < t.at))
        BY <4>5 DEF Followed
      <4>7. h \in 1..(j - 1)
        BY <1>3, <1>4, <1>5, <3>2, <4>6
      <4> QED BY <4>6, <4>7
    <3> QED BY <1>14, <3>1, <3>2
  <2> QED BY <2>3, <2>4 DEF SortOrder
<1> QED BY <1>16, <1>18, <1>20, <1>21 DEF SortInv, t

LEMMA TimesStep == \A a, e \in Nat : a * e \in Nat /\ (a + 1) * e = a * e + e
OBVIOUS

LEMMA TimesMonotone ==
    ASSUME NEW a \in Nat, NEW b \in Nat, NEW e \in Nat, a <= b
    PROVE  a * e <= b * e
<1>1. b - a \in Nat /\ b = a + (b - a)
  OBVIOUS
<1>2. \A c \in Nat : (a + c) * e = a * e + c * e /\ c * e \in Nat /\ a * e \in Nat
  OBVIOUS
<1>3. b * e = a * e + (b - a) * e /\ (b - a) * e \in Nat /\ a * e \in Nat
  BY <1>1, <1>2
<1> QED BY <1>3

LEMMA UpTo == \A n \in Nat : IsFiniteSet(1..n) /\ Cardinality(1..n) = n
<1> TAKE n \in Nat
<1>1. IsFiniteSet(1..n) /\ Cardinality(1..n) = IF 1 > n THEN 0 ELSE n - 1 + 1
  BY FS_Interval
<1> QED BY <1>1

(* The sort keeps its invariant, and until the queue is used up each turn  *)
(* counts.                                                                 *)
Progress(keys, edges, s) == s.seeded + s.taken * (Len(edges) + 1) + s.at - 1
Sorted(keys, s) == s.seeded >= Len(keys) /\ s.taken >= Len(s.queue)

LEMMA NextEdge ==
    ASSUME NEW keys, NEW edges, NEW s, NEW t, t.seeded = s.seeded, t.taken = s.taken, t.at = s.at + 1,
           s.seeded \in Nat, s.at \in Int, s.taken * (Len(edges) + 1) \in Nat
    PROVE  Progress(keys, edges, t) = Progress(keys, edges, s) + 1
<1>1. \A a, m, c \in Int : a + m + (c + 1) - 1 = (a + m + c - 1) + 1
  OBVIOUS
<1>2. Progress(keys, edges, t) = s.seeded + s.taken * (Len(edges) + 1) + (s.at + 1) - 1
  BY DEF Progress
<1>3. s.seeded \in Int /\ s.taken * (Len(edges) + 1) \in Int
  OBVIOUS
<1> QED BY <1>1, <1>2, <1>3 DEF Progress

LEMMA TurnInv ==
    ASSUME NEW Key, NEW keys \in Seq(Key), NEW edges \in Seq(Key \X Key), NEW s, SortInv(keys, edges, s)
    PROVE  LET t == Turn(keys, edges)[s]
           IN  /\ SortInv(keys, edges, t)
               /\ Sorted(keys, s) => t = s
               /\ ~Sorted(keys, s) => Progress(keys, edges, t) = Progress(keys, edges, s) + 1
<1> DEFINE t == Turn(keys, edges)[s]
<1>1. s \in Sorts(keys) /\ SortShape(keys, edges, s)
  BY DEF SortInv, SortShape
<1>2. t = After(keys, edges, s)
  BY <1>1 DEF Turn
<1>3. /\ s.seeded \in Nat /\ Len(s.queue) \in Nat /\ s.taken \in Nat /\ s.at \in 1..(Len(edges) + 1)
      /\ Len(keys) \in Nat /\ Len(edges) \in Nat
  BY <1>1 DEF SortShape, Sorts
<1> HIDE DEF t
<1>4. s.taken * (Len(edges) + 1) \in Nat /\ (s.taken + 1) * (Len(edges) + 1) = s.taken * (Len(edges) + 1) + Len(edges) + 1
  BY <1>3
<1>5. CASE s.seeded < Len(keys)
  <2>1. t = SeedKey(keys, s)
    BY <1>1, <1>2, <1>3, <1>5, TurnKinds
  <2>2. SortInv(keys, edges, t)
    BY <1>5, <2>1, SeedKeyInv
  <2>3. t.seeded = s.seeded + 1 /\ t.taken = s.taken /\ t.at = s.at
    BY <2>1 DEF SeedKey
  <2>4. Progress(keys, edges, t) = Progress(keys, edges, s) + 1
    <3>1. \A a, m, c \in Int : (a + 1) + m + c - 1 = (a + m + c - 1) + 1
      OBVIOUS
    <3>2. Progress(keys, edges, t) = (s.seeded + 1) + s.taken * (Len(edges) + 1) + s.at - 1
      BY <2>3 DEF Progress
    <3>3. s.seeded \in Int /\ s.at \in Int /\ s.taken * (Len(edges) + 1) \in Int
      BY <1>3, <1>4
    <3> QED BY <3>1, <3>2, <3>3 DEF Progress
  <2> QED BY <1>3, <1>5, <2>2, <2>4 DEF Sorted, t
<1>6. CASE Sorted(keys, s)
  <2>1. t = s
    BY <1>1, <1>2, <1>3, <1>6, TurnKinds DEF Sorted
  <2> QED BY <1>6, <2>1 DEF t
<1>7. CASE s.seeded >= Len(keys) /\ s.taken < Len(s.queue) /\ s.at > Len(edges)
  <2>1. t = TakeNode(s)
    BY <1>1, <1>2, <1>3, <1>7, TurnKinds
  <2>2. SortInv(keys, edges, t)
    BY <1>7, <2>1, PassInv
  <2>3. t.seeded = s.seeded /\ t.taken = s.taken + 1 /\ t.at = 1 /\ s.at = Len(edges) + 1
    BY <1>3, <1>7, <2>1 DEF TakeNode
  <2>4. Progress(keys, edges, t) = Progress(keys, edges, s) + 1
    BY <1>3, <1>4, <2>3 DEF Progress
  <2> QED BY <1>3, <1>7, <2>2, <2>4 DEF Sorted, t
<1>8. CASE /\ s.seeded >= Len(keys) /\ s.taken < Len(s.queue) /\ ~(s.at > Len(edges))
           /\ Known(keys, edges[s.at]) /\ edges[s.at][1] = s.queue[s.taken + 1]
  <2>1. t = FollowEdge(edges, s)
    BY <1>1, <1>2, <1>3, <1>8, TurnKinds
  <2>2. SortInv(keys, edges, t)
    BY <1>8, <2>1, FollowInv
  <2>3. t.seeded = s.seeded /\ t.taken = s.taken /\ t.at = s.at + 1
    BY <2>1 DEF FollowEdge
  <2>4. Progress(keys, edges, t) = Progress(keys, edges, s) + 1
    BY <1>3, <1>4, <2>3, NextEdge
  <2> QED BY <1>3, <1>8, <2>2, <2>4 DEF Sorted, t
<1>9. CASE /\ s.seeded >= Len(keys) /\ s.taken < Len(s.queue) /\ ~(s.at > Len(edges))
           /\ ~(Known(keys, edges[s.at]) /\ edges[s.at][1] = s.queue[s.taken + 1])
  <2>1. t = PassEdge(s)
    BY <1>1, <1>2, <1>3, <1>9, TurnKinds
  <2>2. SortInv(keys, edges, t)
    BY <1>9, <2>1, PassInv
  <2>3. t.seeded = s.seeded /\ t.taken = s.taken /\ t.at = s.at + 1
    BY <2>1 DEF PassEdge
  <2>4. Progress(keys, edges, t) = Progress(keys, edges, s) + 1
    BY <1>3, <1>4, <2>3, NextEdge
  <2> QED BY <1>3, <1>9, <2>2, <2>4 DEF Sorted, t
<1> QED BY <1>3, <1>5, <1>6, <1>7, <1>8, <1>9 DEF Sorted

(* No more nodes are queued than there are keys.                           *)
LEMMA QueueFits ==
    ASSUME NEW Key, NEW keys \in Seq(Key), NEW edges, NEW s, NEW place, Places(keys, edges, s, place),
           Len(s.queue) \in Nat
    PROVE  /\ Len(s.queue) <= Len(keys)
           /\ Len(s.queue) = Len(keys) => \A p \in 1..Len(keys) : \E i \in 1..Len(s.queue) : place[i] = p
<1> DEFINE S == 1..Len(s.queue)
           T == 1..Len(keys)
<1>1. Len(keys) \in Nat
  OBVIOUS
<1>2. IsFiniteSet(T) /\ Cardinality(T) = Len(keys) /\ Cardinality(S) = Len(s.queue)
  BY <1>1, UpTo
<1>3. place \in Injection(S, T)
  <2>1. place \in [S -> T] /\ \A i, j \in S : place[i] = place[j] => i = j
    BY DEF Places
  <2> HIDE DEF S, T
  <2> QED BY <2>1 DEF Injection, IsInjective
<1> HIDE DEF S, T
<1>4. Cardinality(S) <= Cardinality(T) /\ (Cardinality(S) = Cardinality(T) <=> place \in Surjection(S, T))
  BY <1>2, <1>3, FS_Injection
<1>5. place \in Surjection(S, T) => \A p \in T : \E i \in S : place[i] = p
  BY DEF Surjection
<1> QED BY <1>2, <1>4, <1>5 DEF S, T

(* After all its turns the sort is done, with its invariant.               *)
LEMMA SortEnds ==
    ASSUME NEW Key, NEW keys \in Seq(Key), NEW edges \in Seq(Key \X Key)
    PROVE  LET s == Sorting(keys, edges)[Turns(keys, edges)]
           IN  SortInv(keys, edges, s) /\ Sorted(keys, s)
<1> DEFINE f == Sorting(keys, edges)
           T == {n \in Nat : /\ SortInv(keys, edges, f[n])
                            /\ (Sorted(keys, f[n]) \/ Progress(keys, edges, f[n]) = n)}
<1>1. f[0] = Unsorted(keys, edges) /\ \A n \in Nat : f[n + 1] = Turn(keys, edges)[f[n]]
  <2> HIDE DEF T
  <2>1. LoopRuns(Sorts(keys), Unsorted(keys, edges), Turn(keys, edges), Sorting(keys, edges))
    BY SortingTurns
  <2> QED BY <2>1 DEF LoopRuns
<1> HIDE DEF f
<1>2. 0 \in T
  <2>1. SortInv(keys, edges, f[0])
    BY <1>1, UnsortedInv
  <2>2. f[0].seeded = 0 /\ f[0].taken = 0 /\ f[0].at = 1 /\ Len(edges) \in Nat
    BY <1>1 DEF Unsorted
  <2>3. Progress(keys, edges, f[0]) = 0
    BY <2>2 DEF Progress
  <2> QED BY <2>1, <2>3
<1>3. ASSUME NEW n \in Nat, n \in T PROVE n + 1 \in T
  <2> DEFINE s == f[n]
             t == f[n + 1]
  <2>1. SortInv(keys, edges, s) /\ (Sorted(keys, s) \/ Progress(keys, edges, s) = n) /\ t = Turn(keys, edges)[s]
    BY <1>1, <1>3
  <2> HIDE DEF s, t
  <2>2. /\ SortInv(keys, edges, t) /\ (Sorted(keys, s) => t = s)
        /\ ~Sorted(keys, s) => Progress(keys, edges, t) = Progress(keys, edges, s) + 1
    BY <2>1, TurnInv
  <2>3. SortInv(keys, edges, t) /\ (Sorted(keys, t) \/ Progress(keys, edges, t) = n + 1)
    BY <2>1, <2>2
  <2> QED BY <2>3 DEF t
<1> DEFINE N == Turns(keys, edges)
           s == f[N]
<1>4. N \in Nat
  BY DEF Turns
<1>5. SortInv(keys, edges, s) /\ (Sorted(keys, s) \/ Progress(keys, edges, s) = N)
  <2> HIDE DEF T
  <2>1. Nat \subseteq T
    BY <1>2, <1>3, SetInduction
  <2>2. N \in T
    BY <1>4, <2>1
  <2> HIDE DEF N
  <2> QED BY <2>2 DEF T
<1> HIDE DEF T, s
<1>6. PICK place : Places(keys, edges, s, place)
  BY <1>5 DEF SortInv
<1>7. /\ s.seeded \in Nat /\ Len(s.queue) \in Nat /\ s.taken \in Nat /\ s.at \in 1..(Len(edges) + 1)
      /\ Len(keys) \in Nat /\ Len(edges) \in Nat /\ s.seeded <= Len(keys)
      /\ s.seeded < Len(keys) => s.taken = 0 /\ s.at = 1
  BY <1>5 DEF SortInv, SortShape, Sorts
<1>8. Len(s.queue) <= Len(keys)
  BY <1>6, <1>7, QueueFits
<1>9. ASSUME ~Sorted(keys, s), Progress(keys, edges, s) = N PROVE FALSE
  <2> DEFINE E == Len(edges) + 1
             L == Len(keys)
  <2>1. E \in Nat /\ E >= 1 /\ L \in Nat /\ N = L + L * E /\ L * E \in Nat
    BY <1>7 DEF Turns
  <2>2. s.seeded + s.taken * E + s.at - 1 = N
    BY <1>9 DEF Progress
  <2>3. s.at \in Nat /\ s.at <= E /\ s.at >= 1
    BY <1>7
  <2> HIDE DEF E, N
  <2>4. CASE s.seeded < Len(keys)
    <3>1. s.taken = 0 /\ s.at = 1
      BY <1>7, <2>4
    <3> QED BY <1>7, <2>1, <2>2, <2>4, <3>1
  <2>5. CASE s.taken < Len(s.queue)
    <3> DEFINE m == s.taken * E
               M == L * E
    <3>1. s.taken + 1 <= L /\ s.taken \in Nat /\ s.taken + 1 \in Nat
      BY <1>7, <1>8, <2>5
    <3> HIDE DEF L
    <3>2. (s.taken + 1) * E <= M
      BY <2>1, <3>1, TimesMonotone
    <3>3. (s.taken + 1) * E = m + E /\ m \in Nat
      BY <2>1, <3>1, TimesStep
    <3>4. s.seeded <= L /\ s.seeded \in Nat
      BY <1>7 DEF L
    <3>5. N = L + M /\ M \in Nat /\ L \in Nat /\ E \in Nat /\ s.seeded + m + s.at - 1 = N
      BY <2>1, <2>2
    <3> HIDE DEF m, M
    <3>6. s.seeded + m + s.at - 1 <= L + m + E - 1 /\ m + E <= M
      BY <2>3, <3>2, <3>3, <3>4, <3>5
    <3> QED BY <2>3, <3>3, <3>4, <3>5, <3>6
  <2> QED BY <1>7, <1>9, <2>4, <2>5 DEF Sorted
<1> QED BY <1>5, <1>9 DEF s, f

(* The order that the sort gives is sound, whatever the keys and edges.    *)
THEOREM SortIsSound ==
    ASSUME NEW Key, NEW keys \in Seq(Key), NEW edges \in Seq(Key \X Key)
    PROVE  SoundOrder(keys, edges, topologicalOrder(keys, edges))
<1> DEFINE s == Sorting(keys, edges)[Turns(keys, edges)]
           order == topologicalOrder(keys, edges)
           L == Len(s.queue)
<1>1. SortInv(keys, edges, s) /\ Sorted(keys, s)
  BY SortEnds
<1>2. order = IF L # Len(keys) THEN keys ELSE s.queue
  BY DEF topologicalOrder
<1> HIDE DEF s, order
<1>3. PICK place : Places(keys, edges, s, place)
  BY <1>1 DEF SortInv
<1>4. /\ SortShape(keys, edges, s) /\ SortWaits(keys, edges, s) /\ SortOrder(keys, edges, s)
  BY <1>1 DEF SortInv
<1>5. /\ s.queue \in Seq(ToSet(keys)) /\ L \in Nat /\ Len(keys) \in Nat /\ s.seeded \in Nat /\ s.taken \in Nat
      /\ DOMAIN s.queue = 1..L /\ DOMAIN keys = 1..Len(keys) /\ DOMAIN edges = 1..Len(edges)
      /\ s.indegree \in [ToSet(keys) -> Int] /\ s.seeded = Len(keys) /\ s.taken = L
  BY <1>1, <1>4 DEF SortShape, Sorts, Sorted
<1>6. /\ L <= Len(keys)
      /\ L = Len(keys) => \A p \in 1..Len(keys) : \E i \in 1..L : place[i] = p
  <2>1. Len(s.queue) \in Nat
    BY <1>5
  <2> QED BY <1>3, <2>1, QueueFits DEF L
<1>7. /\ place \in [1..L -> 1..Len(keys)]
      /\ \A i \in 1..L : s.queue[i] = keys[place[i]] /\ \A j \in 1..L : place[i] = place[j] => i = j
  BY <1>3 DEF Places
<1> HIDE DEF L
<1>8. Len(order) = Len(keys)
  BY <1>2 DEF L
<1>9. \E p \in [DOMAIN order -> DOMAIN keys] :
          \A i \in DOMAIN order :
             order[i] = keys[p[i]] /\ \A j \in DOMAIN order : p[i] = p[j] => i = j
  <2>1. CASE L # Len(keys)
    <3> DEFINE p == [i \in DOMAIN keys |-> i]
    <3>1. order = keys
      BY <1>2, <2>1
    <3>2. p \in [DOMAIN order -> DOMAIN keys] /\ \A i \in DOMAIN order : p[i] = i
      BY <3>1
    <3> HIDE DEF p
    <3> QED BY <3>1, <3>2
  <2>2. CASE L = Len(keys)
    <3>1. order = s.queue /\ DOMAIN order = 1..L
      BY <1>2, <1>5, <2>2
    <3>2. place \in [DOMAIN order -> DOMAIN keys]
      BY <1>5, <1>7, <2>2, <3>1
    <3>3. \A i \in DOMAIN order :
             order[i] = keys[place[i]] /\ \A j \in DOMAIN order : place[i] = place[j] => i = j
      BY <1>7, <3>1
    <3> QED BY <3>2, <3>3
  <2> QED BY <2>1, <2>2
<1>10. ASSUME Distinct(keys)
       PROVE  IF Cyclic(keys, edges) THEN order = keys
              ELSE \A i, j \in DOMAIN order :
                      (\E e \in DOMAIN edges : edges[e] = <<order[i], order[j]>>) => i < j
  <2> USE <1>10
  <2>1. \A j \in 1..L : \A i \in Into(keys, edges, s.queue[j]) : \E h \in 1..(j - 1) : s.queue[h] = edges[i][1]
    BY <1>4 DEF SortOrder, L
  <2>2. \A i, j \in 1..L : s.queue[i] = s.queue[j] => i = j
    BY <1>3, QueuedOnce DEF L
  <2>3. ASSUME Cyclic(keys, edges), L = Len(keys) PROVE FALSE
    <3>1. PICK W \in (SUBSET ToSet(keys)) \ {{}} :
             \A k \in W : \E j \in W : \E i \in DOMAIN edges : edges[i] = <<j, k>>
      BY <2>3 DEF Cyclic
    <3> DEFINE T == {j \in 1..L : s.queue[j] \in W}
    <3>2. T \subseteq Nat /\ T # {}
      <4>1. PICK k \in W : k \in ToSet(keys)
        BY <3>1
      <4>2. PICK p \in 1..Len(keys) : keys[p] = k
        BY <1>5, <4>1 DEF ToSet
      <4>3. PICK i \in 1..L : place[i] = p
        BY <1>6, <2>3
      <4>4. s.queue[i] = k
        BY <1>7, <4>2, <4>3
      <4> QED BY <4>1, <4>3, <4>4
    <3> HIDE DEF T
    <3>3. PICK m \in T : \A k \in T : m <= k
      BY <3>2, LeastNat
    <3>4. m \in 1..L /\ s.queue[m] \in W
      BY <3>3 DEF T
    <3>5. PICK j \in W, i \in DOMAIN edges : edges[i] = <<j, s.queue[m]>>
      BY <3>1, <3>4
    <3>6. j \in ToSet(keys) /\ s.queue[m] \in ToSet(keys)
      BY <3>1, <3>4
    <3>7. i \in Into(keys, edges, s.queue[m]) /\ edges[i][1] = j
      BY <3>5, <3>6 DEF Into, Known
    <3>8. PICK h \in 1..(m - 1) : s.queue[h] = j
      BY <2>1, <3>4, <3>7
    <3>9. h \in T
      <4>1. h \in 1..L
        BY <1>5, <3>4, <3>8
      <4> QED BY <3>8, <4>1 DEF T
    <3>10. m <= h /\ h \in Nat /\ m \in Nat /\ h <= m - 1
      BY <1>5, <3>3, <3>4, <3>9
    <3> QED BY <3>10
  <2>4. ASSUME L # Len(keys) PROVE Cyclic(keys, edges)
    <3> DEFINE W == {k \in ToSet(keys) : ~Queued(s, k)}
    <3>1. W # {}
      <4> SUFFICES ASSUME \A k \in ToSet(keys) : Queued(s, k) PROVE FALSE
        OBVIOUS
      <4>1. \A p \in 1..Len(keys) : \E i \in 1..L : place[i] = p
        <5> TAKE p \in 1..Len(keys)
        <5>1. keys[p] \in ToSet(keys)
          BY OwnSeq
        <5>2. PICK i \in 1..L : s.queue[i] = keys[p]
          BY <5>1 DEF Queued, L
        <5>3. place[i] \in DOMAIN keys /\ keys[place[i]] = keys[p] /\ p \in DOMAIN keys
          BY <1>5, <1>7, <5>2
        <5>4. place[i] = p
          BY <5>3 DEF Distinct
        <5> QED BY <5>4
      <4>2. place \in Surjection(1..L, 1..Len(keys))
        BY <1>7, <4>1 DEF Surjection
      <4>3. Len(keys) <= L
        <5>1. /\ IsFiniteSet(1..L) /\ Cardinality(1..L) = L
              /\ Cardinality(1..Len(keys)) = Len(keys)
          BY <1>5, UpTo
        <5>2. Cardinality(1..Len(keys)) <= Cardinality(1..L)
          BY <4>2, <5>1, FS_Surjection
        <5> QED BY <5>1, <5>2
      <4>4. L <= Len(keys) /\ L \in Nat /\ Len(keys) \in Nat
        BY <1>5, <1>6
      <4> QED BY <2>4, <4>3, <4>4
    <3>2. ASSUME NEW k \in W PROVE \E j \in W : \E i \in DOMAIN edges : edges[i] = <<j, k>>
      <4>1. k \in ToSet(keys) /\ ~Queued(s, k)
        OBVIOUS
      <4>2. Into(keys, edges, k) # {}
        <5> SUFFICES ASSUME Into(keys, edges, k) = {} PROVE FALSE
          OBVIOUS
        <5>1. PICK p \in 1..s.seeded : keys[p] = k
          BY <1>5, <4>1 DEF ToSet
        <5> QED BY <1>4, <4>1, <5>1 DEF SortWaits
      <4>3. s.indegree[k] # 0
        BY <1>4, <1>5, <4>1, <4>2 DEF SortWaits
      <4>4. Cardinality(Into(keys, edges, k) \ Followed(keys, edges, s)) # 0
        BY <1>4, <4>1, <4>3 DEF SortOrder
      <4>5. Into(keys, edges, k) \ Followed(keys, edges, s) # {}
        BY <4>4, FS_EmptySet
      <4>6. PICK i \in Into(keys, edges, k) : i \notin Followed(keys, edges, s)
        BY <4>5
      <4>7. i \in DOMAIN edges /\ Known(keys, edges[i]) /\ edges[i][2] = k
        BY DEF Into
      <4>8. ~Queued(s, edges[i][1])
        <5>1. ASSUME NEW h \in 1..L, s.queue[h] = edges[i][1] PROVE FALSE
          <6>1. h <= s.taken
            BY <1>5, <5>1
          <6> QED BY <4>6, <4>7, <5>1, <6>1 DEF Followed, L
        <5> QED BY <5>1 DEF Queued, L
      <4>9. edges[i][1] \in W
        BY <4>7, <4>8 DEF Known
      <4>10. edges[i] = <<edges[i][1], edges[i][2]>>
        BY <4>7
      <4> QED BY <4>7, <4>9, <4>10
    <3> HIDE DEF W
    <3>3. W \in SUBSET ToSet(keys)
      BY DEF W
    <3> QED BY <3>1, <3>2, <3>3 DEF Cyclic
  <2>5. CASE Cyclic(keys, edges)
    BY <1>2, <2>3, <2>5
  <2>6. CASE ~Cyclic(keys, edges)
    <3>1. L = Len(keys) /\ order = s.queue
      BY <1>2, <2>4, <2>6
    <3>2. ASSUME NEW i \in 1..L, NEW j \in 1..L, NEW e \in DOMAIN edges, edges[e] = <<s.queue[i], s.queue[j]>>
          PROVE  i < j
      <4>1. s.queue[i] \in ToSet(keys) /\ s.queue[j] \in ToSet(keys)
        BY <1>5
      <4>2. e \in Into(keys, edges, s.queue[j]) /\ edges[e][1] = s.queue[i]
        BY <3>2, <4>1 DEF Into, Known
      <4>3. PICK h \in 1..(j - 1) : s.queue[h] = s.queue[i]
        BY <2>1, <4>2
      <4>4. h \in 1..L
        BY <1>5, <4>3
      <4>5. h = i
        BY <2>2, <4>3, <4>4
      <4> QED BY <1>5, <4>3, <4>5
    <3> QED BY <1>5, <2>6, <3>1, <3>2
  <2> QED BY <2>5, <2>6
<1> QED BY <1>8, <1>9, <1>10 DEF SoundOrder, order

(* The order is one of the keys.                                           *)
LEMMA SortIsSequence ==
    ASSUME NEW Key, NEW keys \in Seq(Key), NEW edges \in Seq(Key \X Key)
    PROVE  topologicalOrder(keys, edges) \in Seq(Key)
<1>1. Sorting(keys, edges)[Turns(keys, edges)].queue \in Seq(ToSet(keys))
  BY SortEnds DEF SortInv, SortShape, Sorts
<1>2. ToSet(keys) \subseteq Key
  BY DEF ToSet
<1> QED BY <1>1, <1>2 DEF topologicalOrder

(***************************************************************************)
(* Posts and runs                                                          *)
(***************************************************************************)
NodeNames == {"stop", "page", "create", "mystery"}

PostRows ==
    [pc : {"idle", "list", "store", "answer", "write", "wait", "done"}, tenant : WTenants \cup {"none"},
     form : {"", "x"}, named : {""} \cup Flows, asked : Nat, found : SUBSET Flows, failed : BOOLEAN,
     heard : BOOLEAN, reply : {"none", "ok", "error"}, effects : Seq(NodeNames), written : BOOLEAN,
     value : {"", "x"}, seen : SUBSET Flows]
RunRows ==
    [pc : {"none", "choose", "file", "nodes", "edges", "step"}, flow : Flows \cup {"none"},
     nodes : Seq(NodeNames), edges : Seq(NodeNames \X NodeNames), at : Nat, ran : SUBSET NodeNames,
     effects : Seq(NodeNames), named : BOOLEAN]
DrawingRows == [keys : Seq(NodeNames), edges : Seq(NodeNames \X NodeNames), is : {"not empty", "sounds like"}]

WfTypes ==
    /\ flows \in [Flows -> FlowRows]
    /\ drawing \in DrawingRows /\ Distinct(drawing.keys)
    /\ wclock \in 0..MaxT
    /\ since \in [Flows -> 0..(MaxT + 1)]
    /\ \A f \in Flows : flows[f].published => since[f] <= wclock
    /\ \A f \in Flows : ~flows[f].published => since[f] = MaxT + 1
    /\ posts \in [WProcs -> PostRows] /\ wruns \in [WProcs -> RunRows]
    /\ sample \in Samples

(* What the cache leaves out was published after the list it was filled    *)
(* from, if that did not fail, so at most one lookup before it was filled. *)
CacheOK ==
    /\ wcache.at \in Nat /\ wcache.at <= wclock
    /\ wcache.events \subseteq wcache.tenants
    /\ wcache.loaded /\ ~wcache.failed =>
          \A f \in Flows : flows[f].published =>
             flows[f].tenant \in wcache.tenants \/ since[f] >= wcache.at - MaxAsk

(* A lookup is short, answers from a cache that was fresh when it began,   *)
(* and has in hand every workflow that was published before.               *)
AskOK(q) ==
    /\ q.pc \in {"list", "store", "answer"} => q.asked <= wclock /\ wclock <= q.asked + MaxAsk
    /\ q.pc = "answer" => wcache.loaded /\ q.asked - wcache.at < TTL
    /\ q.pc = "store" /\ ~q.failed => \A f \in Published : f \in q.found \/ since[f] >= q.asked

(* A request waits for the run of the workflow it named.                   *)
ReplyOK(q, w) ==
    /\ q.pc = "wait" <=> w.pc # "none" /\ w.named
    /\ w.pc # "none" => q.pc \in {"wait", "done"}
    /\ q.pc = "write" => ~q.written
    /\ q.reply = "error" => q.pc = "done" /\ ~q.written
    /\ q.pc # "idle" => Published \subseteq q.seen

ChosenOK(q, w) ==
    w.flow \in Flows =>
       /\ w.pc # "none"
       /\ flows[w.flow].tenant = q.tenant /\ flows[w.flow].trigger = "created" /\ w.flow \in q.seen
       /\ ~w.named => flows[w.flow].form \in {"", q.form}

(* A run has done the first of its nodes, which follow the edges it read.  *)
Follows(nodes, edges) ==
    ~Cyclic(nodes, edges) =>
       \A i, j \in DOMAIN nodes : (\E e \in DOMAIN edges : edges[e] = <<nodes[i], nodes[j]>>) => i < j

OrderOK(w) ==
    /\ w.at \in 1..(Len(w.nodes) + 1)
    /\ w.ran = {w.nodes[i] : i \in 1..(w.at - 1)}
    /\ w.pc = "edges" => Distinct(w.nodes)
    /\ w.pc # "step" => w.at = 1 /\ w.edges = <<>>
    /\ Follows(w.nodes, w.edges)

ProcessOK(q, w) == AskOK(q) /\ ReplyOK(q, w) /\ ChosenOK(q, w) /\ OrderOK(w)

WfInv == WfTypes /\ CacheOK /\ \A p \in WProcs : ProcessOK(posts[p], wruns[p])

(* Effects that come back are those of a run at its end or at a stop.      *)
Whole(p) ==
    \/ wruns[p].at > Len(wruns[p].nodes)
    \/ wruns[p].nodes[wruns[p].at] = "stop"
EffectsStep == \A p \in WProcs : posts'[p].effects # posts[p].effects /\ posts'[p].effects # <<>> => Whole(p)

LEMMA DrawingTyped ==
    ASSUME WfInv
    PROVE  drawing.keys \in Seq(NodeNames) /\ drawing.edges \in Seq(NodeNames \X NodeNames) /\ Distinct(drawing.keys)
<1>1. drawing \in DrawingRows /\ Distinct(drawing.keys)
  BY DEF WfInv, WfTypes
<1> QED BY <1>1 DEF DrawingRows

(* One request, or its run, goes on.                                       *)
GoesTo(p, q, w) == posts' = [posts EXCEPT ![p] = q] /\ wruns' = [wruns EXCEPT ![p] = w]

LEMMA StaysPut ==
    ASSUME WfInv, NEW p \in WProcs
    PROVE  /\ posts[p] \in PostRows /\ wruns[p] \in RunRows
           /\ posts = [posts EXCEPT ![p] = posts[p]] /\ wruns = [wruns EXCEPT ![p] = wruns[p]]
           /\ ProcessOK(posts[p], wruns[p])
<1>1. posts \in [WProcs -> PostRows] /\ wruns \in [WProcs -> RunRows]
  BY DEF WfInv, WfTypes
<1>2. ProcessOK(posts[p], wruns[p])
  BY DEF WfInv
<1> QED BY <1>1, <1>2

LEMMA GoesOn ==
    ASSUME WfInv, NEW p \in WProcs, NEW q \in PostRows, NEW w \in RunRows, GoesTo(p, q, w), ProcessOK(q, w),
           q.effects = posts[p].effects \/ q.effects = <<>> \/ Whole(p),
           UNCHANGED <<sample, flows, drawing, wcache, wclock, since>>
    PROVE  WfInv' /\ EffectsStep
<1>1. posts \in [WProcs -> PostRows] /\ wruns \in [WProcs -> RunRows]
  BY DEF WfInv, WfTypes
<1>2. /\ posts' \in [WProcs -> PostRows] /\ wruns' \in [WProcs -> RunRows]
      /\ posts'[p] = q /\ wruns'[p] = w
      /\ \A o \in WProcs : o # p => posts'[o] = posts[o] /\ wruns'[o] = wruns[o]
  BY <1>1 DEF GoesTo
<1>3. WfTypes'
  BY <1>2 DEF WfInv, WfTypes, Distinct
<1>4. CacheOK'
  BY DEF WfInv, CacheOK
<1>5. ASSUME NEW o \in WProcs PROVE ProcessOK(posts[o], wruns[o])'
  <2>1. ProcessOK(posts'[o], wruns'[o])
    BY <1>2 DEF WfInv
  <2> QED BY <2>1 DEF ProcessOK, AskOK, ReplyOK, ChosenOK, Published
<1>6. EffectsStep
  BY <1>2 DEF EffectsStep
<1> QED BY <1>3, <1>4, <1>5, <1>6 DEF WfInv

LEMMA NoneTyped == NoPost \in PostRows /\ NoRun \in RunRows
BY DEF NoPost, NoRun, PostRows, RunRows, NodeNames

LEMMA NoRunOK == OrderOK(NoRun) /\ \A q : ChosenOK(q, NoRun)
<1>1. NoRun.pc = "none" /\ NoRun.flow = "none" /\ NoRun.nodes = <<>> /\ NoRun.edges = <<>> /\ NoRun.at = 1 /\ NoRun.ran = {}
  BY DEF NoRun
<1>2. Follows(<<>>, <<>>)
  BY DEF Follows
<1>3. 1 \in 1..(Len(<<>>) + 1) /\ 1..(1 - 1) = {}
  OBVIOUS
<1>4. OrderOK(NoRun)
  BY <1>1, <1>2, <1>3 DEF OrderOK
<1> QED BY <1>1, <1>4, WorkflowAssumption DEF ChosenOK

(* What the request of a run that is not there may become.                 *)
LEMMA NoChoice == \A q, w : ChosenOK(q, w) /\ w.pc = "none" => \A r : ChosenOK(r, w)
BY DEF ChosenOK

(* The request asks: whether the answer is in the cache depends on the     *)
(* moment it asks.                                                         *)
Found(r, t, to) == [r EXCEPT !.asked = t, !.pc = to]
Begin == IF Fresh(wclock) THEN "answer" ELSE "list"
Begun(r) == Found(r, wclock, Begin)

LEMMA AskPosts == \A p, r : ask(p, r) => Post(p, Begun(r))
BY DEF ask, Begun, Found, Begin

LEMMA FoundAt ==
    ASSUME NEW r \in PostRows, NEW t \in Nat, NEW to \in {"answer", "list"}
    PROVE  /\ Found(r, t, to) \in PostRows /\ Found(r, t, to).asked = t /\ Found(r, t, to).pc = to
           /\ Found(r, t, to).seen = r.seen /\ Found(r, t, to).effects = r.effects
           /\ Found(r, t, to).written = r.written /\ Found(r, t, to).reply = r.reply
BY DEF PostRows, Found

LEMMA BegunAsks ==
    ASSUME WfInv, NEW r \in PostRows
    PROVE  /\ Begun(r) \in PostRows /\ AskOK(Begun(r)) /\ Begun(r).pc \in {"answer", "list"}
           /\ Begun(r).seen = r.seen /\ Begun(r).effects = r.effects
           /\ Begun(r).written = r.written /\ Begun(r).reply = r.reply
<1>1. wclock \in 0..MaxT /\ MaxT \in Nat /\ MaxAsk \in Nat
  BY WorkflowAssumption DEF WfInv, WfTypes
<1>2. Begin \in {"answer", "list"} /\ (Begin = "answer" => Fresh(wclock))
  BY DEF Begin
<1>3. wclock \in Nat
  BY <1>1
<1>4. /\ Begun(r).asked = wclock /\ Begun(r).pc = Begin /\ Begun(r) \in PostRows
      /\ Begun(r).seen = r.seen /\ Begun(r).effects = r.effects
      /\ Begun(r).written = r.written /\ Begun(r).reply = r.reply
  BY <1>2, <1>3, FoundAt DEF Begun
<1>5. AskOK(Begun(r))
  BY <1>1, <1>2, <1>4 DEF AskOK, Fresh
<1> QED BY <1>2, <1>4, <1>5

LEMMA PostRecordKeeps ==
    ASSUME WfInv, NEW p \in WProcs, NEW tenant \in WTenants, NEW flow \in {""} \cup Flows,
           NEW value \in {"", "x"}, PostRecord(p, tenant, value, flow, value)
    PROVE  WfInv' /\ EffectsStep
<1> DEFINE r == [NoPost EXCEPT !.tenant = tenant, !.form = value, !.named = flow, !.value = value, !.seen = Published]
           f == [r EXCEPT !.pc = "write", !.heard = TRUE]
           q == Begun(r)
<1>1. r \in PostRows /\ r.seen = Published /\ r.effects = <<>> /\ ~r.written /\ r.reply = "none"
  <2>1. NoPost \in PostRows /\ NoPost.effects = <<>> /\ ~NoPost.written /\ NoPost.reply = "none"
    BY NoneTyped DEF NoPost
  <2>2. Published \subseteq Flows
    BY DEF Published
  <2> QED BY <2>1, <2>2 DEF PostRows
<1>2. f \in PostRows /\ f.pc = "write" /\ f.seen = Published /\ f.effects = <<>> /\ ~f.written /\ f.reply = "none"
  BY <1>1 DEF PostRows
<1> HIDE DEF r
<1>3. /\ q \in PostRows /\ AskOK(q) /\ q.pc \in {"answer", "list"} /\ q.seen = Published
      /\ q.effects = <<>> /\ ~q.written /\ q.reply = "none"
  BY <1>1, BegunAsks
<1> USE DEF r
<1>4. /\ wruns[p].pc = "none" /\ UNCHANGED <<sample, flows, drawing, wcache, wclock, wruns, since>>
      /\ Post(p, f) \/ Post(p, q)
  BY AskPosts DEF PostRecord
<1> HIDE DEF f, q
<1>5. AskOK(f)
  BY <1>2 DEF AskOK
<1>6. wruns' = [wruns EXCEPT ![p] = wruns[p]] /\ wruns[p] \in RunRows /\ ChosenOK(posts[p], wruns[p]) /\ OrderOK(wruns[p])
  BY <1>4, StaysPut DEF ProcessOK
<1>7. ASSUME NEW n \in {f, q}, Post(p, n) PROVE WfInv' /\ EffectsStep
  <2>1. GoesTo(p, n, wruns[p])
    BY <1>6, <1>7 DEF GoesTo, Post
  <2>2. n \in PostRows /\ AskOK(n) /\ n.pc \in {"write", "answer", "list"} /\ n.seen = Published /\ n.effects = <<>> /\ ~n.written /\ n.reply = "none"
    BY <1>2, <1>3, <1>5, <1>7
  <2>3. ReplyOK(n, wruns[p])
    BY <1>4, <2>2 DEF ReplyOK
  <2>4. ChosenOK(n, wruns[p])
    BY <1>4, <1>6, NoChoice
  <2>5. ProcessOK(n, wruns[p])
    BY <2>2, <2>3, <2>4, <1>6 DEF ProcessOK
  <2> QED BY <2>1, <2>2, <2>5, <1>4, <1>6, GoesOn
<1> QED BY <1>4, <1>7

LEMMA ListTriggersKeeps == ASSUME WfInv, NEW p \in WProcs, ListTriggers(p) PROVE WfInv' /\ EffectsStep
<1> DEFINE a == [posts[p] EXCEPT !.pc = "store", !.found = Published]
           b == [posts[p] EXCEPT !.pc = "store", !.found = {}, !.failed = TRUE]
<1>1. /\ posts[p] \in PostRows /\ wruns[p] \in RunRows /\ wruns = [wruns EXCEPT ![p] = wruns[p]]
      /\ ProcessOK(posts[p], wruns[p]) /\ posts[p].pc = "list"
  BY StaysPut DEF ListTriggers
<1>2. Published \subseteq Flows
  BY DEF Published
<1>3. a \in PostRows /\ b \in PostRows
  BY <1>1, <1>2 DEF PostRows
<1>4. ASSUME NEW n \in {a, b}, Post(p, n) PROVE WfInv' /\ EffectsStep
  <2>1. n \in PostRows
    BY <1>3, <1>4
  <2>2. /\ n.pc = "store" /\ n.asked = posts[p].asked /\ n.seen = posts[p].seen /\ n.effects = posts[p].effects
        /\ n.written = posts[p].written /\ n.reply = posts[p].reply /\ n.tenant = posts[p].tenant /\ n.form = posts[p].form
        /\ n.failed \/ n.found = Published
    BY <1>1, <1>2, <1>4 DEF PostRows
  <2>3. ProcessOK(n, wruns[p])
    <3>1. AskOK(n)
      BY <1>1, <2>2 DEF ProcessOK, AskOK
    <3>2. ReplyOK(n, wruns[p])
      BY <1>1, <2>2 DEF ProcessOK, ReplyOK
    <3>3. ChosenOK(n, wruns[p])
      BY <1>1, <2>2 DEF ProcessOK, ChosenOK
    <3> QED BY <1>1, <3>1, <3>2, <3>3 DEF ProcessOK
  <2>4. GoesTo(p, n, wruns[p])
    BY <1>1, <1>4 DEF GoesTo, Post, ListTriggers
  <2>5. UNCHANGED <<sample, flows, drawing, wcache, wclock, since>>
    BY DEF ListTriggers
  <2> HIDE DEF a, b
  <2> QED BY <1>1, <2>1, <2>2, <2>3, <2>4, <2>5, GoesOn
<1> QED BY <1>4 DEF ListTriggers

LEMMA AnswerBeforeKeeps == ASSUME WfInv, NEW p \in WProcs, AnswerBefore(p) PROVE WfInv' /\ EffectsStep
<1> DEFINE n == [posts[p] EXCEPT !.pc = "write", !.asked = 0, !.heard = Listens(posts[p].tenant)]
<1>1. /\ posts[p] \in PostRows /\ wruns[p] \in RunRows /\ wruns = [wruns EXCEPT ![p] = wruns[p]]
      /\ ProcessOK(posts[p], wruns[p]) /\ posts[p].pc = "answer" /\ ~posts[p].written
  BY StaysPut DEF AnswerBefore
<1>2. Listens(posts[p].tenant) \in BOOLEAN
  BY DEF Listens
<1>3. n \in PostRows
  BY <1>1, <1>2 DEF PostRows
<1>4. /\ n.pc = "write" /\ n.seen = posts[p].seen /\ n.effects = posts[p].effects
      /\ ~n.written /\ n.reply = posts[p].reply /\ n.tenant = posts[p].tenant /\ n.form = posts[p].form
  BY <1>1 DEF PostRows
<1>5. GoesTo(p, n, wruns[p])
  BY <1>1 DEF GoesTo, Post, AnswerBefore
<1> HIDE DEF n
<1>6. ProcessOK(n, wruns[p])
  <2>1. AskOK(n)
    BY <1>1, <1>4 DEF ProcessOK, AskOK
  <2>2. ReplyOK(n, wruns[p])
    BY <1>1, <1>4 DEF ProcessOK, ReplyOK
  <2>3. ChosenOK(n, wruns[p])
    BY <1>1, <1>4 DEF ProcessOK, ChosenOK
  <2> QED BY <1>1, <2>1, <2>2, <2>3 DEF ProcessOK
<1>7. UNCHANGED <<sample, flows, drawing, wcache, wclock, since>>
  BY DEF AnswerBefore
<1> QED BY <1>1, <1>3, <1>4, <1>5, <1>6, <1>7, GoesOn

(* A run that begins has no workflow and no nodes.                         *)
LEMMA Begins ==
    ASSUME NEW to \in {"choose", "file"}, NEW b \in BOOLEAN, NEW w, w = [NoRun EXCEPT !.pc = to, !.named = b]
    PROVE  /\ w \in RunRows /\ w.pc = to /\ w.named = b /\ OrderOK(w)
           /\ \A q : ChosenOK(q, w)
<1>1. /\ w \in RunRows /\ w.pc = to /\ w.named = b /\ w.flow = NoRun.flow /\ w.nodes = NoRun.nodes
      /\ w.edges = NoRun.edges /\ w.at = NoRun.at /\ w.ran = NoRun.ran
  BY NoneTyped DEF RunRows
<1>2. OrderOK(w)
  BY <1>1, NoRunOK DEF OrderOK, NoRun
<1>3. w.flow \notin Flows
  BY <1>1, WorkflowAssumption DEF NoRun
<1> QED BY <1>1, <1>2, <1>3 DEF ChosenOK

LEMMA BeginsPlain ==
    ASSUME NEW to \in {"choose", "file"}
    PROVE  LET w == [NoRun EXCEPT !.pc = to]
           IN  /\ w \in RunRows /\ w.pc = to /\ ~w.named /\ OrderOK(w)
               /\ \A q : ChosenOK(q, w)
<1> DEFINE w == [NoRun EXCEPT !.pc = to]
<1>1. /\ w \in RunRows /\ w.pc = to /\ w.named = NoRun.named /\ w.flow = NoRun.flow /\ w.nodes = NoRun.nodes
      /\ w.edges = NoRun.edges /\ w.at = NoRun.at /\ w.ran = NoRun.ran
  BY NoneTyped DEF RunRows
<1> HIDE DEF w
<1>2. OrderOK(w)
  BY <1>1, NoRunOK DEF OrderOK, NoRun
<1>3. w.flow \notin Flows /\ ~w.named
  BY <1>1, WorkflowAssumption DEF NoRun
<1>4. \A q : ChosenOK(q, w)
  BY <1>3 DEF ChosenOK
<1> QED BY <1>1, <1>2, <1>3, <1>4 DEF w

LEMMA AnswerAfterKeeps == ASSUME WfInv, NEW p \in WProcs, AnswerAfter(p) PROVE WfInv' /\ EffectsStep
<1> DEFINE n == [posts[p] EXCEPT !.pc = "done", !.asked = 0]
           w == [NoRun EXCEPT !.pc = "choose"]
<1>1. /\ posts[p] \in PostRows /\ wruns[p] \in RunRows /\ wruns = [wruns EXCEPT ![p] = wruns[p]]
      /\ ProcessOK(posts[p], wruns[p]) /\ posts[p].pc = "answer"
  BY StaysPut DEF AnswerAfter
<1>2. n \in PostRows
  BY <1>1 DEF PostRows
<1>3. /\ n.pc = "done" /\ n.seen = posts[p].seen /\ n.effects = posts[p].effects
      /\ n.written = posts[p].written /\ n.reply = posts[p].reply
      /\ n.tenant = posts[p].tenant /\ n.form = posts[p].form
  BY <1>1 DEF PostRows
<1>4. w \in RunRows /\ w.pc = "choose" /\ ~w.named /\ OrderOK(w) /\ \A q : ChosenOK(q, w)
  BY BeginsPlain
<1>5. GoesTo(p, n, w) \/ GoesTo(p, n, wruns[p])
  BY <1>1 DEF GoesTo, Post, Run, AnswerAfter
<1>6. UNCHANGED <<sample, flows, drawing, wcache, wclock, since>>
  BY DEF AnswerAfter
<1> HIDE DEF n, w
<1>7. wruns[p].pc = "none"
  BY <1>1 DEF ProcessOK, ReplyOK
<1>8. AskOK(n) /\ ReplyOK(n, w) /\ ReplyOK(n, wruns[p]) /\ ChosenOK(n, wruns[p])
  <2>1. AskOK(n)
    BY <1>3 DEF AskOK
  <2>2. ReplyOK(n, w) /\ ReplyOK(n, wruns[p])
    BY <1>1, <1>3, <1>4, <1>7 DEF ProcessOK, ReplyOK
  <2>3. ChosenOK(n, wruns[p])
    BY <1>1, <1>7, NoChoice DEF ProcessOK
  <2> QED BY <2>1, <2>2, <2>3
<1>9. ProcessOK(n, w) /\ ProcessOK(n, wruns[p])
  BY <1>1, <1>4, <1>8 DEF ProcessOK
<1> QED BY <1>1, <1>2, <1>3, <1>4, <1>5, <1>6, <1>9, GoesOn

LEMMA WriteRowKeeps == ASSUME WfInv, NEW p \in WProcs, WriteRow(p) PROVE WfInv' /\ EffectsStep
<1> DEFINE r == [posts[p] EXCEPT !.written = TRUE, !.heard = FALSE]
           e == [posts[p] EXCEPT !.pc = "done", !.reply = "error"]
           d == [r EXCEPT !.pc = "done", !.reply = "ok"]
           k == [r EXCEPT !.reply = "ok"]
           h == [r EXCEPT !.pc = "wait"]
           a == [NoRun EXCEPT !.pc = "file"]
           b == [NoRun EXCEPT !.pc = "choose", !.named = TRUE]
<1>1. /\ posts[p] \in PostRows /\ wruns[p] \in RunRows /\ wruns = [wruns EXCEPT ![p] = wruns[p]]
      /\ ProcessOK(posts[p], wruns[p]) /\ posts[p].pc = "write" /\ ~posts[p].written /\ posts[p].reply # "error"
  BY StaysPut DEF WriteRow, ProcessOK, ReplyOK
<1>2. r \in PostRows /\ r.pc = "write" /\ r.written /\ r.reply = posts[p].reply /\ r.seen = posts[p].seen /\ r.effects = posts[p].effects
  BY <1>1 DEF PostRows
<1> HIDE DEF r
<1>3. /\ e \in PostRows /\ d \in PostRows /\ k \in PostRows /\ h \in PostRows
      /\ e.pc = "done" /\ d.pc = "done" /\ h.pc = "wait"
      /\ ~e.written /\ d.reply = "ok" /\ k.reply = "ok" /\ h.reply = posts[p].reply
      /\ \A n \in {e, d, k, h} : n.seen = posts[p].seen /\ n.effects = posts[p].effects
  BY <1>1, <1>2 DEF PostRows
<1>4. /\ a \in RunRows /\ a.pc = "file" /\ ~a.named /\ OrderOK(a)
      /\ \A q : ChosenOK(q, a)
  BY BeginsPlain
<1>5. /\ b \in RunRows /\ b.pc = "choose" /\ b.named /\ OrderOK(b)
      /\ \A q : ChosenOK(q, b)
  BY Begins
<1>6. UNCHANGED <<sample, flows, drawing, wcache, wclock, since>>
  BY DEF WriteRow
<1>7. wruns[p].pc = "none" /\ OrderOK(wruns[p]) /\ \A q : ChosenOK(q, wruns[p])
  BY <1>1, NoChoice DEF ProcessOK, ReplyOK
<1>8. \/ GoesTo(p, e, wruns[p]) \/ GoesTo(p, d, wruns[p]) \/ GoesTo(p, d, a)
      \/ GoesTo(p, Begun(k), wruns[p]) \/ GoesTo(p, h, b)
  BY <1>1, AskPosts DEF WriteRow, GoesTo, Post, Run, r
<1> HIDE DEF e, d, k, h, a, b
<1>9. /\ Begun(k) \in PostRows /\ AskOK(Begun(k)) /\ Begun(k).pc \in {"answer", "list"}
      /\ Begun(k).seen = posts[p].seen /\ Begun(k).effects = posts[p].effects /\ Begun(k).reply = "ok"
  BY <1>3, BegunAsks
<1>10. AskOK(e) /\ AskOK(d) /\ AskOK(h)
  BY <1>3 DEF AskOK
<1>11. Published \subseteq posts[p].seen
  BY <1>1 DEF ProcessOK, ReplyOK
<1>12. ReplyOK(e, wruns[p]) /\ ReplyOK(d, wruns[p]) /\ ReplyOK(d, a) /\ ReplyOK(Begun(k), wruns[p]) /\ ReplyOK(h, b)
  BY <1>1, <1>3, <1>4, <1>5, <1>7, <1>9, <1>11 DEF ReplyOK
<1>13. ProcessOK(e, wruns[p]) /\ ProcessOK(d, wruns[p]) /\ ProcessOK(d, a) /\ ProcessOK(Begun(k), wruns[p]) /\ ProcessOK(h, b)
  BY <1>4, <1>5, <1>7, <1>9, <1>10, <1>12 DEF ProcessOK
<1>14. /\ e.effects = posts[p].effects /\ d.effects = posts[p].effects /\ h.effects = posts[p].effects
       /\ Begun(k).effects = posts[p].effects
  BY <1>3, <1>9
<1> QED BY <1>1, <1>3, <1>4, <1>5, <1>6, <1>8, <1>9, <1>13, <1>14, GoesOn

(* A run that ends answers the request that waits for it.                  *)
LEMMA EndsWell ==
    ASSUME WfInv, NEW p \in WProcs, NEW effects \in Seq(NodeNames), wruns[p].pc # "none", Ends(p, effects),
           effects = <<>> \/ Whole(p), UNCHANGED <<sample, flows, drawing, wcache, wclock, since>>
    PROVE  WfInv' /\ EffectsStep
<1> DEFINE n == [posts[p] EXCEPT !.pc = "done", !.reply = "ok", !.effects = effects]
<1>1. /\ posts[p] \in PostRows /\ wruns[p] \in RunRows /\ posts = [posts EXCEPT ![p] = posts[p]]
      /\ ProcessOK(posts[p], wruns[p])
  BY StaysPut
<1>2. n \in PostRows
  BY <1>1 DEF PostRows
<1>3. n.pc = "done" /\ n.seen = posts[p].seen /\ n.effects = effects /\ n.reply = "ok"
  BY <1>1 DEF PostRows
<1>4. \/ wruns[p].named /\ GoesTo(p, n, NoRun)
      \/ ~wruns[p].named /\ GoesTo(p, posts[p], NoRun)
  BY <1>1 DEF Ends, GoesTo, Post, Run
<1> HIDE DEF n
<1>5. NoRun \in RunRows /\ NoRun.pc = "none" /\ OrderOK(NoRun) /\ \A q : ChosenOK(q, NoRun)
  BY NoneTyped, NoRunOK DEF NoRun
<1>6. AskOK(n)
  BY <1>3 DEF AskOK
<1>7. ReplyOK(n, NoRun) /\ (~wruns[p].named => ReplyOK(posts[p], NoRun))
  BY <1>1, <1>3, <1>5 DEF ProcessOK, ReplyOK
<1>8. ProcessOK(n, NoRun) /\ (~wruns[p].named => ProcessOK(posts[p], NoRun))
  BY <1>1, <1>5, <1>6, <1>7 DEF ProcessOK
<1> QED BY <1>1, <1>2, <1>3, <1>4, <1>5, <1>8, GoesOn

LEMMA ChooseWorkflowKeeps == ASSUME WfInv, NEW p \in WProcs, ChooseWorkflow(p) PROVE WfInv' /\ EffectsStep
<1>1. /\ posts[p] \in PostRows /\ wruns[p] \in RunRows /\ posts = [posts EXCEPT ![p] = posts[p]]
      /\ ProcessOK(posts[p], wruns[p]) /\ wruns[p].pc = "choose"
  BY StaysPut DEF ChooseWorkflow
<1>2. UNCHANGED <<sample, flows, drawing, wcache, wclock, since>>
  BY DEF ChooseWorkflow
<1>3. CASE Ends(p, <<>>)
  <2>1. <<>> \in Seq(NodeNames)
    OBVIOUS
  <2> QED BY <1>1, <1>2, <1>3, <2>1, EndsWell
<1>4. ASSUME NEW f \in IF wruns[p].named THEN namedWorkflow(posts[p].tenant, posts[p].named)
                        ELSE bestForForm(Of(posts[p].tenant), posts[p].form),
             Run(p, [wruns[p] EXCEPT !.pc = "nodes", !.flow = f]), UNCHANGED posts
      PROVE  WfInv' /\ EffectsStep
  <2> DEFINE w == [wruns[p] EXCEPT !.pc = "nodes", !.flow = f]
  <2>1. /\ f \in Flows /\ f \in Published /\ flows[f].tenant = posts[p].tenant /\ flows[f].trigger = "created"
        /\ ~wruns[p].named => flows[f].form \in {"", posts[p].form}
    BY <1>4 DEF namedWorkflow, bestForForm, Of, Published
  <2>2. /\ w \in RunRows /\ w.pc = "nodes" /\ w.flow = f /\ w.named = wruns[p].named /\ w.nodes = wruns[p].nodes
        /\ w.edges = wruns[p].edges /\ w.at = wruns[p].at /\ w.ran = wruns[p].ran
    BY <1>1, <2>1 DEF RunRows
  <2>3. GoesTo(p, posts[p], w)
    BY <1>1, <1>4 DEF GoesTo, Run
  <2> HIDE DEF w
  <2>4. ReplyOK(posts[p], w)
    BY <1>1, <2>2 DEF ProcessOK, ReplyOK
  <2>5. ChosenOK(posts[p], w)
    BY <1>1, <2>1, <2>2 DEF ProcessOK, ReplyOK, ChosenOK
  <2>6. OrderOK(w)
    BY <1>1, <2>2 DEF ProcessOK, OrderOK
  <2>7. ProcessOK(posts[p], w)
    BY <1>1, <2>4, <2>5, <2>6 DEF ProcessOK
  <2> QED BY <1>1, <1>2, <2>2, <2>3, <2>7, GoesOn
<1> QED BY <1>3, <1>4 DEF ChooseWorkflow

(* A run that has read its nodes has done none of them.                    *)
LEMMA ReadsNodes ==
    ASSUME WfInv, NEW p \in WProcs, wruns[p].pc \in {"file", "nodes"}, NEW to \in {"step", "edges"},
           Run(p, [wruns[p] EXCEPT !.pc = to, !.nodes = drawing.keys]), UNCHANGED posts,
           UNCHANGED <<sample, flows, drawing, wcache, wclock, since>>
    PROVE  WfInv' /\ EffectsStep
<1> DEFINE w == [wruns[p] EXCEPT !.pc = to, !.nodes = drawing.keys]
<1>1. /\ posts[p] \in PostRows /\ wruns[p] \in RunRows /\ posts = [posts EXCEPT ![p] = posts[p]]
      /\ ProcessOK(posts[p], wruns[p])
  BY StaysPut
<1>2. drawing.keys \in Seq(NodeNames) /\ Distinct(drawing.keys)
  BY DrawingTyped
<1>3. /\ w \in RunRows /\ w.pc = to /\ w.flow = wruns[p].flow /\ w.named = wruns[p].named /\ w.nodes = drawing.keys
      /\ w.edges = wruns[p].edges /\ w.at = wruns[p].at /\ w.ran = wruns[p].ran
  BY <1>1, <1>2 DEF RunRows
<1>4. GoesTo(p, posts[p], w)
  BY <1>1 DEF GoesTo, Run
<1> HIDE DEF w
<1>5. ReplyOK(posts[p], w)
  BY <1>1, <1>3 DEF ProcessOK, ReplyOK
<1>6. ChosenOK(posts[p], w)
  BY <1>1, <1>3 DEF ProcessOK, ChosenOK
<1>7. OrderOK(w)
  <2>1. w.at = 1 /\ w.edges = <<>> /\ w.ran = {}
    <3>1. wruns[p].at = 1 /\ wruns[p].edges = <<>> /\ wruns[p].ran = {wruns[p].nodes[i] : i \in 1..(wruns[p].at - 1)}
      BY <1>1 DEF ProcessOK, OrderOK
    <3>2. 1..(1 - 1) = {}
      OBVIOUS
    <3> QED BY <1>3, <3>1, <3>2
  <2>2. Follows(w.nodes, <<>>)
    BY DEF Follows
  <2>3. w.at \in 1..(Len(w.nodes) + 1)
    BY <1>2, <1>3, <2>1
  <2>4. w.ran = {w.nodes[i] : i \in 1..(w.at - 1)}
    <3>1. 1..(1 - 1) = {}
      OBVIOUS
    <3> QED BY <2>1, <3>1
  <2> QED BY <1>2, <1>3, <2>1, <2>2, <2>3, <2>4 DEF OrderOK
<1>8. ProcessOK(posts[p], w)
  BY <1>1, <1>5, <1>6, <1>7 DEF ProcessOK
<1> QED BY <1>1, <1>3, <1>4, <1>8, GoesOn

LEMMA LoadFileKeeps == ASSUME WfInv, NEW p \in WProcs, LoadFile(p) PROVE WfInv' /\ EffectsStep
<1>1. UNCHANGED <<sample, flows, drawing, wcache, wclock, since>> /\ wruns[p].pc = "file" /\ <<>> \in Seq(NodeNames)
  BY DEF LoadFile
<1>2. CASE Fails(p)
  BY <1>1, <1>2, EndsWell DEF Fails
<1>3. CASE Run(p, [wruns[p] EXCEPT !.pc = "step", !.nodes = drawing.keys]) /\ UNCHANGED posts
  BY <1>1, <1>3, ReadsNodes
<1> QED BY <1>2, <1>3 DEF LoadFile

LEMMA ReadNodesKeeps == ASSUME WfInv, NEW p \in WProcs, ReadNodes(p) PROVE WfInv' /\ EffectsStep
<1>1. UNCHANGED <<sample, flows, drawing, wcache, wclock, since>> /\ wruns[p].pc = "nodes" /\ <<>> \in Seq(NodeNames)
  BY DEF ReadNodes
<1>2. CASE Ends(p, <<>>)
  BY <1>1, <1>2, EndsWell
<1>3. CASE Run(p, [wruns[p] EXCEPT !.pc = "edges", !.nodes = drawing.keys]) /\ UNCHANGED posts
  BY <1>1, <1>3, ReadsNodes
<1> QED BY <1>2, <1>3 DEF ReadNodes

(* The order of the sort follows the edges it was made from.               *)
LEMMA SortFollows ==
    ASSUME NEW keys \in Seq(NodeNames), Distinct(keys), NEW edges \in Seq(NodeNames \X NodeNames)
    PROVE  /\ topologicalOrder(keys, edges) \in Seq(NodeNames)
           /\ Follows(topologicalOrder(keys, edges), edges)
<1> DEFINE order == topologicalOrder(keys, edges)
<1>1. SoundOrder(keys, edges, order)
  BY SortIsSound
<1>2. order \in Seq(NodeNames)
  BY SortIsSequence
<1> HIDE DEF order
<1> DEFINE Held == \A i, j \in DOMAIN order : (\E e \in DOMAIN edges : edges[e] = <<order[i], order[j]>>) => i < j
<1>5. Distinct(keys) => IF Cyclic(keys, edges) THEN order = keys ELSE Held
  BY <1>1, Zenon DEF SoundOrder
<1> HIDE DEF Held
<1>3. CASE Cyclic(keys, edges)
  <2>1. order = keys
    BY <1>5, <1>3
  <2> QED BY <1>2, <1>3, <2>1 DEF Follows, order
<1>4. CASE ~Cyclic(keys, edges)
  <2>1. Held
    BY <1>5, <1>4
  <2> QED BY <1>2, <2>1 DEF Follows, Held, order
<1> QED BY <1>2, <1>3, <1>4 DEF order

LEMMA ReadEdgesKeeps == ASSUME WfInv, NEW p \in WProcs, ReadEdges(p) PROVE WfInv' /\ EffectsStep
<1> PICK edges \in {drawing.edges} \cup IF WFails THEN {<<>>} ELSE {} :
        Run(p, [wruns[p] EXCEPT !.pc = "step", !.nodes = topologicalOrder(@, edges), !.edges = edges])
  BY DEF ReadEdges
<1> DEFINE order == topologicalOrder(wruns[p].nodes, edges)
           w == [wruns[p] EXCEPT !.pc = "step", !.nodes = order, !.edges = edges]
<1>1. /\ posts[p] \in PostRows /\ wruns[p] \in RunRows /\ posts = [posts EXCEPT ![p] = posts[p]]
      /\ ProcessOK(posts[p], wruns[p]) /\ wruns[p].pc = "edges"
      /\ UNCHANGED <<posts, sample, flows, drawing, wcache, wclock, since>>
  BY StaysPut DEF ReadEdges
<1>2. edges \in Seq(NodeNames \X NodeNames)
  <2>1. edges = drawing.edges \/ edges = <<>>
    <3>1. CASE WFails
      BY <3>1
    <3>2. CASE ~WFails
      BY <3>2
    <3> QED BY <3>1, <3>2
  <2>2. drawing.edges \in Seq(NodeNames \X NodeNames)
    BY DrawingTyped
  <2>3. <<>> \in Seq(NodeNames \X NodeNames)
    OBVIOUS
  <2> QED BY <2>1, <2>2, <2>3
<1>3. wruns[p].nodes \in Seq(NodeNames) /\ Distinct(wruns[p].nodes) /\ wruns[p].at = 1
  BY <1>1 DEF ProcessOK, OrderOK, RunRows
<1>4. order \in Seq(NodeNames) /\ Follows(order, edges)
  BY <1>2, <1>3, SortFollows
<1>5. GoesTo(p, posts[p], w)
  BY <1>1 DEF GoesTo, Run
<1> HIDE DEF order
<1>6. /\ w \in RunRows /\ w.pc = "step" /\ w.flow = wruns[p].flow /\ w.named = wruns[p].named /\ w.nodes = order
      /\ w.edges = edges /\ w.at = wruns[p].at /\ w.ran = wruns[p].ran
  BY <1>1, <1>2, <1>4 DEF RunRows
<1> HIDE DEF w
<1>7. ReplyOK(posts[p], w)
  BY <1>1, <1>6 DEF ProcessOK, ReplyOK
<1>8. ChosenOK(posts[p], w)
  BY <1>1, <1>6 DEF ProcessOK, ChosenOK
<1>9. OrderOK(w)
  <2>1. w.at = 1 /\ w.ran = {}
    <3>1. wruns[p].ran = {wruns[p].nodes[i] : i \in 1..(wruns[p].at - 1)}
      BY <1>1 DEF ProcessOK, OrderOK
    <3>2. 1..(1 - 1) = {}
      OBVIOUS
    <3> QED BY <1>3, <1>6, <3>1, <3>2
  <2>2. w.at \in 1..(Len(w.nodes) + 1)
    BY <1>4, <1>6, <2>1
  <2>3. w.ran = {w.nodes[i] : i \in 1..(w.at - 1)}
    <3>1. 1..(1 - 1) = {}
      OBVIOUS
    <3> QED BY <2>1, <3>1
  <2> QED BY <1>4, <1>6, <2>2, <2>3 DEF OrderOK
<1>10. ProcessOK(posts[p], w)
  BY <1>1, <1>7, <1>8, <1>9 DEF ProcessOK
<1> QED BY <1>1, <1>5, <1>6, <1>10, GoesOn

(* A node that is done is one of those done, and the next one is in front. *)
LEMMA NodeIsDone ==
    ASSUME WfInv, NEW p \in WProcs, wruns[p].pc = "step", wruns[p].at <= Len(wruns[p].nodes),
           NEW effects \in Seq(NodeNames), Run(p, Next1(wruns[p], effects)), UNCHANGED posts,
           UNCHANGED <<sample, flows, drawing, wcache, wclock, since>>
    PROVE  WfInv' /\ EffectsStep
<1> DEFINE r == wruns[p]
           w == Next1(r, effects)
<1>1. /\ posts[p] \in PostRows /\ r \in RunRows /\ posts = [posts EXCEPT ![p] = posts[p]]
      /\ ProcessOK(posts[p], r)
  BY StaysPut
<1>2. /\ r.at \in 1..(Len(r.nodes) + 1) /\ r.ran = {r.nodes[i] : i \in 1..(r.at - 1)}
      /\ r.nodes \in Seq(NodeNames) /\ Len(r.nodes) \in Nat /\ DOMAIN r.nodes = 1..Len(r.nodes)
      /\ r.at \in Nat /\ r.at + 1 \in Nat
  BY <1>1 DEF ProcessOK, OrderOK, RunRows
<1>3. r.ran \cup {r.nodes[r.at]} \subseteq NodeNames
  BY <1>1, <1>2 DEF RunRows
<1>4. GoesTo(p, posts[p], w)
  BY <1>1 DEF GoesTo, Run
<1> HIDE DEF r
<1>5. /\ w \in RunRows /\ w.pc = r.pc /\ w.flow = r.flow /\ w.named = r.named /\ w.nodes = r.nodes
      /\ w.edges = r.edges /\ w.at = r.at + 1 /\ w.ran = r.ran \cup {r.nodes[r.at]}
  BY <1>1, <1>2, <1>3 DEF RunRows, Next1
<1> HIDE DEF w
<1>6. ReplyOK(posts[p], w)
  BY <1>1, <1>5 DEF ProcessOK, ReplyOK
<1>7. ChosenOK(posts[p], w)
  BY <1>1, <1>5 DEF ProcessOK, ChosenOK
<1>8. OrderOK(w)
  <2>1. w.at \in 1..(Len(w.nodes) + 1)
    BY <1>2, <1>5 DEF r
  <2>2. w.ran = {w.nodes[i] : i \in 1..(w.at - 1)}
    <3>1. 1..(w.at - 1) = 1..(r.at - 1) \cup {r.at}
      BY <1>2, <1>5
    <3> QED BY <1>2, <1>5, <3>1
  <2>3. r.pc = "step"
    BY DEF r
  <2> QED BY <1>1, <1>5, <2>1, <2>2, <2>3 DEF ProcessOK, OrderOK
<1>9. ProcessOK(posts[p], w)
  BY <1>1, <1>6, <1>7, <1>8 DEF ProcessOK
<1> QED BY <1>1, <1>4, <1>5, <1>9, GoesOn

LEMMA ExecuteStepKeeps == ASSUME WfInv, NEW p \in WProcs, ExecuteStep(p) PROVE WfInv' /\ EffectsStep
<1>1. /\ UNCHANGED <<sample, flows, drawing, wcache, wclock, since>> /\ wruns[p].pc = "step"
      /\ wruns[p].at <= Len(wruns[p].nodes) /\ <<>> \in Seq(NodeNames)
  BY DEF ExecuteStep
<1>2. wruns[p].effects \in Seq(NodeNames)
  BY StaysPut DEF RunRows
<1>3. Append(wruns[p].effects, "page") \in Seq(NodeNames)
  BY <1>2 DEF NodeNames
<1>4. CASE Ends(p, <<>>)
  BY <1>1, <1>4, EndsWell
<1>5. CASE wruns[p].nodes[wruns[p].at] = "stop" /\ Ends(p, wruns[p].effects)
  BY <1>1, <1>2, <1>5, EndsWell DEF Whole
<1>6. CASE Run(p, Next1(wruns[p], wruns[p].effects)) /\ UNCHANGED posts
  BY <1>1, <1>2, <1>6, NodeIsDone
<1>7. CASE Run(p, Next1(wruns[p], Append(wruns[p].effects, "page"))) /\ UNCHANGED posts
  BY <1>1, <1>3, <1>7, NodeIsDone
<1>8. \/ Ends(p, <<>>)
      \/ wruns[p].nodes[wruns[p].at] = "stop" /\ Ends(p, wruns[p].effects)
      \/ Run(p, Next1(wruns[p], wruns[p].effects)) /\ UNCHANGED posts
      \/ Run(p, Next1(wruns[p], Append(wruns[p].effects, "page"))) /\ UNCHANGED posts
  BY DEF ExecuteStep, StepThrows, Fails
<1> QED BY <1>4, <1>5, <1>6, <1>7, <1>8

LEMMA FinishRunKeeps == ASSUME WfInv, NEW p \in WProcs, FinishRun(p) PROVE WfInv' /\ EffectsStep
<1>1. wruns[p].effects \in Seq(NodeNames)
  BY StaysPut DEF RunRows
<1> QED BY <1>1, EndsWell DEF FinishRun, Whole

LEMMA FinishPostKeeps == ASSUME WfInv, NEW p \in WProcs, FinishPost(p) PROVE WfInv' /\ EffectsStep
<1>1. /\ wruns[p] \in RunRows /\ wruns = [wruns EXCEPT ![p] = wruns[p]] /\ ProcessOK(posts[p], wruns[p])
      /\ wruns[p].pc = "none" /\ UNCHANGED <<wruns, sample, flows, drawing, wcache, wclock, since>>
  BY StaysPut DEF FinishPost
<1>2. GoesTo(p, NoPost, wruns[p])
  BY <1>1 DEF FinishPost, GoesTo, Post
<1>3. NoPost.pc = "idle" /\ NoPost.effects = <<>> /\ ~NoPost.written /\ NoPost.reply = "none"
  BY DEF NoPost
<1>4. ChosenOK(NoPost, wruns[p])
  BY <1>1, NoChoice DEF ProcessOK
<1>5. ProcessOK(NoPost, wruns[p])
  BY <1>1, <1>3, <1>4 DEF ProcessOK, AskOK, ReplyOK
<1> QED BY <1>1, <1>2, <1>3, <1>5, NoneTyped, GoesOn

(* The cache is filled from a list that one lookup made.                   *)
LEMMA StoreTriggersKeeps == ASSUME WfInv, NEW p \in WProcs, StoreTriggers(p) PROVE WfInv' /\ EffectsStep
<1> DEFINE q == posts[p]
           n == [posts[p] EXCEPT !.pc = "answer", !.found = {}, !.failed = FALSE]
<1>1. /\ q \in PostRows /\ ProcessOK(q, wruns[p]) /\ q.pc = "store"
      /\ UNCHANGED <<sample, flows, drawing, wclock, wruns, since>> /\ posts' = [posts EXCEPT ![p] = n]
  BY StaysPut DEF StoreTriggers, Post
<1>2. /\ n \in PostRows /\ n.pc = "answer" /\ n.asked = q.asked /\ n.seen = q.seen /\ n.effects = q.effects
      /\ n.written = q.written /\ n.reply = q.reply /\ n.tenant = q.tenant /\ n.form = q.form
  BY <1>1 DEF PostRows
<1> HIDE DEF n
<1>3. /\ wcache'.loaded /\ wcache'.at = wclock /\ wcache'.failed = q.failed
      /\ wcache'.events = {flows[f].tenant : f \in {g \in q.found : flows[g].trigger = "created"}}
      /\ wcache'.tenants = {flows[f].tenant : f \in q.found}
  BY DEF StoreTriggers
<1> HIDE DEF q
<1>4. /\ posts \in [WProcs -> PostRows] /\ posts' \in [WProcs -> PostRows] /\ posts'[p] = n
      /\ \A o \in WProcs : o # p => posts'[o] = posts[o]
  BY <1>1, <1>2 DEF WfInv, WfTypes
<1>5. /\ wclock \in Nat /\ MaxAsk \in Nat /\ TTL \in Nat \ {0} /\ since \in [Flows -> Nat]
      /\ q.asked <= wclock /\ wclock <= q.asked + MaxAsk /\ q.asked \in Nat
      /\ ~q.failed => \A f \in Published : f \in q.found \/ since[f] >= q.asked
  <2>1. /\ wclock \in 0..MaxT /\ since \in [Flows -> 0..(MaxT + 1)] /\ MaxT \in Nat /\ MaxAsk \in Nat
        /\ TTL \in Nat \ {0}
    BY WorkflowAssumption DEF WfInv, WfTypes
  <2>2. wclock \in Nat /\ since \in [Flows -> Nat]
    BY <2>1
  <2>3. q.asked <= wclock /\ wclock <= q.asked + MaxAsk
    BY <1>1 DEF ProcessOK, AskOK
  <2>4. ~q.failed => \A f \in Published : f \in q.found \/ since[f] >= q.asked
    BY <1>1 DEF ProcessOK, AskOK
  <2>5. q.asked \in Nat
    BY <1>1 DEF PostRows
  <2> QED BY <2>1, <2>2, <2>3, <2>4, <2>5
<1>6. WfTypes'
  BY <1>1, <1>4 DEF WfInv, WfTypes, Distinct
<1>7. CacheOK'
  <2>1. wcache'.at \in Nat /\ wcache'.at <= wclock' /\ wcache'.events \subseteq wcache'.tenants
    BY <1>1, <1>3, <1>5
  <2>2. ASSUME ~q.failed, NEW f \in Flows, flows[f].published
        PROVE  flows[f].tenant \in wcache'.tenants \/ since[f] >= wclock - MaxAsk
    <3>1. f \in Published
      BY <2>2 DEF Published
    <3>2. CASE f \in q.found
      BY <1>3, <3>2
    <3>3. CASE since[f] >= q.asked
      <4>1. since[f] \in Nat
        BY <1>5
      <4> QED BY <1>5, <3>3, <4>1
    <3> QED BY <1>5, <2>2, <3>1, <3>2, <3>3
  <2> QED BY <1>1, <1>3, <2>1, <2>2 DEF CacheOK
<1>8. ASSUME NEW o \in WProcs PROVE ProcessOK(posts[o], wruns[o])'
  <2>1. ProcessOK(posts[o], wruns[o])
    BY DEF WfInv
  <2>2. AskOK(posts[o])'
    <3>1. CASE o = p
      BY <1>1, <1>2, <1>3, <1>4, <1>5, <3>1 DEF AskOK
    <3>2. CASE o # p
      <4>1. posts'[o] = posts[o] /\ posts[o].asked \in Nat
        BY <1>4, <3>2 DEF PostRows
      <4> QED BY <1>1, <1>3, <1>5, <2>1, <4>1 DEF ProcessOK, AskOK, Published
    <3> QED BY <3>1, <3>2
  <2>3. /\ posts'[o].pc = "wait" <=> posts[o].pc = "wait"
        /\ posts'[o].pc = "done" <=> posts[o].pc = "done"
        /\ posts'[o].pc = "write" <=> posts[o].pc = "write"
        /\ posts'[o].pc = "idle" <=> posts[o].pc = "idle"
        /\ posts'[o].seen = posts[o].seen /\ posts'[o].tenant = posts[o].tenant /\ posts'[o].form = posts[o].form
        /\ posts'[o].written = posts[o].written /\ posts'[o].reply = posts[o].reply
    BY <1>1, <1>2, <1>4 DEF q
  <2>4. ReplyOK(posts[o], wruns[o])'
    BY <1>1, <2>1, <2>3 DEF ProcessOK, ReplyOK, Published
  <2>5. ChosenOK(posts[o], wruns[o])' /\ OrderOK(wruns[o])'
    BY <1>1, <2>1, <2>3 DEF ProcessOK, ChosenOK
  <2> QED BY <2>2, <2>4, <2>5 DEF ProcessOK
<1>9. EffectsStep
  BY <1>2, <1>4 DEF EffectsStep, q
<1> QED BY <1>6, <1>7, <1>8, <1>9 DEF WfInv

LEMMA PublishKeeps == ASSUME WfInv, NEW f \in Flows, Publish(f) PROVE WfInv' /\ EffectsStep
<1> DEFINE seen(o) == IF posts[o].pc = "idle" THEN {} ELSE posts[o].seen \cup {f}
<1>1. /\ flows' = [flows EXCEPT ![f].published = TRUE] /\ since' = [since EXCEPT ![f] = wclock]
      /\ posts' = [o \in WProcs |-> [posts[o] EXCEPT !.seen = seen(o)]]
      /\ UNCHANGED <<sample, drawing, wcache, wclock, wruns>> /\ ~flows[f].published
  BY DEF Publish
<1>2. /\ flows \in [Flows -> FlowRows] /\ posts \in [WProcs -> PostRows] /\ wruns \in [WProcs -> RunRows]
      /\ since \in [Flows -> 0..(MaxT + 1)] /\ wclock \in 0..MaxT /\ MaxT \in Nat /\ MaxAsk \in Nat
  BY WorkflowAssumption DEF WfInv, WfTypes
<1>3. /\ flows' \in [Flows -> FlowRows] /\ flows'[f].published
      /\ \A g \in Flows : /\ flows'[g].tenant = flows[g].tenant /\ flows'[g].trigger = flows[g].trigger
                          /\ flows'[g].form = flows[g].form /\ (g # f => flows'[g] = flows[g])
  BY <1>1, <1>2 DEF FlowRows
<1>4. since' \in [Flows -> 0..(MaxT + 1)] /\ since'[f] = wclock /\ \A g \in Flows : g # f => since'[g] = since[g]
  BY <1>1, <1>2
<1>5. \A o \in WProcs : seen(o) \in SUBSET Flows
  BY <1>2 DEF PostRows
<1>6. ASSUME NEW o \in WProcs
      PROVE  /\ posts'[o] \in PostRows /\ posts'[o].seen = seen(o)
             /\ posts'[o].pc = posts[o].pc /\ posts'[o].asked = posts[o].asked /\ posts'[o].found = posts[o].found
             /\ posts'[o].failed = posts[o].failed /\ posts'[o].effects = posts[o].effects
             /\ posts'[o].written = posts[o].written /\ posts'[o].reply = posts[o].reply
             /\ posts'[o].tenant = posts[o].tenant /\ posts'[o].form = posts[o].form
  <2>1. posts[o] \in PostRows /\ posts'[o] = [posts[o] EXCEPT !.seen = seen(o)] /\ seen(o) \in SUBSET Flows
    BY <1>1, <1>2, <1>5
  <2> HIDE DEF seen
  <2> QED BY <2>1 DEF PostRows
<1>7. posts' \in [WProcs -> PostRows]
  BY <1>1, <1>6
<1>8. Published' = Published \cup {f}
  BY <1>2, <1>3 DEF Published
<1>9. WfTypes'
  <2>3. \A g \in Flows : flows[g].published => since[g] <= wclock
    BY DEF WfInv, WfTypes
  <2>4. \A g \in Flows : ~flows[g].published => since[g] = MaxT + 1
    BY DEF WfInv, WfTypes
  <2>5. wclock <= wclock
    BY <1>2
  <2>1. \A g \in Flows : flows'[g].published => since'[g] <= wclock
    BY <1>3, <1>4, <2>3, <2>5
  <2>2. \A g \in Flows : ~flows'[g].published => since'[g] = MaxT + 1
    BY <1>3, <1>4, <2>4
  <2> QED BY <1>1, <1>3, <1>4, <1>7, <2>1, <2>2 DEF WfInv, WfTypes, Distinct
<1>10. CacheOK'
  <2>1. CacheOK /\ wcache.at \in Nat /\ wcache.at <= wclock
    BY DEF WfInv, CacheOK
  <2>2. ASSUME wcache.loaded, ~wcache.failed, NEW g \in Flows, flows'[g].published
        PROVE  flows'[g].tenant \in wcache.tenants \/ since'[g] >= wcache.at - MaxAsk
    <3>1. CASE g = f
      BY <1>2, <1>4, <2>1, <3>1
    <3>2. CASE g # f
      BY <1>3, <1>4, <2>1, <2>2, <3>2 DEF CacheOK
    <3> QED BY <3>1, <3>2
  <2> QED BY <1>1, <2>1, <2>2 DEF CacheOK
<1>11. ASSUME NEW o \in WProcs PROVE ProcessOK(posts[o], wruns[o])'
  <2>1. ProcessOK(posts[o], wruns[o]) /\ posts[o] \in PostRows
    BY <1>2 DEF WfInv
  <2>2. AskOK(posts[o])'
    <3>1. ASSUME posts[o].pc = "store", ~posts[o].failed, NEW g \in Published'
          PROVE  g \in posts[o].found \/ since'[g] >= posts[o].asked
      <4>1. posts[o].asked <= wclock /\ posts[o].asked \in Nat
        BY <2>1, <3>1 DEF ProcessOK, AskOK, PostRows
      <4>2. CASE g = f
        BY <1>2, <1>4, <4>1, <4>2
      <4>3. CASE g # f
        BY <1>4, <1>8, <2>1, <3>1, <4>3 DEF ProcessOK, AskOK, Published
      <4> QED BY <4>2, <4>3
    <3> QED BY <1>1, <1>6, <2>1, <3>1 DEF ProcessOK, AskOK
  <2>3. ReplyOK(posts[o], wruns[o])'
    <3>1. posts[o].pc # "idle" => Published' \subseteq seen(o)
      BY <1>8, <2>1 DEF ProcessOK, ReplyOK
    <3> HIDE DEF seen
    <3> QED BY <1>1, <1>6, <2>1, <3>1 DEF ProcessOK, ReplyOK
  <2>4. ChosenOK(posts[o], wruns[o])'
    <3>1. wruns[o].flow \in Flows => posts[o].pc # "idle"
      BY <2>1 DEF ProcessOK, ReplyOK, ChosenOK
    <3>2. wruns[o].flow \in Flows => wruns[o].flow \in seen(o)
      BY <2>1, <3>1 DEF ProcessOK, ChosenOK
    <3> HIDE DEF seen
    <3> QED BY <1>1, <1>3, <1>6, <2>1, <3>2 DEF ProcessOK, ChosenOK
  <2>5. OrderOK(wruns[o])'
    BY <1>1, <2>1 DEF ProcessOK
  <2> QED BY <2>2, <2>3, <2>4, <2>5 DEF ProcessOK
<1>12. EffectsStep
  BY <1>6 DEF EffectsStep
<1> QED BY <1>9, <1>10, <1>11, <1>12 DEF WfInv

LEMMA UnpublishKeeps == ASSUME WfInv, NEW f \in Flows, Unpublish(f) PROVE WfInv' /\ EffectsStep
<1>1. /\ flows' = [flows EXCEPT ![f].published = FALSE] /\ since' = [since EXCEPT ![f] = MaxT + 1]
      /\ UNCHANGED <<sample, drawing, wcache, wclock, posts, wruns>>
  BY DEF Unpublish
<1>2. /\ flows \in [Flows -> FlowRows] /\ posts \in [WProcs -> PostRows] /\ wruns \in [WProcs -> RunRows]
      /\ since \in [Flows -> 0..(MaxT + 1)] /\ wclock \in 0..MaxT /\ MaxT \in Nat /\ MaxAsk \in Nat
  BY WorkflowAssumption DEF WfInv, WfTypes
<1>3. /\ flows' \in [Flows -> FlowRows] /\ ~flows'[f].published
      /\ \A g \in Flows : /\ flows'[g].tenant = flows[g].tenant /\ flows'[g].trigger = flows[g].trigger
                          /\ flows'[g].form = flows[g].form /\ (g # f => flows'[g] = flows[g])
  BY <1>1, <1>2 DEF FlowRows
<1>4. since' \in [Flows -> 0..(MaxT + 1)] /\ since'[f] = MaxT + 1 /\ \A g \in Flows : g # f => since'[g] = since[g]
  BY <1>1, <1>2
<1>5. \A g \in Flows : flows'[g].published => g # f /\ flows[g].published /\ since'[g] = since[g]
  BY <1>3, <1>4
<1>6. \A g \in Published' : g \in Published /\ since'[g] = since[g]
  BY <1>5 DEF Published
<1>7. WfTypes'
  <2>1. \A g \in Flows : flows[g].published => since[g] <= wclock
    BY DEF WfInv, WfTypes
  <2>2. \A g \in Flows : ~flows[g].published => since[g] = MaxT + 1
    BY DEF WfInv, WfTypes
  <2>3. \A g \in Flows : flows'[g].published => since'[g] <= wclock
    BY <1>5, <2>1
  <2>4. \A g \in Flows : ~flows'[g].published => since'[g] = MaxT + 1
    BY <1>3, <1>4, <2>2
  <2> QED BY <1>1, <1>3, <1>4, <2>3, <2>4 DEF WfInv, WfTypes, Distinct
<1>8. CacheOK'
  BY <1>1, <1>3, <1>5 DEF WfInv, CacheOK
<1>9. ASSUME NEW o \in WProcs PROVE ProcessOK(posts[o], wruns[o])'
  <2>1. ProcessOK(posts[o], wruns[o])
    BY DEF WfInv
  <2>2. AskOK(posts[o])'
    BY <1>1, <1>6, <2>1 DEF ProcessOK, AskOK
  <2>3. ReplyOK(posts[o], wruns[o])'
    BY <1>1, <1>6, <2>1 DEF ProcessOK, ReplyOK
  <2>4. ChosenOK(posts[o], wruns[o])'
    BY <1>1, <1>3, <2>1 DEF ProcessOK, ChosenOK
  <2> QED BY <1>1, <2>1, <2>2, <2>3, <2>4 DEF ProcessOK
<1>10. EffectsStep
  BY <1>1 DEF EffectsStep
<1> QED BY <1>7, <1>8, <1>9, <1>10 DEF WfInv

(* Nothing that has begun looks at the drawing again for its order.        *)
LEMMA RedrawKeeps ==
    ASSUME WfInv, NEW edges \in Seq(NodeNames \X NodeNames), Redraw(edges)
    PROVE  WfInv' /\ EffectsStep
<1>1. /\ drawing' = [drawing EXCEPT !.edges = edges]
      /\ UNCHANGED <<sample, flows, wcache, wclock, posts, wruns, since>>
  BY DEF Redraw
<1>2. drawing' \in DrawingRows /\ drawing'.keys = drawing.keys
  BY <1>1 DEF WfInv, WfTypes, DrawingRows
<1>3. WfTypes'
  BY <1>1, <1>2 DEF WfInv, WfTypes, Distinct
<1>4. CacheOK'
  BY <1>1 DEF WfInv, CacheOK
<1>5. ASSUME NEW o \in WProcs PROVE ProcessOK(posts[o], wruns[o])'
  BY <1>1 DEF WfInv, ProcessOK, AskOK, ReplyOK, ChosenOK, Published
<1> QED BY <1>1, <1>3, <1>4, <1>5 DEF WfInv, EffectsStep

LEMMA TickKeeps == ASSUME WfInv, TickWf PROVE WfInv' /\ EffectsStep
<1>1. /\ wclock < MaxT /\ wclock' = wclock + 1 /\ UNCHANGED <<sample, flows, drawing, wcache, posts, wruns, since>>
      /\ \A p \in WProcs : Asking(p) => wclock < posts[p].asked + MaxAsk
  BY DEF TickWf
<1>2. wclock \in 0..MaxT /\ MaxT \in Nat /\ MaxAsk \in Nat /\ since \in [Flows -> 0..(MaxT + 1)]
      /\ posts \in [WProcs -> PostRows]
  BY WorkflowAssumption DEF WfInv, WfTypes
<1>3. WfTypes'
  <2>1. wclock' \in 0..MaxT
    BY <1>1, <1>2
  <2>2. \A f \in Flows : flows[f].published => since[f] <= wclock'
    BY <1>1, <1>2 DEF WfInv, WfTypes
  <2> QED BY <1>1, <2>1, <2>2 DEF WfInv, WfTypes, Distinct
<1>4. CacheOK'
  <2>1. wcache.at \in Nat /\ wcache.at <= wclock
    BY DEF WfInv, CacheOK
  <2>2. wcache.at <= wclock'
    BY <1>1, <1>2, <2>1
  <2> QED BY <1>1, <2>2 DEF WfInv, CacheOK
<1>5. ASSUME NEW o \in WProcs PROVE ProcessOK(posts[o], wruns[o])'
  <2>1. ProcessOK(posts[o], wruns[o])
    BY DEF WfInv
  <2>2. posts[o].asked \in Nat
    BY <1>2 DEF PostRows
  <2>3. AskOK(posts[o])'
    <3>1. posts[o].pc \in {"list", "store", "answer"} => posts[o].asked <= wclock' /\ wclock' <= posts[o].asked + MaxAsk
      BY <1>1, <1>2, <2>1, <2>2 DEF ProcessOK, AskOK, Asking
    <3> QED BY <1>1, <2>1, <3>1 DEF ProcessOK, AskOK, Published
  <2> QED BY <1>1, <2>1, <2>3 DEF ProcessOK, ReplyOK, ChosenOK, Published
<1> QED BY <1>1, <1>3, <1>4, <1>5 DEF WfInv, EffectsStep

LEMMA WorkflowInit == InitWorkflow => WfInv
<1> SUFFICES ASSUME InitWorkflow PROVE WfInv
  OBVIOUS
<1>1. MaxT \in Nat /\ MaxAsk \in Nat
  BY WorkflowAssumption
<1>2. flows \in [Flows -> FlowRows] /\ wclock = 0 /\ sample \in Samples
      /\ posts = [p \in WProcs |-> NoPost] /\ wruns = [p \in WProcs |-> NoRun]
      /\ since = [f \in Flows |-> IF flows[f].published THEN 0 ELSE MaxT + 1]
      /\ ~wcache.loaded /\ wcache.at = 0 /\ wcache.events = {} /\ wcache.tenants = {}
  BY DEF InitWorkflow
<1>3. drawing \in DrawingRows /\ Distinct(drawing.keys)
  <2>1. ASSUME NEW d \in Drawings PROVE d \in DrawingRows /\ Distinct(d.keys)
    <3>1. << <<"create", "page">> >> \in Seq(NodeNames \X NodeNames)
          /\ << <<"page", "create">>, <<"create", "page">> >> \in Seq(NodeNames \X NodeNames)
          /\ <<>> \in Seq(NodeNames \X NodeNames)
      BY DEF NodeNames
    <3>2. <<"stop", "page", "create">> \in Seq(NodeNames) /\ <<"page", "create">> \in Seq(NodeNames)
          /\ <<"mystery", "stop", "page">> \in Seq(NodeNames)
      BY DEF NodeNames
    <3>3. Distinct(<<"stop", "page", "create">>) /\ Distinct(<<"page", "create">>) /\ Distinct(<<"mystery", "stop", "page">>)
      BY DEF Distinct
    <3>4. CASE d = [keys |-> <<"stop", "page", "create">>, edges |-> << <<"create", "page">> >>, is |-> "not empty"]
      BY <3>1, <3>2, <3>3, <3>4 DEF DrawingRows
    <3>5. CASE d = [keys |-> <<"page", "create">>, edges |-> << <<"page", "create">>, <<"create", "page">> >>,
                    is |-> "not empty"]
      BY <3>1, <3>2, <3>3, <3>5 DEF DrawingRows
    <3>6. CASE d = [keys |-> <<"mystery", "stop", "page">>, edges |-> <<>>, is |-> "sounds like"]
      BY <3>1, <3>2, <3>3, <3>6 DEF DrawingRows
    <3> QED BY <3>4, <3>5, <3>6 DEF Drawings
  <2> QED BY <2>1 DEF InitWorkflow
<1>4. WfTypes
  <2>1. 0 \in 0..MaxT /\ since \in [Flows -> 0..(MaxT + 1)]
    BY <1>1, <1>2
  <2> QED BY <1>2, <1>3, <2>1, NoneTyped DEF WfTypes
<1>5. CacheOK
  BY <1>2 DEF CacheOK
<1>6. ASSUME NEW p \in WProcs PROVE ProcessOK(posts[p], wruns[p])
  <2>1. posts[p] = NoPost /\ wruns[p] = NoRun
    BY <1>2
  <2>2. NoPost.pc = "idle" /\ NoPost.reply = "none" /\ ~NoPost.written /\ NoRun.pc = "none"
    BY DEF NoPost, NoRun
  <2> QED BY <2>1, <2>2, NoRunOK DEF ProcessOK, AskOK, ReplyOK
<1> QED BY <1>4, <1>5, <1>6 DEF WfInv

LEMMA WorkflowStep == WfInv /\ [NextWorkflow]_wfVars => WfInv' /\ EffectsStep
<1> SUFFICES ASSUME WfInv, [NextWorkflow]_wfVars PROVE WfInv' /\ EffectsStep
  OBVIOUS
<1>1. ASSUME NEW p \in WProcs, PostStep(p) PROVE WfInv' /\ EffectsStep
  BY <1>1, ListTriggersKeeps, StoreTriggersKeeps, AnswerBeforeKeeps, AnswerAfterKeeps, WriteRowKeeps, FinishPostKeeps
     DEF PostStep
<1>2. ASSUME NEW p \in WProcs, RunStep(p) PROVE WfInv' /\ EffectsStep
  BY <1>2, ChooseWorkflowKeeps, LoadFileKeeps, ReadNodesKeeps, ReadEdgesKeeps, ExecuteStepKeeps, FinishRunKeeps
     DEF RunStep
<1>3. ASSUME NEW p \in WProcs, NEW t \in WTenants, NEW n \in {""} \cup Flows, NEW v \in {"", "x"},
             PostRecord(p, t, v, n, v)
      PROVE  WfInv' /\ EffectsStep
  BY <1>3, PostRecordKeeps
<1>4. ASSUME NEW f \in Flows, Publish(f) \/ Unpublish(f) PROVE WfInv' /\ EffectsStep
  BY <1>4, PublishKeeps, UnpublishKeeps
<1>5. CASE Redraw(<< <<"create", "page">> >>)
  <2>1. << <<"create", "page">> >> \in Seq(NodeNames \X NodeNames)
    BY DEF NodeNames
  <2> QED BY <1>5, <2>1, RedrawKeeps
<1>6. CASE TickWf
  BY <1>6, TickKeeps
<1>7. CASE UNCHANGED wfVars
  BY <1>7 DEF wfVars, WfInv, WfTypes, Distinct, CacheOK, ProcessOK, AskOK, ReplyOK, ChosenOK, Published, EffectsStep
<1> QED BY <1>1, <1>2, <1>3, <1>4, <1>5, <1>6, <1>7 DEF NextWorkflow

(* A miss was asked of a fresh cache, filled from a list that is not older *)
(* than two lookups and the cache's life.                                  *)
Missed(p) ==
    posts[p].pc = "answer" /\ posts'[p].pc # "answer" /\ ~Listens(posts[p].tenant) /\ ~wcache.failed =>
       \A f \in Published : flows[f].tenant = posts[p].tenant => since[f] > wclock - TTL - 2 * MaxAsk

LEMMA RecentMisses == WfInv => \A p \in WProcs : Missed(p)
<1> SUFFICES ASSUME WfInv, NEW p \in WProcs, posts[p].pc = "answer", ~Listens(posts[p].tenant), ~wcache.failed,
                    NEW f \in Published, flows[f].tenant = posts[p].tenant
             PROVE  since[f] > wclock - TTL - 2 * MaxAsk
  BY DEF Missed
<1>1. f \in Flows /\ flows[f].published
  BY DEF Published
<1>2. /\ posts[p].asked <= wclock /\ wclock <= posts[p].asked + MaxAsk
      /\ wcache.loaded /\ posts[p].asked - wcache.at < TTL
  BY DEF WfInv, ProcessOK, AskOK
<1>3. flows[f].tenant \notin wcache.tenants
  BY DEF Listens
<1>4. wcache.at \in Nat /\ since[f] >= wcache.at - MaxAsk
  BY <1>1, <1>2, <1>3 DEF WfInv, CacheOK
<1>5. /\ posts[p].asked \in Nat /\ MaxT \in Nat /\ MaxAsk \in Nat /\ TTL \in Nat \ {0} /\ wclock \in 0..MaxT
      /\ since[f] \in 0..(MaxT + 1)
  BY <1>1, WorkflowAssumption DEF WfInv, WfTypes, PostRows
<1> QED BY <1>2, <1>4, <1>5

LEMMA RunsOK ==
    WfInv => /\ TypeOKWorkflow /\ OrderIsSound /\ RunsWereChosen /\ PredecessorsRanFirst /\ SubmissionsSucceed
<1> SUFFICES ASSUME WfInv
             PROVE  /\ TypeOKWorkflow /\ OrderIsSound /\ RunsWereChosen /\ PredecessorsRanFirst /\ SubmissionsSucceed
  OBVIOUS
<1>1. TypeOKWorkflow
  <2>1. ASSUME NEW f \in Flows PROVE flows[f].published <=> since[f] <= wclock
    <3>1. wclock \in 0..MaxT /\ MaxT \in Nat /\ flows[f].published \in BOOLEAN
      BY WorkflowAssumption DEF WfInv, WfTypes, FlowRows
    <3>2. flows[f].published => since[f] <= wclock
      BY DEF WfInv, WfTypes
    <3>3. ~flows[f].published => since[f] = MaxT + 1
      BY DEF WfInv, WfTypes
    <3> QED BY <3>1, <3>2, <3>3
  <2> QED BY <2>1 DEF TypeOKWorkflow, WfInv, CacheOK, ProcessOK, ReplyOK
<1>2. OrderIsSound
  <2>1. sample.keys \in Seq(Nat) /\ sample.edges \in Seq(Nat \X Nat)
    <3>1. sample \in Samples /\ MaxNodes \in Nat
      BY WorkflowAssumption DEF WfInv, WfTypes
    <3>2. /\ sample.keys \in UNION {[1..n -> 1..MaxNodes] : n \in 0..MaxNodes}
          /\ sample.edges \in UNION {[1..n -> (1..MaxNodes) \X (1..MaxNodes + 1)] : n \in 0..MaxNodes}
      BY <3>1 DEF Samples
    <3>3. PICK n \in 0..MaxNodes : sample.keys \in [1..n -> 1..MaxNodes]
      BY <3>2
    <3>4. PICK m \in 0..MaxNodes : sample.edges \in [1..m -> (1..MaxNodes) \X (1..MaxNodes + 1)]
      BY <3>2
    <3>5. n \in Nat /\ m \in Nat /\ 1..MaxNodes \subseteq Nat /\ 1..(MaxNodes + 1) \subseteq Nat
      BY <3>1
    <3>6. sample.keys \in [1..n -> Nat] /\ sample.edges \in [1..m -> Nat \X Nat]
      BY <3>3, <3>4, <3>5
    <3> QED BY <3>5, <3>6
  <2> QED BY <2>1, SortIsSound DEF OrderIsSound
<1>3. RunsWereChosen
  BY DEF RunsWereChosen, WfInv, ProcessOK, ChosenOK
<1>4. PredecessorsRanFirst
  <2> SUFFICES ASSUME NEW p \in WProcs, NEW e \in ToSet(wruns[p].edges), e[1] \in ToSet(wruns[p].nodes),
                      e[2] \in wruns[p].ran, ~Cyclic(wruns[p].nodes, wruns[p].edges)
               PROVE  e[1] \in wruns[p].ran
    BY DEF PredecessorsRanFirst
  <2> DEFINE r == wruns[p]
  <2>1. r \in RunRows /\ OrderOK(r)
    BY StaysPut DEF ProcessOK
  <2>2. /\ r.nodes \in Seq(NodeNames) /\ r.edges \in Seq(NodeNames \X NodeNames) /\ r.at \in 1..(Len(r.nodes) + 1)
        /\ r.ran = {r.nodes[i] : i \in 1..(r.at - 1)} /\ Follows(r.nodes, r.edges)
    BY <2>1 DEF RunRows, OrderOK
  <2>3. PICK i \in DOMAIN r.edges : r.edges[i] = e
    BY DEF ToSet
  <2>4. PICK a \in DOMAIN r.nodes : r.nodes[a] = e[1]
    BY DEF ToSet
  <2>5. PICK b \in 1..(r.at - 1) : r.nodes[b] = e[2]
    BY <2>2
  <2>6. b \in DOMAIN r.nodes /\ r.edges[i] = <<e[1], e[2]>>
    BY <2>2, <2>3, <2>5
  <2>7. a < b
    BY <2>2, <2>3, <2>4, <2>5, <2>6 DEF Follows
  <2>8. a \in 1..(r.at - 1)
    BY <2>2, <2>4, <2>5, <2>7
  <2> QED BY <2>2, <2>4, <2>8
<1>5. SubmissionsSucceed
  BY DEF SubmissionsSucceed, WfInv, ProcessOK, ReplyOK
<1> QED BY <1>1, <1>2, <1>3, <1>4, <1>5

THEOREM RunsStaySound == SpecWorkflow => RunsAreSound
<1>1. SpecWorkflow => []WfInv
  BY WorkflowInit, WorkflowStep, PTL DEF SpecWorkflow
<1>2. WfInv => [\A p \in WProcs : Missed(p)]_wfVars
  BY RecentMisses
<1>3. WfInv /\ [NextWorkflow]_wfVars => [EffectsStep]_wfVars
  BY WorkflowStep
<1>4. SpecWorkflow => [][\A p \in WProcs : Missed(p)]_wfVars
  BY <1>1, <1>2, PTL DEF SpecWorkflow
<1>5. SpecWorkflow => [][EffectsStep]_wfVars
  BY <1>1, <1>3, PTL DEF SpecWorkflow
<1>6. SpecWorkflow => [](/\ TypeOKWorkflow /\ OrderIsSound /\ RunsWereChosen /\ PredecessorsRanFirst /\ SubmissionsSucceed)
  BY <1>1, RunsOK, PTL
<1> QED BY <1>4, <1>5, <1>6, PTL
       DEF RunsAreSound, MissesAreRecent, Missed, EffectsAreOfWholeRuns, EffectsStep, Whole

(***************************************************************************)
(* RowWriting                                                              *)
(***************************************************************************)
(* A loop that passes by some columns collects a sequence of the others.   *)
LEMMA PickedIsSequence ==
    ASSUME NEW S, NEW cols \in Seq(S), NEW names
    PROVE  Picked(cols, names) \in Seq(S)
<1> DEFINE Body(k, n) == IF n = 0 THEN <<>> ELSE IF cols[n] \in names THEN Append(k[n - 1], cols[n]) ELSE k[n - 1]
           Collects(k, m) == k \in [0..m -> Seq(S)] /\ k = [n \in 0..m |-> Body(k, n)]
           size == Len(cols)
           T == {m \in Nat : m <= size => \E k : Collects(k, m)}
<1>1. size \in Nat /\ \A n \in 1..size : cols[n] \in S
  OBVIOUS
<1>2. 0 \in T
  <2> DEFINE k == [n \in 0..0 |-> <<>>]
  <2>1. <<>> \in Seq(S)
    OBVIOUS
  <2>2. k \in [0..0 -> Seq(S)]
    BY <2>1
  <2>3. k = [n \in 0..0 |-> Body(k, n)]
    OBVIOUS
  <2> HIDE DEF k, Body
  <2> QED BY <2>2, <2>3
<1>3. ASSUME NEW m \in Nat, m \in T PROVE m + 1 \in T
  <2> HIDE DEF Collects
  <2> SUFFICES ASSUME m + 1 <= size PROVE \E k : Collects(k, m + 1)
    OBVIOUS
  <2> USE DEF Collects
  <2> HIDE DEF size
  <2>1. m <= size /\ m + 1 \in 1..size
    BY <1>1
  <2>2. PICK k : Collects(k, m)
    BY <1>3, <2>1
  <2> DEFINE h == [n \in 0..(m + 1) |-> IF n = m + 1 THEN Body(k, n) ELSE k[n]]
  <2>3. Body(k, m + 1) \in Seq(S)
    <3>1. k[m] \in Seq(S) /\ (m + 1) - 1 = m /\ cols[m + 1] \in S /\ m + 1 # 0
      BY <1>1, <2>1, <2>2
    <3> QED BY <3>1
  <2> HIDE DEF Body
  <2>4. k \in [0..m -> Seq(S)] /\ \A n \in 0..m : k[n] = Body(k, n)
    BY <2>2
  <2>5. h \in [0..(m + 1) -> Seq(S)]
    BY <2>3, <2>4
  <2>6. ASSUME NEW n \in 0..(m + 1) PROVE h[n] = Body(h, n)
    <3>1. CASE n = 0
      <4>1. Body(h, n) = Body(k, n) /\ n \in 0..m /\ n # m + 1
        BY <3>1 DEF Body
      <4> HIDE DEF h
      <4>2. h[n] = k[n]
        BY <4>1 DEF h
      <4> QED BY <2>4, <4>1, <4>2
    <3>2. CASE n # 0
      <4>1. n - 1 \in 0..m /\ n - 1 # m + 1 /\ n - 1 \in 0..(m + 1)
        BY <3>2
      <4>2. h[n - 1] = k[n - 1]
        BY <4>1
      <4> HIDE DEF h
      <4>3. Body(h, n) = Body(k, n)
        BY <4>2 DEF Body
      <4>4. h[n] = Body(k, n)
        <5>1. CASE n = m + 1 BY <5>1 DEF h
        <5>2. CASE n # m + 1
          <6>1. n \in 0..m
            BY <5>2
          <6> QED BY <2>4, <5>2, <6>1 DEF h
        <5> QED BY <5>1, <5>2
      <4> QED BY <4>3, <4>4
    <3> QED BY <3>1, <3>2
  <2> HIDE DEF h
  <2>7. h = [n \in 0..(m + 1) |-> Body(h, n)]
    BY <2>5, <2>6
  <2> QED BY <2>5, <2>7
<1> HIDE DEF T, Collects
<1>4. Nat \subseteq T
  BY <1>2, <1>3, SetInduction
<1>5. PICK k : Collects(k, size)
  BY <1>1, <1>4 DEF T
<1> DEFINE kept == CHOOSE c : c = [n \in 0..size |-> Body(c, n)]
<1>6. Picked(cols, names) = kept[size]
  BY DEF Picked
<1>7. k = [n \in 0..size |-> Body(k, n)] /\ k \in [0..size -> Seq(S)]
  BY <1>5 DEF Collects
<1>8. kept = [n \in 0..size |-> Body(kept, n)]
  <2> HIDE DEF Body, size
  <2> QED BY <1>7
<1> HIDE DEF kept
<1> DEFINE U == {m \in Nat : m <= size => kept[m] \in Seq(S)}
<1>9. 0 \in U
  <2>1. kept[0] = <<>>
    BY <1>1, <1>8
  <2>2. <<>> \in Seq(S)
    OBVIOUS
  <2> QED BY <2>1, <2>2
<1>10. ASSUME NEW m \in Nat, m \in U PROVE m + 1 \in U
  <2> SUFFICES ASSUME m + 1 <= size PROVE kept[m + 1] \in Seq(S)
    OBVIOUS
  <2>1. m + 1 \in 0..size /\ m + 1 \in 1..size /\ m <= size /\ (m + 1) - 1 = m /\ m + 1 # 0
    BY <1>1
  <2>2. kept[m + 1] = Body(kept, m + 1)
    <3> HIDE DEF Body, size
    <3> QED BY <1>8, <2>1
  <2>3. kept[m] \in Seq(S) /\ cols[m + 1] \in S
    BY <1>1, <1>10, <2>1
  <2> QED BY <2>1, <2>2, <2>3
<1> HIDE DEF U
<1>11. Nat \subseteq U
  BY <1>9, <1>10, SetInduction
<1> QED
  BY <1>1, <1>6, <1>11 DEF U

(* The statement is what ColumnsGetTheirValues says of it.                 *)
Right(kind, s) ==
    /\ Len(s.params) = Len(s.set) + Len(s.where)
    /\ \A i \in DOMAIN s.set : s.params[s.set[i].hole] = Given(s.set[i].col)
    /\ \A i \in DOMAIN s.where :
          s.params[s.where[i].hole] = IF kind = "update" THEN RowId ELSE Wanted(s.where[i].col)

(* Columns with holes are as many as the columns.                          *)
LEMMA HoledColumns ==
    ASSUME NEW S, NEW cols \in Seq(S), NEW first \in Nat
    PROVE  /\ Len(cols) \in Nat /\ DOMAIN cols = 1..Len(cols)
           /\ Len(Holed(cols, first)) = Len(cols) /\ DOMAIN Holed(cols, first) = 1..Len(cols)
           /\ Len(GivenAll(cols)) = Len(cols) /\ Len(WantedAll(cols)) = Len(cols)
           /\ GivenAll(cols) \in Seq({Given(f) : f \in S}) /\ WantedAll(cols) \in Seq({Wanted(f) : f \in S})
<1>1. Len(cols) \in Nat /\ DOMAIN cols = 1..Len(cols) /\ \A i \in 1..Len(cols) : cols[i] \in S
  OBVIOUS
<1>2. Holed(cols, first) = [i \in 1..Len(cols) |-> [col |-> cols[i], hole |-> first + i - 1]]
  BY <1>1 DEF Holed
<1>3. Len(Holed(cols, first)) = Len(cols) /\ DOMAIN Holed(cols, first) = 1..Len(cols)
  BY <1>1, <1>2
<1>4. GivenAll(cols) = [i \in 1..Len(cols) |-> Given(cols[i])] /\ WantedAll(cols) = [i \in 1..Len(cols) |-> Wanted(cols[i])]
  BY <1>1 DEF GivenAll, WantedAll
<1>5. GivenAll(cols) \in Seq({Given(f) : f \in S}) /\ Len(GivenAll(cols)) = Len(cols)
  BY <1>1, <1>4
<1>6. WantedAll(cols) \in Seq({Wanted(f) : f \in S}) /\ Len(WantedAll(cols)) = Len(cols)
  BY <1>1, <1>4
<1> QED BY <1>1, <1>3, <1>5, <1>6

(* An insert: columns from the first hole on, and their values.            *)
LEMMA InsertIsRight ==
    ASSUME NEW S, NEW cols \in Seq(S), NEW kind
    PROVE  Right(kind, Statement(Text(Holed(cols, 1), <<>>), GivenAll(cols)))
<1>1. Len(<<>>) = 0 /\ DOMAIN <<>> = {}
  OBVIOUS
<1>2. 1 \in Nat
  OBVIOUS
<1>3. /\ Len(cols) \in Nat /\ Len(Holed(cols, 1)) = Len(cols) /\ Len(GivenAll(cols)) = Len(cols)
      /\ DOMAIN Holed(cols, 1) = 1..Len(cols)
  BY <1>2, HoledColumns
<1>4. ASSUME NEW i \in 1..Len(cols) PROVE GivenAll(cols)[Holed(cols, 1)[i].hole] = Given(Holed(cols, 1)[i].col)
  <2>1. /\ Holed(cols, 1)[i].col = cols[i] /\ Holed(cols, 1)[i].hole = 1 + i - 1
        /\ GivenAll(cols)[i] = Given(cols[i])
    BY <1>2 DEF Holed, GivenAll, WantedAll
  <2>2. 1 + i - 1 = i
    OBVIOUS
  <2> QED BY <2>1, <2>2 DEF Given
<1> QED BY <1>1, <1>3, <1>4 DEF Right, Statement, Text

(* An update as in Postgres, with the id first.                            *)
LEMMA IdFirstIsRight ==
    ASSUME NEW S, NEW cols \in Seq(S)
    PROVE  Right("update", Statement(Text(Holed(cols, 2), IdAt(1)), <<RowId>> \o GivenAll(cols)))
<1> DEFINE params == <<RowId>> \o GivenAll(cols)
<1>1. 2 \in Nat /\ 1 \in Nat
  OBVIOUS
<1>2. GivenAll(cols) \in Seq({Given(f) : f \in S}) /\ Len(GivenAll(cols)) = Len(cols) /\ Len(cols) \in Nat
  BY <1>1, HoledColumns
<1>3. Len(params) = Len(cols) + 1 /\ params[1] = RowId /\ \A i \in 1..Len(cols) : params[i + 1] = GivenAll(cols)[i]
  BY <1>2
<1>4. Len(IdAt(1)) = 1 /\ DOMAIN IdAt(1) = {1} /\ IdAt(1)[1].hole = 1
  BY DEF IdAt
<1>5. \A i \in 1..Len(cols) : 2 + i - 1 = i + 1
  OBVIOUS
<1> HIDE DEF params
<1>6. ASSUME NEW i \in DOMAIN Holed(cols, 2) PROVE params[Holed(cols, 2)[i].hole] = Given(Holed(cols, 2)[i].col)
  <2>1. i \in 1..Len(cols)
    BY <1>1, HoledColumns
  <2>2. /\ Holed(cols, 2)[i].col = cols[i] /\ Holed(cols, 2)[i].hole = 2 + i - 1
        /\ GivenAll(cols)[i] = Given(cols[i])
    BY <1>1, <2>1 DEF Holed, GivenAll, WantedAll
  <2>3. Holed(cols, 2)[i].hole = i + 1
    BY <1>5, <2>1, <2>2
  <2> QED BY <1>3, <2>1, <2>2, <2>3 DEF Given
<1>7. Len(params) = Len(Holed(cols, 2)) + Len(IdAt(1))
  BY <1>1, <1>3, <1>4, HoledColumns
<1>8. Right("update", Statement(Text(Holed(cols, 2), IdAt(1)), params))
  BY <1>3, <1>4, <1>6, <1>7 DEF Right, Statement, Text
<1> QED BY <1>8 DEF params

(* An update whose holes are counted from the left, with the id last.      *)
LEMMA IdLastIsRight ==
    ASSUME NEW S, NEW cols \in Seq(S)
    PROVE  Right("update", Statement(Text(Holed(cols, 1), IdAt(Len(cols) + 1)), GivenAll(cols) \o <<RowId>>))
<1> DEFINE params == GivenAll(cols) \o <<RowId>>
           last == Len(cols) + 1
<1>1. 1 \in Nat
  OBVIOUS
<1>2. GivenAll(cols) \in Seq({Given(f) : f \in S}) /\ Len(GivenAll(cols)) = Len(cols) /\ Len(cols) \in Nat
  BY <1>1, HoledColumns
<1>3. Len(params) = last /\ params[last] = RowId /\ \A i \in 1..Len(cols) : params[i] = GivenAll(cols)[i]
  BY <1>2
<1> HIDE DEF last
<1>4. Len(IdAt(last)) = 1 /\ DOMAIN IdAt(last) = {1} /\ IdAt(last)[1].hole = last
  BY DEF IdAt
<1>5. \A i \in 1..Len(cols) : 1 + i - 1 = i
  OBVIOUS
<1> HIDE DEF params
<1>6. ASSUME NEW i \in DOMAIN Holed(cols, 1) PROVE params[Holed(cols, 1)[i].hole] = Given(Holed(cols, 1)[i].col)
  <2>1. i \in 1..Len(cols)
    BY <1>1, HoledColumns
  <2>2. /\ Holed(cols, 1)[i].col = cols[i] /\ Holed(cols, 1)[i].hole = 1 + i - 1
        /\ GivenAll(cols)[i] = Given(cols[i])
    BY <1>1, <2>1 DEF Holed, GivenAll, WantedAll
  <2>3. Holed(cols, 1)[i].hole = i
    BY <1>5, <2>1, <2>2
  <2> QED BY <1>3, <2>1, <2>2, <2>3 DEF Given
<1>7. Len(params) = Len(Holed(cols, 1)) + Len(IdAt(last))
  BY <1>1, <1>3, <1>4, HoledColumns DEF last
<1>8. Right("update", Statement(Text(Holed(cols, 1), IdAt(last)), params))
  BY <1>3, <1>4, <1>6, <1>7 DEF Right, Statement, Text
<1> QED BY <1>8 DEF params, last

(* An update of many: the conditions come after the columns.               *)
LEMMA ManyIsRight ==
    ASSUME NEW S, NEW cols \in Seq(S), NEW keys \in Seq(S)
    PROVE  Right("updateMany", Statement(Text(Holed(cols, 1), Holed(keys, Len(cols) + 1)), GivenAll(cols) \o WantedAll(keys)))
<1> DEFINE params == GivenAll(cols) \o WantedAll(keys)
           first == Len(cols) + 1
<1>1. 1 \in Nat /\ Len(cols) \in Nat /\ Len(keys) \in Nat /\ first \in Nat
  OBVIOUS
<1>2. /\ GivenAll(cols) \in Seq({Given(f) : f \in S}) /\ Len(GivenAll(cols)) = Len(cols)
      /\ WantedAll(keys) \in Seq({Wanted(f) : f \in S}) /\ Len(WantedAll(keys)) = Len(keys)
  BY <1>1, HoledColumns
<1>3. /\ Len(params) = Len(cols) + Len(keys)
      /\ \A i \in 1..Len(cols) : params[i] = GivenAll(cols)[i]
      /\ \A i \in 1..Len(keys) : params[Len(cols) + i] = WantedAll(keys)[i]
  <2> DEFINE V == {Given(f) : f \in S} \cup {Wanted(f) : f \in S}
             g == GivenAll(cols)
             w == WantedAll(keys)
  <2>1. g \in Seq(V) /\ w \in Seq(V)
    BY <1>2
  <2> HIDE DEF V, g, w
  <2>2. /\ Len(g \o w) = Len(g) + Len(w)
        /\ \A i \in 1..Len(g) : (g \o w)[i] = g[i]
        /\ \A i \in 1..Len(w) : (g \o w)[Len(g) + i] = w[i]
    BY <2>1
  <2> QED BY <1>2, <2>2 DEF g, w
<1>4. /\ \A i \in 1..Len(cols) : 1 + i - 1 = i
      /\ \A i \in 1..Len(keys) : first + i - 1 = Len(cols) + i
  BY <1>1
<1> HIDE DEF params, first
<1>5. ASSUME NEW i \in DOMAIN Holed(cols, 1) PROVE params[Holed(cols, 1)[i].hole] = Given(Holed(cols, 1)[i].col)
  <2>1. i \in 1..Len(cols)
    BY <1>1, HoledColumns
  <2>2. /\ Holed(cols, 1)[i].col = cols[i] /\ Holed(cols, 1)[i].hole = 1 + i - 1
        /\ GivenAll(cols)[i] = Given(cols[i])
    BY <1>1, <2>1 DEF Holed, GivenAll, WantedAll
  <2>3. Holed(cols, 1)[i].hole = i
    BY <1>4, <2>1, <2>2
  <2> QED BY <1>3, <2>1, <2>2, <2>3 DEF Given
<1>6. ASSUME NEW i \in DOMAIN Holed(keys, first)
      PROVE  params[Holed(keys, first)[i].hole] = Wanted(Holed(keys, first)[i].col)
  <2>1. i \in 1..Len(keys)
    BY <1>1, HoledColumns
  <2>2. /\ Holed(keys, first)[i].col = keys[i] /\ Holed(keys, first)[i].hole = first + i - 1
        /\ WantedAll(keys)[i] = Wanted(keys[i])
    BY <1>1, <2>1 DEF Holed, GivenAll, WantedAll
  <2>3. Holed(keys, first)[i].hole = Len(cols) + i
    BY <1>4, <2>1, <2>2
  <2> QED BY <1>3, <2>1, <2>2, <2>3 DEF Wanted
<1>7. Len(params) = Len(Holed(cols, 1)) + Len(Holed(keys, first))
  BY <1>1, <1>3, HoledColumns
<1>8. Right("updateMany", Statement(Text(Holed(cols, 1), Holed(keys, first)), params))
  BY <1>5, <1>6, <1>7 DEF Right, Statement, Text
<1> QED BY <1>8 DEF params, first

(* The loops of a case collect columns.                                    *)
LEMMA CaseTyped ==
    ASSUME NEW c \in StatementCases
    PROVE  /\ Sent(c) \in Seq(Columns) /\ Mutable(c) \in Seq(Columns) /\ InOrder(c.filter) \in Seq(Columns)
           /\ c.kind \in {"insert", "update", "updateMany"} /\ c.backend \in {"postgres", "mysql", "sqlite"}
<1>1. /\ c.kind \in {"insert", "update", "updateMany"} /\ c.backend \in {"postgres", "mysql", "sqlite"}
      /\ c.schema \in Orders
  BY DEF StatementCases
<1>2. Cardinality(Columns) \in Nat
  BY ColumnsAssumption, FS_CardinalityType
<1>3. ASSUME NEW order \in Orders PROVE order \in Seq(Columns)
  BY <1>2 DEF Orders
<1>4. KeyOrder \in Orders
  BY <1>1 DEF KeyOrder
<1>5. c.schema \in Seq(Columns) /\ KeyOrder \in Seq(Columns)
  BY <1>1, <1>3, <1>4
<1>6. Sent(c) \in Seq(Columns)
  BY <1>5, PickedIsSequence DEF Sent
<1>7. Mutable(c) \in Seq(Columns)
  BY <1>6, PickedIsSequence DEF Mutable
<1>8. InOrder(c.filter) \in Seq(Columns)
  BY <1>5, PickedIsSequence DEF InOrder
<1> QED BY <1>1, <1>6, <1>7, <1>8

(* Each backend's two loops agree.                                         *)
LEMMA StatementIsRight ==
    ASSUME NEW c \in StatementCases
    PROVE  Right(c.kind, StatementOf(c))
<1> DEFINE insertable == Picked(Sent(c), {f \in Columns : f # "createdAt" /\ (f # "id" \/ UsableId(c))})
<1>1. insertable \in Seq(Columns)
  BY CaseTyped, PickedIsSequence
<1>2. CASE c.kind = "insert" /\ c.backend = "postgres"
  <2>1. {f \in Columns : f # "createdAt" /\ (f # "id" \/ (<<>> = <<>> /\ UsableId(c)))}
          = {f \in Columns : f # "createdAt" /\ (f # "id" \/ UsableId(c))}
    OBVIOUS
  <2>2. jsonToParams(c, <<>>) = <<>> \o GivenAll(insertable)
    BY <2>1 DEF jsonToParams
  <2>3. GivenAll(insertable) \in Seq({Given(f) : f \in Columns})
    <3> HIDE DEF insertable
    <3>1. 1 \in Nat
      OBVIOUS
    <3> QED BY <1>1, <3>1, HoledColumns
  <2>4. <<>> \o GivenAll(insertable) = GivenAll(insertable)
    <3> DEFINE g == GivenAll(insertable)
               V == {Given(f) : f \in Columns}
    <3>1. g \in Seq(V)
      BY <2>3
    <3> HIDE DEF g, V
    <3>2. <<>> \o g = g
      BY <3>1
    <3> QED BY <3>2 DEF g
  <2>5. StatementOf(c) = Statement(Text(Holed(insertable, 1), <<>>), GivenAll(insertable))
    BY <1>2, <2>2, <2>4 DEF StatementOf, buildInsertSql
  <2> HIDE DEF insertable
  <2> QED BY <1>1, <2>5, InsertIsRight
<1>3. CASE c.kind = "insert" /\ c.backend # "postgres"
  <2>1. StatementOf(c) = Statement(Text(Holed(Sent(c), 1), <<>>), GivenAll(Sent(c)))
    BY <1>3, CaseTyped DEF StatementOf, MySqlCreate, buildInsertQuery, jsonToValues
  <2> QED BY <2>1, CaseTyped, InsertIsRight
<1>4. CASE c.kind = "update" /\ c.backend = "postgres"
  <2>1. {f \in Columns : f # "createdAt" /\ (f # "id" \/ (<<RowId>> = <<>> /\ UsableId(c)))} = Columns \ {"id", "createdAt"}
    <3>1. <<RowId>> # <<>>
      OBVIOUS
    <3> QED BY <3>1
  <2>2. jsonToParams(c, <<RowId>>) = <<RowId>> \o GivenAll(Mutable(c))
    BY <2>1 DEF jsonToParams, Mutable
  <2>3. StatementOf(c) = Statement(Text(Holed(Mutable(c), 2), IdAt(1)), <<RowId>> \o GivenAll(Mutable(c)))
    BY <1>4, <2>2 DEF StatementOf, buildUpdateSql
  <2> QED BY <1>4, <2>3, CaseTyped, IdFirstIsRight
<1>5. CASE c.kind = "update" /\ c.backend # "postgres"
  <2>1. StatementOf(c) = Statement(Text(Holed(Mutable(c), 1), IdAt(Len(Mutable(c)) + 1)), GivenAll(Mutable(c)) \o <<RowId>>)
    BY <1>5, CaseTyped DEF StatementOf, MySqlUpdate, buildUpdateQuery, buildUpdateParams
  <2> QED BY <1>5, <2>1, CaseTyped, IdLastIsRight
<1>6. CASE c.kind = "updateMany"
  <2>1. StatementOf(c) = Statement(Text(Holed(Sent(c), 1), Holed(InOrder(c.filter), Len(Sent(c)) + 1)),
                                   GivenAll(Sent(c)) \o WantedAll(InOrder(c.filter)))
    BY <1>6, CaseTyped DEF StatementOf, SqlUpdateMany, buildUpdateManyQuery, buildUpdateManyParams, Text
  <2> QED BY <1>6, <2>1, CaseTyped, ManyIsRight
<1> QED BY <1>2, <1>3, <1>4, <1>5, <1>6, CaseTyped

(***************************************************************************)
(* Values written and read                                                 *)
(***************************************************************************)
(* Every value is of one of the kinds.                                     *)
LEMMA NamedValues ==
    ASSUME NEW v \in Values
    PROVE  v \in {JNull, Half, Obj} \/ (\E b \in BOOLEAN : v = Bool(b)) \/ (\E n \in {"0", "1"} : v = Num(n))
           \/ (\E t \in {"", "x", "1", "true", "{}"} : v = Str(t))
BY DEF Values

(* The kind and the text of each.                                          *)
LEMMA Parts ==
    /\ JNull.k = "null" /\ JNull.t = "" /\ Half.k = "frac" /\ Obj.k = "obj" /\ Obj.t = "{}"
    /\ \A b \in BOOLEAN : Bool(b).k = "bool" /\ Bool(b).t = (IF b THEN "true" ELSE "false")
    /\ \A n : Num(n).k = "int" /\ Num(n).t = n
    /\ \A t : Str(t).k = "str" /\ Str(t).t = t
BY DEF JNull, Half, Obj, Bool, Num, Str

(* SQLite's text of a value of each kind.                                  *)
LEMMA Texts ==
    /\ jsonValueToString(JNull) = DbNull
    /\ \A v : v.k = "bool" => jsonValueToString(v) = IF v.t = "true" THEN "1" ELSE "0"
    /\ \A v : v.k = "frac" => jsonValueToString(v) = "1"
    /\ \A v : v.k # "null" /\ v.k # "bool" /\ v.k # "frac" => jsonValueToString(v) = v.t
<1>1. jsonValueToString(JNull) = DbNull
  BY Parts DEF jsonValueToString
<1>2. ASSUME NEW v, v.k = "bool" PROVE jsonValueToString(v) = IF v.t = "true" THEN "1" ELSE "0"
  BY <1>2, Parts DEF jsonValueToString
<1>3. ASSUME NEW v, v.k = "frac" PROVE jsonValueToString(v) = "1"
  BY <1>3, Parts DEF jsonValueToString
<1>4. ASSUME NEW v, v.k # "null" /\ v.k # "bool" /\ v.k # "frac" PROVE jsonValueToString(v) = v.t
  BY <1>4, Parts DEF jsonValueToString
<1> QED BY <1>1, <1>2, <1>3, <1>4

(* A number, a text or an object is its own text.                          *)
LEMMA OwnText ==
    ASSUME NEW v, NEW t, v = Num(t) \/ v = Str(t) \/ (v = Obj /\ t = "{}")
    PROVE  jsonValueToString(v) = t
<1>1. (v.k = "int" \/ v.k = "str" \/ v.k = "obj") /\ v.t = t
  BY Parts
<1>2. v.k # "null" /\ v.k # "bool" /\ v.k # "frac"
  BY <1>1
<1> QED BY <1>1, <1>2, Texts

(* The text of SqlAdapter.                                                 *)
LEMMA SqlTexts ==
    /\ SqlText(JNull) = ""
    /\ \A v : v.k = "frac" => SqlText(v) = "1"
    /\ \A v : v.k # "null" /\ v.k # "frac" => SqlText(v) = v.t
BY Parts DEF SqlText

(* The texts there are.                                                    *)
LEMMA ValueTable ==
    ASSUME NEW v \in Values
    PROVE  \/ v = JNull
           \/ v.k = "bool" /\ v.t \in {"true", "false"}
           \/ v.k = "int" /\ v.t \in {"0", "1"}
           \/ v.k = "frac"
           \/ v.k = "obj" /\ v.t = "{}"
           \/ v.k = "str" /\ v.t \in {"", "x", "1", "true", "{}"}
<1>1. CASE v \in {JNull, Half, Obj}
  BY <1>1, Parts
<1>2. ASSUME NEW b \in BOOLEAN, v = Bool(b) PROVE v.k = "bool" /\ v.t \in {"true", "false"}
  <2>1. v.k = "bool" /\ v.t = IF b THEN "true" ELSE "false"
    BY <1>2, Parts
  <2> QED BY <2>1
<1>3. ASSUME NEW n \in {"0", "1"}, v = Num(n) PROVE v.k = "int" /\ v.t \in {"0", "1"}
  BY <1>3, Parts
<1>4. ASSUME NEW t \in {"", "x", "1", "true", "{}"}, v = Str(t) PROVE v.k = "str" /\ v.t \in {"", "x", "1", "true", "{}"}
  BY <1>4, Parts
<1> QED BY <1>1, <1>2, <1>3, <1>4, NamedValues

(* What SQLite is sent for a value.                                        *)
LEMMA SqliteTexts == ASSUME NEW v \in Values PROVE jsonValueToString(v) \in {DbNull, "0", "1", "", "x", "true", "{}"}
<1>1. CASE v = JNull BY <1>1, Texts
<1>2. CASE v.k = "bool" /\ v.t \in {"true", "false"}
  <2>1. jsonValueToString(v) = IF v.t = "true" THEN "1" ELSE "0"
    BY <1>2, Texts
  <2> QED BY <2>1
<1>3. CASE v.k = "frac" BY <1>3, Texts
<1>4. CASE v.k \in {"int", "obj", "str"} /\ v.t \in {"0", "1", "", "x", "true", "{}"}
  <2>1. v.k # "null" /\ v.k # "bool" /\ v.k # "frac"
    BY <1>4
  <2>2. jsonValueToString(v) = v.t
    BY <2>1, Texts
  <2> QED BY <1>4, <2>2
<1> QED BY <1>1, <1>2, <1>3, <1>4, ValueTable

(* What Postgres is sent for a value.                                      *)
LEMMA PostgresTexts == ASSUME NEW v \in Values PROVE execParams(SqlText(v)) \in {DbNull, "0", "1", "x", "true", "false", "{}"}
<1>1. SqlText(v) \in {"", "0", "1", "x", "true", "false", "{}"}
  <2>1. CASE v = JNull BY <2>1, SqlTexts
  <2>2. CASE v.k = "frac" BY <2>2, SqlTexts
  <2>3. CASE v.k \in {"bool", "int", "obj", "str"} /\ v.t \in {"false", "0", "1", "", "x", "true", "{}"}
    <3>1. v.k # "null" /\ v.k # "frac"
      BY <2>3
    <3>2. SqlText(v) = v.t
      BY <3>1, SqlTexts
    <3> QED BY <2>3, <3>2
  <2> QED BY <2>1, <2>2, <2>3, ValueTable
<1> QED BY <1>1 DEF execParams

LEMMA FieldTyped ==
    ASSUME NEW f \in FieldKinds
    PROVE  /\ f.type \in {"string", "boolean", "number", "integer", "json"}
           /\ f.required \in BOOLEAN /\ f.default \in {"", "1"}
           /\ f.default # "" => ~f.required /\ f.type # "json"
BY DEF FieldKinds

(* Through SQLite a text becomes what its column makes of it.              *)
SqliteRead(f, t) == IF t = DbNull /\ f.required THEN Failed ELSE columnToJson(f, t)
LEMMA ThroughSqlite ==
    ASSUME NEW f \in FieldKinds, NEW v, NEW t \in {DbNull, "0", "1", "", "x", "true", "{}", "false"},
           jsonValueToString(v) = t
    PROVE  Through("sqlite", f, v) = SqliteRead(f, t)
<1>1. Store("sqlite", f, t) = IF t = DbNull /\ f.required THEN Failed.k ELSE t
  BY FieldTyped DEF Store
<1>2. t # Failed.k
  BY DEF Failed, DbNull
<1> QED BY <1>1, <1>2 DEF Through, SqliteRead

(* What a column of SQLite makes of a text.                                *)
LEMMA SqliteColumns ==
    ASSUME NEW f \in FieldKinds, NEW t, t # DbNull
    PROVE  /\ f.type = "boolean" => SqliteRead(f, t) = Bool(t = "1")
           /\ f.type = "number" => SqliteRead(f, t) = Num(IF t \in {"0", "1"} THEN t ELSE "0")
           /\ f.type = "json" => SqliteRead(f, t) = decodeJsonColumn(t)
           /\ f.type = "string" \/ f.type = "integer" => SqliteRead(f, t) = Str(t)
<1>1. SqliteRead(f, t) = columnToJson(f, t)
  BY DEF SqliteRead
<1>2. f.type = "boolean" => columnToJson(f, t) = Bool(t = "1")
  BY DEF columnToJson
<1>3. f.type = "number" => columnToJson(f, t) = Num(IF t \in {"0", "1"} THEN t ELSE "0")
  BY DEF columnToJson
<1>4. f.type = "json" => columnToJson(f, t) = decodeJsonColumn(t)
  BY DEF columnToJson
<1>5. f.type = "string" \/ f.type = "integer" => columnToJson(f, t) = Str(t)
  BY DEF columnToJson
<1> QED BY <1>1, <1>2, <1>3, <1>4, <1>5

(* What a text in a json column spells.                                    *)
LEMMA Spelled ==
    /\ \A t : t = "0" \/ t = "1" => decodeJsonColumn(t) = Num(t)
    /\ decodeJsonColumn("true") = Bool(TRUE) /\ decodeJsonColumn("false") = Bool(FALSE)
    /\ decodeJsonColumn("{}") = Obj
    /\ decodeJsonColumn("") = Str("") /\ decodeJsonColumn("x") = Str("x")
BY DEF decodeJsonColumn

(* A value of the field's own type comes back from SQLite.                 *)
LEMMA SqliteKeepsOwn ==
    ASSUME NEW f \in FieldKinds, NEW v \in Values, wcase.backend = "sqlite", Suits(f, v)
    PROVE  Through("sqlite", f, v) = v
<1> DEFINE t == jsonValueToString(v)
<1>1. t \in {DbNull, "0", "1", "", "x", "true", "{}", "false"}
  BY SqliteTexts
<1>2. Through("sqlite", f, v) = SqliteRead(f, t)
  BY <1>1, ThroughSqlite
<1> HIDE DEF t
<1>3. CASE f.type = "boolean"
  <2>1. v.k = "bool"
    BY <1>3 DEF Suits
  <2>2. PICK b \in BOOLEAN : v = Bool(b)
    BY <2>1, NamedValues, Parts
  <2>3. t = (IF b THEN "1" ELSE "0")
    <3>1. t = IF v.t = "true" THEN "1" ELSE "0"
      BY <2>1, Texts DEF t
    <3>2. v.t = IF b THEN "true" ELSE "false"
      BY <2>2, Parts
    <3> QED BY <3>1, <3>2
  <2>4. t # DbNull /\ (t = "1" <=> b)
    BY <2>3 DEF DbNull
  <2>5. Bool(t = "1") = Bool(b)
    BY <2>4 DEF Bool
  <2> QED BY <1>2, <1>3, <2>2, <2>4, <2>5, SqliteColumns
<1>4. CASE f.type = "number"
  <2>1. v.k = "int"
    BY <1>4 DEF Suits
  <2>2. PICK n \in {"0", "1"} : v = Num(n)
    BY <2>1, NamedValues, Parts
  <2>3. t = n
    BY <2>2, OwnText DEF t
  <2>4. t # DbNull /\ (t = "0" \/ t = "1")
    BY <2>3 DEF DbNull
  <2> QED BY <1>2, <1>4, <2>2, <2>3, <2>4, SqliteColumns
<1>5. CASE f.type = "integer"
  BY <1>5 DEF Suits
<1>6. CASE f.type = "json"
  <2>1. v.k = "int" \/ v.k = "obj"
    BY <1>6 DEF Suits
  <2>2. v = Obj \/ \E n \in {"0", "1"} : v = Num(n)
    BY <2>1, NamedValues, Parts
  <2>3. CASE v = Obj
    <3>1. t = "{}" /\ t # DbNull
      BY <2>3, OwnText DEF t, DbNull
    <3> QED BY <1>2, <1>6, <2>3, <3>1, SqliteColumns, Spelled
  <2>4. ASSUME NEW n \in {"0", "1"}, v = Num(n) PROVE Through("sqlite", f, v) = v
    <3>1. t = n
      BY <2>4, OwnText DEF t
    <3>2. t # DbNull /\ (t = "0" \/ t = "1")
      BY <3>1 DEF DbNull
    <3> QED BY <1>2, <1>6, <2>4, <3>1, <3>2, SqliteColumns, Spelled
  <2> QED BY <2>2, <2>3, <2>4
<1>7. CASE f.type = "string"
  <2>1. v.k = "str"
    BY <1>7 DEF Suits
  <2>2. PICK w \in {"", "x", "1", "true", "{}"} : v = Str(w)
    BY <2>1, NamedValues, Parts
  <2>3. t = w
    BY <2>2, OwnText DEF t
  <2>4. t # DbNull
    BY <2>3 DEF DbNull
  <2> QED BY <1>2, <1>7, <2>2, <2>3, <2>4, SqliteColumns
<1> QED BY <1>3, <1>4, <1>5, <1>6, <1>7, FieldTyped

(* What SQLite reads for a text, it reads again when it is sent back.      *)
LEMMA SqliteIsStable ==
    ASSUME NEW f \in FieldKinds, NEW v \in Values, NEW first, first = Through("sqlite", f, v), first # Failed
    PROVE  Through("sqlite", f, first) = first \/ (f.type = "json" /\ first.k = "bool")
<1> DEFINE t == jsonValueToString(v)
<1>1. t \in {DbNull, "0", "1", "", "x", "true", "{}", "false"}
  BY SqliteTexts
<1>2. first = SqliteRead(f, t)
  BY <1>1, ThroughSqlite
<1> HIDE DEF t
<1>3. CASE t = DbNull
  <2>1. first = JNull
    BY <1>2, <1>3 DEF SqliteRead, columnToJson
  <2>2. jsonValueToString(first) = DbNull
    BY <2>1, Texts
  <2>3. Through("sqlite", f, first) = SqliteRead(f, DbNull)
    BY <2>2, ThroughSqlite
  <2> QED BY <1>2, <1>3, <2>3
<1>4. ASSUME first = Num(t) \/ first = Str(t) \/ (first = Obj /\ t = "{}")
      PROVE  Through("sqlite", f, first) = first
  <2>1. jsonValueToString(first) = t
    BY <1>4, OwnText
  <2> QED BY <1>1, <1>2, <2>1, ThroughSqlite
<1>5. CASE t # DbNull /\ f.type = "boolean"
  <2> DEFINE b == t = "1"
  <2>1. first = Bool(b) /\ b \in BOOLEAN
    BY <1>2, <1>5, SqliteColumns
  <2> DEFINE u == IF b THEN "1" ELSE "0"
  <2>2. jsonValueToString(first) = u
    <3> HIDE DEF b
    <3>1. first.k = "bool" /\ first.t = IF b THEN "true" ELSE "false"
      BY <2>1, Parts
    <3>2. jsonValueToString(first) = IF first.t = "true" THEN "1" ELSE "0"
      BY <3>1, Texts
    <3> QED BY <3>1, <3>2
  <2>3. u \in {"0", "1"} /\ u # DbNull /\ (u = "1" <=> b)
    BY DEF DbNull
  <2> HIDE DEF u, b
  <2>4. Through("sqlite", f, first) = SqliteRead(f, u)
    BY <2>2, <2>3, ThroughSqlite
  <2>5. SqliteRead(f, u) = Bool(u = "1")
    BY <1>5, <2>3, SqliteColumns
  <2>6. Bool(u = "1") = Bool(b)
    BY <2>1, <2>3 DEF Bool
  <2> QED BY <2>1, <2>4, <2>5, <2>6
<1>6. CASE t # DbNull /\ f.type = "number"
  <2> DEFINE n == IF t \in {"0", "1"} THEN t ELSE "0"
  <2>1. first = Num(n) /\ n \in {"0", "1"} /\ n # DbNull
    BY <1>2, <1>6, SqliteColumns DEF DbNull
  <2> HIDE DEF n
  <2>2. jsonValueToString(first) = n
    BY <2>1, OwnText
  <2>3. Through("sqlite", f, first) = SqliteRead(f, n)
    BY <2>1, <2>2, ThroughSqlite
  <2>4. SqliteRead(f, n) = Num(n)
    BY <1>6, <2>1, SqliteColumns
  <2> QED BY <2>1, <2>3, <2>4
<1>7. CASE t # DbNull /\ f.type = "json"
  <2>1. first = decodeJsonColumn(t) /\ t \in {"0", "1", "", "x", "true", "{}", "false"}
    BY <1>1, <1>2, <1>7, SqliteColumns
  <2>2. CASE t = "true" \/ t = "false"
    <3>1. first = Bool(TRUE) \/ first = Bool(FALSE)
      BY <2>1, <2>2, Spelled
    <3>2. first.k = "bool"
      BY <3>1, Parts
    <3> QED BY <1>7, <3>2
  <2>3. CASE t = "0" \/ t = "1"
    <3>1. first = Num(t)
      BY <2>1, <2>3, Spelled
    <3> QED BY <1>4, <3>1
  <2>4. CASE t = "" \/ t = "x" \/ t = "{}"
    <3>1. first = Str(t) \/ (first = Obj /\ t = "{}")
      BY <2>1, <2>4, Spelled
    <3> QED BY <1>4, <3>1
  <2> QED BY <2>1, <2>2, <2>3, <2>4
<1>8. CASE t # DbNull /\ (f.type = "string" \/ f.type = "integer")
  <2>1. first = Str(t)
    BY <1>2, <1>8, SqliteColumns
  <2> QED BY <1>4, <2>1
<1> QED BY <1>3, <1>5, <1>6, <1>7, <1>8, FieldTyped

(* What Postgres is sent for a number, a text, an object, a boolean, null. *)
LEMMA PostgresOwnText ==
    ASSUME NEW v, NEW t, t # "",
           v = Num(t) \/ v = Str(t) \/ (v = Obj /\ t = "{}")
           \/ (v = Bool(TRUE) /\ t = "true") \/ (v = Bool(FALSE) /\ t = "false")
    PROVE  execParams(SqlText(v)) = t
<1>1. (v.k = "int" \/ v.k = "str" \/ v.k = "obj" \/ v.k = "bool") /\ v.t = t
  <2>1. Bool(TRUE).t = "true" /\ Bool(FALSE).t = "false" /\ Bool(TRUE).k = "bool" /\ Bool(FALSE).k = "bool"
    BY DEF Bool
  <2> QED BY <2>1, Parts
<1>2. v.k # "null" /\ v.k # "frac"
  BY <1>1
<1>3. SqlText(v) = t
  BY <1>1, <1>2, SqlTexts
<1> QED BY <1>3 DEF execParams

LEMMA PostgresNullText == execParams(SqlText(JNull)) = DbNull
BY SqlTexts DEF execParams

(* What a column of Postgres makes of a text that is not null.             *)
LEMMA PostgresColumns ==
    ASSUME NEW f \in FieldKinds, NEW v, NEW t \in {"0", "1", "x", "true", "false", "{}"}, execParams(SqlText(v)) = t
    PROVE  LET r == Through("postgres", f, v) IN
           /\ f.type = "boolean" =>
                 r = IF t \in BooleanTexts THEN Bool(t = "true" \/ t = "1") ELSE Failed
           /\ f.type = "number" \/ f.type = "integer" => r = IF t = "0" \/ t = "1" THEN Num(t) ELSE Failed
           /\ f.type = "json" => r = IF t = "x" THEN Failed ELSE decodeJsonColumn(t)
           /\ f.type = "string" => r = Str(t)
<1> DEFINE r == Through("postgres", f, v)
           stored == Store("postgres", f, t)
<1>1. t # DbNull /\ t # "" /\ t # Failed.k
  BY DEF DbNull, Failed
<1>2. r = IF stored = Failed.k THEN Failed ELSE SqlRead(f, stored)
  BY DEF Through
<1> HIDE DEF r, stored
<1>3. CASE f.type = "boolean"
  <2>1. stored = IF t \notin BooleanTexts THEN Failed.k ELSE IF t \in {"true", "1"} THEN "t" ELSE "f"
    BY <1>1, <1>3 DEF stored, Store
  <2>2. \A w \in {"t", "f"} : w # Failed.k /\ SqlRead(f, w) = Bool(w \in {"1", "t", "true"})
    BY <1>3 DEF SqlRead, Coalesced, DbNull, Failed
  <2>3. SqlRead(f, "t") = Bool(TRUE) /\ SqlRead(f, "f") = Bool(FALSE) /\ "t" # Failed.k /\ "f" # Failed.k
    BY <2>2 DEF Bool
  <2>4. CASE t \notin BooleanTexts
    BY <1>2, <1>3, <2>1, <2>4 DEF r
  <2>5. CASE t \in BooleanTexts /\ (t = "true" \/ t = "1")
    <3>1. r = Bool(TRUE)
      BY <1>2, <2>1, <2>3, <2>5
    <3>2. Bool(t = "true" \/ t = "1") = Bool(TRUE)
      BY <2>5 DEF Bool
    <3> QED BY <1>3, <2>5, <3>1, <3>2 DEF r
  <2>6. CASE t \in BooleanTexts /\ ~(t = "true" \/ t = "1")
    <3>1. r = Bool(FALSE)
      BY <1>2, <2>1, <2>3, <2>6
    <3>2. Bool(t = "true" \/ t = "1") = Bool(FALSE)
      BY <2>6 DEF Bool
    <3> QED BY <1>3, <2>6, <3>1, <3>2 DEF r
  <2> QED BY <2>4, <2>5, <2>6
<1>4. CASE f.type = "number" \/ f.type = "integer"
  <2>1. stored = IF t \in {"0", "1"} THEN t ELSE Failed.k
    BY <1>1, <1>4 DEF stored, Store
  <2>2. SqlRead(f, t) = Num(t)
    BY <1>1, <1>4 DEF SqlRead, Coalesced
  <2>3. r = IF t = "0" \/ t = "1" THEN Num(t) ELSE Failed
    BY <1>1, <1>2, <2>1, <2>2
  <2> QED BY <1>4, <2>3 DEF r
<1>5. CASE f.type = "json"
  <2>1. stored = IF t = "x" THEN Failed.k ELSE t
    BY <1>1, <1>5 DEF stored, Store
  <2>2. SqlRead(f, t) = decodeJsonColumn(t)
    BY <1>1, <1>5 DEF SqlRead, Coalesced
  <2>3. r = IF t = "x" THEN Failed ELSE decodeJsonColumn(t)
    BY <1>1, <1>2, <2>1, <2>2
  <2> QED BY <1>5, <2>3 DEF r
<1>6. CASE f.type = "string"
  <2>1. stored = t
    BY <1>1, <1>6 DEF stored, Store
  <2>2. SqlRead(f, t) = Str(t)
    BY <1>1, <1>6 DEF SqlRead, Coalesced
  <2>3. r = Str(t)
    BY <1>1, <1>2, <2>1, <2>2
  <2> QED BY <1>6, <2>3 DEF r
<1> QED BY <1>3, <1>4, <1>5, <1>6, FieldTyped

(* What is read for null, and for nothing.                                 *)
LEMMA PostgresNulls ==
    ASSUME NEW f \in FieldKinds, NEW v, execParams(SqlText(v)) = DbNull
    PROVE  LET r == Through("postgres", f, v) IN
           /\ f.required => r = Failed
           /\ ~f.required => /\ f.type = "boolean" => r = Bool(f.default # "")
                             /\ f.type = "number" \/ f.type = "integer" => r = IF f.default = "" THEN JNull ELSE Num("1")
                             /\ f.type = "json" => r = JNull
                             /\ f.type = "string" => r = IF f.default = "" THEN JNull ELSE Str("1")
<1> DEFINE r == Through("postgres", f, v)
<1>1. r = IF f.required THEN Failed ELSE SqlRead(f, DbNull)
  BY DEF Through, Store, Failed, DbNull
<1> HIDE DEF r
<1>2. CASE f.required
  BY <1>1, <1>2 DEF r
<1>3. CASE ~f.required /\ f.default = ""
  <2>1. Coalesced(f, DbNull) = DbNull
    BY <1>3 DEF Coalesced
  <2>2. f.type = "boolean" => SqlRead(f, DbNull) = Bool(FALSE)
    BY <2>1 DEF SqlRead, Bool
  <2>3. f.type = "number" \/ f.type = "integer" => SqlRead(f, DbNull) = JNull
    BY <2>1 DEF SqlRead
  <2>4. f.type = "json" \/ f.type = "string" => SqlRead(f, DbNull) = JNull
    BY <1>3, <2>1 DEF SqlRead
  <2>5. Bool(f.default # "") = Bool(FALSE)
    BY <1>3 DEF Bool
  <2> QED BY <1>1, <1>3, <2>2, <2>3, <2>4, <2>5 DEF r
<1>4. CASE ~f.required /\ f.default = "1"
  <2>1. Coalesced(f, DbNull) = IF f.type = "boolean" THEN "t" ELSE "1"
    BY <1>4 DEF Coalesced
  <2>2. f.type = "boolean" => SqlRead(f, DbNull) = Bool(TRUE)
    BY <2>1 DEF SqlRead, Bool, DbNull
  <2>3. f.type = "number" \/ f.type = "integer" => SqlRead(f, DbNull) = Num("1")
    BY <2>1 DEF SqlRead, DbNull
  <2>4. f.type = "string" => SqlRead(f, DbNull) = Str("1")
    BY <1>4, <2>1 DEF SqlRead, DbNull
  <2>5. Bool(f.default # "") = Bool(TRUE) /\ f.default # "" /\ f.type # "json"
    BY <1>4, FieldTyped DEF Bool
  <2> QED BY <1>1, <1>4, <2>2, <2>3, <2>4, <2>5 DEF r
<1> QED BY <1>2, <1>3, <1>4, FieldTyped

(* A value of the field's own type comes back from Postgres.               *)
LEMMA PostgresKeepsOwn ==
    ASSUME NEW f \in FieldKinds, NEW v \in Values, wcase.backend = "postgres", Suits(f, v)
    PROVE  Through("postgres", f, v) = v
<1>1. CASE f.type = "boolean"
  <2>1. v.k = "bool"
    BY <1>1 DEF Suits
  <2>2. v = Bool(TRUE) \/ v = Bool(FALSE)
    BY <2>1, NamedValues, Parts
  <2>3. CASE v = Bool(TRUE)
    <3>1. execParams(SqlText(v)) = "true"
      BY <2>3, PostgresOwnText
    <3>2. Through("postgres", f, v) = IF "true" \in BooleanTexts THEN Bool("true" = "true" \/ "true" = "1") ELSE Failed
      BY <1>1, <3>1, PostgresColumns
    <3>3. Bool("true" = "true" \/ "true" = "1") = Bool(TRUE)
      BY DEF Bool
    <3> QED BY <2>3, <3>2, <3>3 DEF BooleanTexts
  <2>4. CASE v = Bool(FALSE)
    <3>1. execParams(SqlText(v)) = "false"
      BY <2>4, PostgresOwnText
    <3>2. Through("postgres", f, v) = IF "false" \in BooleanTexts THEN Bool("false" = "true" \/ "false" = "1") ELSE Failed
      BY <1>1, <3>1, PostgresColumns
    <3>3. Bool("false" = "true" \/ "false" = "1") = Bool(FALSE)
      BY DEF Bool
    <3> QED BY <2>4, <3>2, <3>3 DEF BooleanTexts
  <2> QED BY <2>2, <2>3, <2>4
<1>2. CASE f.type = "number" \/ f.type = "integer"
  <2>1. v.k = "int"
    BY <1>2 DEF Suits
  <2>2. PICK n \in {"0", "1"} : v = Num(n)
    BY <2>1, NamedValues, Parts
  <2>3. execParams(SqlText(v)) = n
    BY <2>2, PostgresOwnText
  <2> QED BY <1>2, <2>2, <2>3, PostgresColumns
<1>3. CASE f.type = "json"
  <2>1. v.k = "int" \/ v.k = "obj"
    BY <1>3 DEF Suits
  <2>2. v = Obj \/ \E n \in {"0", "1"} : v = Num(n)
    BY <2>1, NamedValues, Parts
  <2>3. CASE v = Obj
    <3>1. execParams(SqlText(v)) = "{}"
      BY <2>3, PostgresOwnText
    <3> QED BY <1>3, <2>3, <3>1, PostgresColumns, Spelled
  <2>4. ASSUME NEW n \in {"0", "1"}, v = Num(n) PROVE Through("postgres", f, v) = v
    <3>1. execParams(SqlText(v)) = n
      BY <2>4, PostgresOwnText
    <3>2. n # "x" /\ (n = "0" \/ n = "1") /\ n \in {"0", "1", "x", "true", "false", "{}"}
      OBVIOUS
    <3>3. Through("postgres", f, v) = decodeJsonColumn(n)
      BY <1>3, <3>1, <3>2, PostgresColumns
    <3> QED BY <2>4, <3>2, <3>3, Spelled
  <2> QED BY <2>2, <2>3, <2>4
<1>4. CASE f.type = "string"
  <2>1. v.k = "str" /\ v.t # ""
    BY <1>4 DEF Suits
  <2>2. PICK w \in {"", "x", "1", "true", "{}"} : v = Str(w)
    BY <2>1, NamedValues, Parts
  <2>3. w # ""
    BY <2>1, <2>2, Parts
  <2>4. execParams(SqlText(v)) = w
    BY <2>2, <2>3, PostgresOwnText
  <2>5. w \in {"0", "1", "x", "true", "false", "{}"}
    BY <2>3
  <2> QED BY <1>4, <2>2, <2>4, <2>5, PostgresColumns
<1> QED BY <1>1, <1>2, <1>3, <1>4, FieldTyped

(* A boolean goes the same way again.                                      *)
LEMMA PostgresBooleans ==
    ASSUME NEW f \in FieldKinds, f.type = "boolean", NEW b \in BOOLEAN
    PROVE  Through("postgres", f, Bool(b)) = Bool(b)
<1>1. CASE b
  <2>1. Bool(b) = Bool(TRUE) /\ Bool("true" = "true" \/ "true" = "1") = Bool(TRUE)
    BY <1>1 DEF Bool
  <2>2. execParams(SqlText(Bool(b))) = "true"
    BY <2>1, PostgresOwnText
  <2>3. Through("postgres", f, Bool(b)) = IF "true" \in BooleanTexts THEN Bool("true" = "true" \/ "true" = "1") ELSE Failed
    BY <2>2, PostgresColumns
  <2> QED BY <2>1, <2>3 DEF BooleanTexts
<1>2. CASE ~b
  <2>1. Bool(b) = Bool(FALSE) /\ Bool("false" = "true" \/ "false" = "1") = Bool(FALSE)
    BY <1>2 DEF Bool
  <2>2. execParams(SqlText(Bool(b))) = "false"
    BY <2>1, PostgresOwnText
  <2>3. Through("postgres", f, Bool(b)) = IF "false" \in BooleanTexts THEN Bool("false" = "true" \/ "false" = "1") ELSE Failed
    BY <2>2, PostgresColumns
  <2> QED BY <2>1, <2>3 DEF BooleanTexts
<1> QED BY <1>1, <1>2

(* What Postgres reads, it reads again when it is sent back.               *)
LEMMA PostgresIsStable ==
    ASSUME NEW f \in FieldKinds, NEW v \in Values, NEW first, first = Through("postgres", f, v), first # Failed
    PROVE  Through("postgres", f, first) = first
<1> DEFINE t == execParams(SqlText(v))
<1>1. t = DbNull \/ t \in {"0", "1", "x", "true", "false", "{}"}
  BY PostgresTexts
<1> HIDE DEF t
<1>2. CASE f.type = "boolean"
  <2>1. t = DbNull => first = Bool(f.default # "")
    BY <1>2, PostgresNulls DEF t
  <2>2. t # DbNull => first = Bool(t = "true" \/ t = "1")
    BY <1>1, <1>2, PostgresColumns DEF t
  <2> DEFINE b == IF t = DbNull THEN f.default # "" ELSE t = "true" \/ t = "1"
  <2>3. b \in BOOLEAN /\ first = Bool(b)
    BY <2>1, <2>2
  <2> HIDE DEF b
  <2> QED BY <1>2, <2>3, PostgresBooleans
<1>3. CASE f.type = "number" \/ f.type = "integer"
  <2>1. (first = JNull /\ t = DbNull) \/ first = Num("0") \/ first = Num("1")
    <3>1. t = DbNull => first = JNull \/ first = Num("1")
      BY <1>3, PostgresNulls DEF t
    <3>2. t # DbNull => first = Num("0") \/ first = Num("1")
      BY <1>1, <1>3, PostgresColumns DEF t
    <3> QED BY <3>1, <3>2
  <2>2. CASE first = JNull /\ t = DbNull
    BY <1>3, <2>2, PostgresNulls, PostgresNullText DEF t
  <2>3. ASSUME NEW n \in {"0", "1"}, first = Num(n) PROVE Through("postgres", f, first) = first
    <3>1. execParams(SqlText(first)) = n
      BY <2>3, PostgresOwnText
    <3> QED BY <1>3, <2>3, <3>1, PostgresColumns
  <2> QED BY <2>1, <2>2, <2>3
<1>4. CASE f.type = "json"
  <2>1. CASE t = DbNull
    <3>1. first = JNull /\ ~f.required
      BY <1>4, <2>1, PostgresNulls DEF t
    <3> QED BY <1>4, <3>1, PostgresNulls, PostgresNullText
  <2>2. CASE t # DbNull
    <3>1. t \in {"0", "1", "true", "false", "{}"} /\ first = decodeJsonColumn(t)
      BY <1>1, <1>4, <2>2, PostgresColumns DEF t
    <3>2. t # "" /\ (\/ first = Num(t) \/ (first = Obj /\ t = "{}")
                    \/ (first = Bool(TRUE) /\ t = "true") \/ (first = Bool(FALSE) /\ t = "false"))
      BY <3>1, Spelled
    <3>3. execParams(SqlText(first)) = t
      BY <3>2, PostgresOwnText
    <3>4. t \in {"0", "1", "x", "true", "false", "{}"} /\ t # "x"
      BY <3>1
    <3>5. Through("postgres", f, first) = decodeJsonColumn(t)
      BY <1>4, <3>3, <3>4, PostgresColumns
    <3> QED BY <3>1, <3>5
  <2> QED BY <2>1, <2>2
<1>5. CASE f.type = "string"
  <2>1. CASE t = DbNull
    <3>1. ~f.required
      BY <2>1, PostgresNulls DEF t
    <3> DEFINE w == IF f.default = "" THEN JNull ELSE Str("1")
    <3>4. first = w
      BY <1>5, <2>1, <3>1, PostgresNulls DEF t
    <3>2. CASE f.default = ""
      BY <1>5, <3>1, <3>2, <3>4, PostgresNulls, PostgresNullText
    <3>3. CASE f.default # ""
      <4>1. first = Str("1")
        BY <3>3, <3>4
      <4>2. execParams(SqlText(first)) = "1"
        BY <4>1, PostgresOwnText
      <4> QED BY <1>5, <4>1, <4>2, PostgresColumns
    <3> QED BY <3>2, <3>3
  <2>2. CASE t # DbNull
    <3>1. t \in {"0", "1", "x", "true", "false", "{}"} /\ t # "" /\ first = Str(t)
      BY <1>1, <1>5, <2>2, PostgresColumns DEF t
    <3>2. execParams(SqlText(first)) = t
      BY <3>1, PostgresOwnText
    <3> QED BY <1>5, <3>1, <3>2, PostgresColumns
  <2> QED BY <2>1, <2>2
<1> QED BY <1>2, <1>3, <1>4, <1>5, FieldTyped

(***************************************************************************)
(* The run                                                                 *)
(***************************************************************************)
(* What is written is made by the code for the case at hand.               *)
RowInv ==
    /\ wcase \in StatementCases \/ wcase \in ValueCases
    /\ wcase \in StatementCases => wout \in {Undone, NoStatement, StatementOf(wcase)}
    /\ wcase \in ValueCases =>
          \/ wout = Undone
          \/ /\ wout.done /\ wout.first = Through(wcase.backend, wcase.field, wcase.value)
             /\ "again" \in DOMAIN wout =>
                   wout.first # Failed /\ wout.again = Through(wcase.backend, wcase.field, wout.first)

(* Statements and values are different cases.                              *)
LEMMA CasesApart ==
    /\ wcase \in StatementCases => wcase.kind \in {"insert", "update", "updateMany"}
    /\ wcase \in ValueCases => /\ wcase.kind = "value" /\ wcase.backend \in {"postgres", "sqlite"}
                               /\ wcase.field \in FieldKinds /\ wcase.value \in Values
<1>1. wcase \in StatementCases => wcase.kind \in {"insert", "update", "updateMany"}
  BY CaseTyped
<1>2. wcase \in ValueCases => /\ wcase.kind = "value" /\ wcase.backend \in {"postgres", "sqlite"}
                              /\ wcase.field \in FieldKinds /\ wcase.value \in Values
  BY DEF ValueCases
<1> QED BY <1>1, <1>2

LEMMA RowStep == RowInv /\ [NextWriting]_writeVars => RowInv'
<1> SUFFICES ASSUME RowInv, [NextWriting]_writeVars PROVE RowInv'
  OBVIOUS
<1>1. CASE WriteStatement
  <2>1. wcase \in StatementCases /\ wcase' = wcase /\ wcase \notin ValueCases
    BY <1>1, CasesApart DEF RowInv, WriteStatement
  <2>2. wout' \in {NoStatement, StatementOf(wcase)}
    BY <1>1 DEF WriteStatement
  <2> QED BY <2>1, <2>2 DEF RowInv
<1>2. CASE WriteAndRead
  <2>1. wcase \in ValueCases /\ wcase' = wcase /\ wcase \notin StatementCases
    BY <1>2, CasesApart DEF RowInv, WriteAndRead
  <2>2. wout'.done /\ wout'.first = Through(wcase.backend, wcase.field, wcase.value) /\ "again" \notin DOMAIN wout'
    BY <1>2 DEF WriteAndRead
  <2> QED BY <2>1, <2>2 DEF RowInv
<1>3. CASE WriteBack
  <2>1. wcase \in ValueCases /\ wcase' = wcase /\ wcase \notin StatementCases
    BY <1>3, CasesApart DEF RowInv, WriteBack
  <2>2. /\ wout'.done /\ wout'.first = wout.first /\ wout.first # Failed /\ wout.done
        /\ wout'.again = Through(wcase.backend, wcase.field, wout.first)
    BY <1>3 DEF WriteBack
  <2>3. wout # Undone
    BY <2>2 DEF Undone
  <2>4. wout.first = Through(wcase.backend, wcase.field, wcase.value)
    BY <2>1, <2>3 DEF RowInv
  <2> QED BY <2>1, <2>2, <2>4 DEF RowInv
<1>4. CASE UNCHANGED writeVars
  BY <1>4 DEF RowInv, writeVars
<1> QED BY <1>1, <1>2, <1>3, <1>4 DEF NextWriting

LEMMA RowsMean == RowInv => ValuesSurvive
<1> SUFFICES ASSUME RowInv PROVE ValuesSurvive
  OBVIOUS
<1>1. ColumnsGetTheirValues
  <2> SUFFICES ASSUME wcase.kind # "value", wout.done PROVE Right(wcase.kind, wout)
    BY DEF ColumnsGetTheirValues, Right
  <2>1. wcase \in StatementCases /\ wout # Undone
    BY CasesApart DEF RowInv, Undone
  <2>2. CASE wout = NoStatement
    <3>1. Len(<<>>) = 0 /\ DOMAIN <<>> = {}
      OBVIOUS
    <3> QED BY <2>2, <3>1 DEF Right, NoStatement
  <2>3. CASE wout = StatementOf(wcase)
    BY <2>1, <2>3, StatementIsRight
  <2> QED BY <2>1, <2>2, <2>3 DEF RowInv
<1>2. ASSUME wcase.kind = "value", wout.done
      PROVE  /\ wcase \in ValueCases /\ wout.first = Through(wcase.backend, wcase.field, wcase.value)
             /\ "again" \in DOMAIN wout =>
                   wout.first # Failed /\ wout.again = Through(wcase.backend, wcase.field, wout.first)
  BY <1>2, CasesApart DEF RowInv, Undone
<1>3. OwnValuesSurvive
  <2> SUFFICES ASSUME wcase.kind = "value", wout.done, Suits(wcase.field, wcase.value) PROVE wout.first = wcase.value
    BY DEF OwnValuesSurvive
  <2> QED BY <1>2, CasesApart, PostgresKeepsOwn, SqliteKeepsOwn
<1>4. ReadingBackIsStable
  <2> SUFFICES ASSUME wcase.kind = "value", wout.done, "again" \in DOMAIN wout
               PROVE  \/ wout.again = wout.first
                      \/ wcase.backend = "sqlite" /\ wcase.field.type = "json" /\ wout.first.k = "bool"
    BY DEF ReadingBackIsStable
  <2>1. CASE wcase.backend = "postgres"
    BY <1>2, <2>1, CasesApart, PostgresIsStable
  <2>2. CASE wcase.backend = "sqlite"
    BY <1>2, <2>2, CasesApart, SqliteIsStable
  <2> QED BY <1>2, <2>1, <2>2, CasesApart
<1> QED BY <1>1, <1>3, <1>4 DEF ValuesSurvive

(* In a statement every hole takes the value its column or condition is    *)
(* for, whatever the columns of the entity, their order and the fields     *)
(* sent; a value of the field's type comes back as it was sent, and what   *)
(* was read can be sent back: jsonToParams, buildUpdateParams, the type    *)
(* converters and their readers.                                           *)
THEOREM RowsSurvive == SpecWriting => []ValuesSurvive
<1>1. InitWriting => RowInv
  BY DEF InitWriting, RowInv
<1> QED BY <1>1, RowStep, RowsMean, PTL DEF SpecWriting
=============================================================================
