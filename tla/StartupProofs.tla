--------------------------- MODULE StartupProofs ----------------------------
(***************************************************************************)
(* What a start of the daemon does, for any seeders, statements that fail, *)
(* edits, migrations, schemas and overlapping requests: seeding and the    *)
(* migration queue respect the operator, and the tables come in step with  *)
(* the schema files.                                                       *)
(*                                                                         *)
(* Every part moves alone, so an invariant of each part is kept by every   *)
(* step of the whole.                                                      *)
(***************************************************************************)
EXTENDS MCStartup, SequenceTheorems, FiniteSetTheorems, TLAPS

(***************************************************************************)
(* SchemaRegistry                                                          *)
(***************************************************************************)
(* What a request that loaded the whole file, and that nobody overlapped,  *)
(* will write is the file with pending migrations decided.                 *)
Decides(view) ==
    \A m \in Migrations : view[m] = gfile[m] \/ (gfile[m] = "pending" /\ view[m] \in {"approved", "rejected"})
Undisturbed(p) ==
    gproc[p].pc \in {"open", "write"} /\ gproc[p].alone /\ ~gproc[p].blind => Decides(gproc[p].view)

RegistryInv == TypeOKRegistry /\ \A p \in RegistryProcs : Undisturbed(p)

RegistryStep ==
    /\ \A p \in RegistryProcs : WriteRegistry(p) /\ gproc[p].alone /\ ~gproc[p].blind =>
          \A m \in Migrations :
             gfile'[m] = gfile[m] \/ (gfile[m] = "pending" /\ gfile'[m] \in {"approved", "rejected"})
    /\ \A m \in gprisma' \ gprisma : gfile[m] = "approved" /\ ~gtorn

LEMMA EmptyIsRegistry == Empty \in [Migrations -> Statuses] /\ load_registry \in {Empty, gfile}
BY DEF Empty, Statuses, load_registry

LEMMA RegistryInit == InitRegistry => RegistryInv
<1> SUFFICES ASSUME InitRegistry PROVE RegistryInv
  OBVIOUS
<1>1. TypeOKRegistry
  <2>1. gfile \in [Migrations -> Statuses] /\ gtorn \in BOOLEAN /\ gprisma \subseteq Migrations
    BY EmptyIsRegistry DEF InitRegistry
  <2>2. gproc \in [RegistryProcs -> SchemaRequest \cup {NoRequest}]
    BY DEF InitRegistry
  <2>3. gdone \in 0..MaxSchemaRequests
    BY RegistryAssumption DEF InitRegistry, RegistryAssumption
  <2> QED BY <2>1, <2>2, <2>3 DEF TypeOKRegistry
<1>2. ASSUME NEW p \in RegistryProcs PROVE Undisturbed(p)
  BY DEF InitRegistry, Undisturbed, NoRequest
<1> QED BY <1>1, <1>2 DEF RegistryInv

(* A request that arrives or loads the file moves alone.                   *)
LEMMA OneRequestMoves ==
    ASSUME RegistryInv, NEW p \in RegistryProcs, NEW r \in SchemaRequest \cup {NoRequest},
           gproc' = [gproc EXCEPT ![p] = r],
           r.pc \in {"open", "write"} /\ r.alone /\ ~r.blind => Decides(r.view),
           UNCHANGED gfile, gtorn' \in BOOLEAN, gdone' \in 0..MaxSchemaRequests, gprisma' \subseteq Migrations
    PROVE  RegistryInv'
<1>1. \A q \in RegistryProcs : gproc'[q] = IF q = p THEN r ELSE gproc[q]
  BY DEF RegistryInv, TypeOKRegistry
<1>2. TypeOKRegistry'
  BY DEF RegistryInv, TypeOKRegistry
<1>3. ASSUME NEW q \in RegistryProcs PROVE Undisturbed(q)'
  BY <1>1 DEF RegistryInv, Undisturbed, Decides
<1> QED BY <1>2, <1>3 DEF RegistryInv

LEMMA Loading ==
    ASSUME RegistryInv, NEW p \in RegistryProcs, gproc[p].pc = "load", NEW view \in [Migrations -> Statuses],
           Loaded(p, view), ~gtorn => Decides(view), UNCHANGED <<gfile, gtorn, gdone, gprisma>>
    PROVE  RegistryInv'
<1> DEFINE r == [gproc[p] EXCEPT !.pc = "open", !.view = view, !.blind = gtorn]
<1>1. gproc[p] \in SchemaRequest
  BY DEF RegistryInv, TypeOKRegistry, NoRequest
<1>2. r \in SchemaRequest /\ r.blind = gtorn /\ r.view = view
  BY <1>1 DEF SchemaRequest, RegistryInv, TypeOKRegistry
<1>3. gproc' = [gproc EXCEPT ![p] = r]
  BY DEF Loaded
<1> HIDE DEF r
<1> QED BY <1>2, <1>3, OneRequestMoves DEF RegistryInv, TypeOKRegistry

LEMMA Replying ==
    ASSUME RegistryInv, NEW p \in RegistryProcs, Replied(p), UNCHANGED <<gfile, gtorn, gdone>>, gprisma' \subseteq Migrations
    PROVE  RegistryInv'
BY OneRequestMoves DEF Replied, NoRequest, RegistryInv, TypeOKRegistry

(* One that opens or writes the file takes the others' rest away.          *)
LEMMA OthersAreDisturbed ==
    ASSUME RegistryInv, NEW p \in RegistryProcs, NEW r \in SchemaRequest \cup {NoRequest},
           gproc' = [q \in RegistryProcs |-> IF q = p THEN r
                        ELSE IF Interrupted(q, p) THEN [gproc[q] EXCEPT !.alone = FALSE] ELSE gproc[q]],
           gfile' \in [Migrations -> Statuses], gtorn' \in BOOLEAN, UNCHANGED <<gdone, gprisma>>,
           r.pc = "write" => UNCHANGED gfile /\ (r.alone /\ ~r.blind => Decides(r.view)),
           r.pc # "open"
    PROVE  RegistryInv'
<1>1. ASSUME NEW q \in RegistryProcs, Interrupted(q, p)
      PROVE  [gproc[q] EXCEPT !.alone = FALSE] \in SchemaRequest /\ ~[gproc[q] EXCEPT !.alone = FALSE].alone
  <2>1. gproc[q] \in SchemaRequest
    BY <1>1 DEF Interrupted, RegistryInv, TypeOKRegistry, NoRequest
  <2> QED BY <2>1 DEF SchemaRequest
<1>2. TypeOKRegistry'
  BY <1>1 DEF RegistryInv, TypeOKRegistry
<1>3. ASSUME NEW q \in RegistryProcs PROVE Undisturbed(q)'
  <2>1. CASE q = p
    BY <2>1 DEF Undisturbed, Decides
  <2>2. CASE q # p /\ Interrupted(q, p)
    BY <1>1, <2>2 DEF Undisturbed
  <2>3. CASE q # p /\ ~Interrupted(q, p)
    BY <2>3 DEF Undisturbed, Interrupted
  <2> QED BY <2>1, <2>2, <2>3
<1> QED BY <1>2, <1>3 DEF RegistryInv

LEMMA RegistryKeeps == RegistryInv /\ [NextRegistry]_registryVars => RegistryInv' /\ (RegistryStep \/ UNCHANGED registryVars)
<1> SUFFICES ASSUME RegistryInv, [NextRegistry]_registryVars PROVE RegistryInv' /\ (RegistryStep \/ UNCHANGED registryVars)
  OBVIOUS
<1> USE RegistryAssumption DEF RegistryAssumption
<1>1. ASSUME gprisma' = gprisma, \A p \in RegistryProcs : ~(WriteRegistry(p) /\ gproc[p].alone /\ ~gproc[p].blind)
      PROVE  RegistryStep
  BY <1>1 DEF RegistryStep
<1>2. ASSUME gprisma' = gprisma, UNCHANGED gfile
      PROVE  RegistryStep
  BY <1>2 DEF RegistryStep
<1>3. ASSUME NEW p \in RegistryProcs, NEW action \in {"scan", "approve", "reject", "generate"}, NEW id \in Migrations \cup {"all"},
             handleSchema(p, action, id)
      PROVE  RegistryInv' /\ RegistryStep
  <2> DEFINE r == [pc |-> "load", action |-> action, id |-> id, view |-> Empty, blind |-> FALSE, alone |-> TRUE]
  <2>1. r \in SchemaRequest /\ r.pc = "load"
    BY EmptyIsRegistry DEF SchemaRequest
  <2>2. gproc' = [gproc EXCEPT ![p] = r]
    BY <1>3 DEF handleSchema
  <2> HIDE DEF r
  <2>3. gdone' \in 0..MaxSchemaRequests /\ gtorn' \in BOOLEAN /\ gprisma' \subseteq Migrations /\ UNCHANGED gfile
    BY <1>3 DEF handleSchema, RegistryInv, TypeOKRegistry
  <2>4. RegistryInv'
    BY <2>1, <2>2, <2>3, OneRequestMoves
  <2> QED BY <1>2, <1>3, <2>4 DEF handleSchema
<1>4. ASSUME NEW p \in RegistryProcs, handle_scan(p) PROVE RegistryInv' /\ RegistryStep
  <2>1. load_registry \in [Migrations -> Statuses] /\ (~gtorn => Decides(load_registry))
    BY EmptyIsRegistry DEF Decides, load_registry, RegistryInv, TypeOKRegistry
  <2>2. RegistryInv'
    BY <1>4, <2>1, Loading, Replying DEF handle_scan, RegistryInv, TypeOKRegistry
  <2> QED BY <1>2, <1>4, <2>2 DEF handle_scan
<1>5. ASSUME NEW p \in RegistryProcs, handle_approve(p) PROVE RegistryInv' /\ RegistryStep
  <2> DEFINE hits == {m \in Migrations : load_registry[m] = "pending" /\ gproc[p].id \in {m, "all"}}
             view == [m \in Migrations |-> IF m \in hits THEN "approved" ELSE load_registry[m]]
  <2>1. view \in [Migrations -> Statuses] /\ (~gtorn => Decides(view))
    BY EmptyIsRegistry DEF Decides, load_registry, RegistryInv, TypeOKRegistry, Statuses
  <2>2. Replied(p) \/ Loaded(p, view)
    BY <1>5 DEF handle_approve
  <2> HIDE DEF view
  <2>3. RegistryInv'
    BY <1>5, <2>1, <2>2, Loading, Replying DEF handle_approve, RegistryInv, TypeOKRegistry
  <2> QED BY <1>2, <1>5, <2>3 DEF handle_approve
<1>6. ASSUME NEW p \in RegistryProcs, handle_reject(p) PROVE RegistryInv' /\ RegistryStep
  <2> DEFINE view == [load_registry EXCEPT ![gproc[p].id] = "rejected"]
  <2>1. load_registry[gproc[p].id] = "pending" => view \in [Migrations -> Statuses] /\ (~gtorn => Decides(view))
    BY EmptyIsRegistry DEF Decides, load_registry, RegistryInv, TypeOKRegistry, Statuses
  <2>2. Replied(p) \/ (Loaded(p, view) /\ load_registry[gproc[p].id] = "pending")
    BY <1>6 DEF handle_reject
  <2> HIDE DEF view
  <2>3. RegistryInv'
    BY <1>6, <2>1, <2>2, Loading, Replying DEF handle_reject, RegistryInv, TypeOKRegistry
  <2> QED BY <1>2, <1>6, <2>3 DEF handle_reject
<1>7. ASSUME NEW p \in RegistryProcs, handle_generate(p) PROVE RegistryInv' /\ RegistryStep
  <2>1. gprisma' \subseteq Migrations /\ \A m \in gprisma' \ gprisma : load_registry[m] = "approved" /\ m \in Migrations
    BY <1>7 DEF handle_generate, RegistryInv, TypeOKRegistry
  <2>2. \A m \in gprisma' \ gprisma : gfile[m] = "approved" /\ ~gtorn
    BY <2>1 DEF load_registry, Empty
  <2>3. RegistryInv'
    BY <1>7, <2>1, Replying DEF handle_generate
  <2>4. UNCHANGED gfile
    BY <1>7 DEF handle_generate
  <2> QED BY <2>2, <2>3, <2>4 DEF RegistryStep
<1>8. ASSUME NEW p \in RegistryProcs, save_registry(p) PROVE RegistryInv' /\ RegistryStep
  <2>0. UNCHANGED <<gfile, gdone, gprisma>> /\ gprisma \subseteq Migrations /\ gfile \in [Migrations -> Statuses]
    BY <1>8 DEF save_registry, RegistryInv, TypeOKRegistry
  <2>1. ASSUME Replied(p) /\ UNCHANGED gtorn PROVE RegistryInv'
    BY <2>0, <2>1, Replying
  <2>2. ASSUME ~(Replied(p) /\ UNCHANGED gtorn) PROVE RegistryInv'
    <3> DEFINE r == [gproc[p] EXCEPT !.pc = "write"]
    <3>1. gproc[p] \in SchemaRequest
      BY <1>8 DEF save_registry, RegistryInv, TypeOKRegistry, NoRequest
    <3>2. r \in SchemaRequest /\ r.pc = "write" /\ r.view = gproc[p].view /\ r.alone = gproc[p].alone /\ r.blind = gproc[p].blind
      BY <3>1 DEF SchemaRequest
    <3>3. gproc' = [q \in RegistryProcs |-> IF q = p THEN r
                        ELSE IF Interrupted(q, p) THEN [gproc[q] EXCEPT !.alone = FALSE] ELSE gproc[q]]
      BY <1>8, <2>2 DEF save_registry
    <3>4. r.alone /\ ~r.blind => Decides(r.view)
      BY <1>8, <3>2 DEF save_registry, RegistryInv, Undisturbed
    <3>5. gtorn' \in BOOLEAN
      BY <1>8, <2>2 DEF save_registry
    <3> HIDE DEF r
    <3> QED BY <2>0, <3>2, <3>3, <3>4, <3>5, OthersAreDisturbed
  <2>3. UNCHANGED gfile /\ gprisma' = gprisma
    BY <1>8 DEF save_registry
  <2> QED BY <1>2, <2>1, <2>2, <2>3
<1>9. ASSUME NEW p \in RegistryProcs, WriteRegistry(p) PROVE RegistryInv' /\ RegistryStep
  <2>1. gproc[p] \in SchemaRequest
    BY <1>9 DEF WriteRegistry, RegistryInv, TypeOKRegistry, NoRequest
  <2>2. gfile' \in [Migrations -> Statuses]
    BY <1>9, <2>1 DEF WriteRegistry, SchemaRequest
  <2>3. RegistryInv'
    BY <1>9, <2>2, OthersAreDisturbed DEF WriteRegistry, NoRequest
  <2>4. ASSUME NEW q \in RegistryProcs, WriteRegistry(q), gproc[q].alone, ~gproc[q].blind
        PROVE  Decides(gproc[q].view) /\ gfile' = gproc[q].view
    BY <2>4 DEF WriteRegistry, RegistryInv, Undisturbed
  <2>5. gprisma' = gprisma
    BY <1>9 DEF WriteRegistry
  <2> QED BY <2>3, <2>4, <2>5 DEF RegistryStep, Decides
<1>10. ASSUME NEW m \in Migrations, QueueMigration(m) PROVE RegistryInv' /\ RegistryStep
  <2>1. \A p \in RegistryProcs : gproc'[p] = NoRequest /\ gproc[p] = NoRequest
    BY <1>10 DEF QueueMigration
  <2>2. TypeOKRegistry'
    BY <1>10 DEF QueueMigration, RegistryInv, TypeOKRegistry, Statuses
  <2>3. RegistryInv'
    BY <2>1, <2>2 DEF RegistryInv, Undisturbed, NoRequest
  <2>4. gprisma' = gprisma /\ \A p \in RegistryProcs : ~WriteRegistry(p)
    BY <1>10, <2>1 DEF QueueMigration, WriteRegistry, NoRequest
  <2> QED BY <1>1, <2>3, <2>4
<1>11. ASSUME RegistryRestart PROVE RegistryInv' /\ RegistryStep
  <2>1. RegistryInv'
    BY <1>11 DEF RegistryRestart, RegistryInv, TypeOKRegistry, Undisturbed, NoRequest
  <2> QED BY <1>2, <1>11, <2>1 DEF RegistryRestart
<1>12. ASSUME UNCHANGED registryVars PROVE RegistryInv'
  BY <1>12 DEF registryVars, RegistryInv, TypeOKRegistry, Undisturbed, Decides
<1> QED BY <1>3, <1>4, <1>5, <1>6, <1>7, <1>8, <1>9, <1>10, <1>11, <1>12 DEF NextRegistry

(***************************************************************************)
(* Seeds                                                                   *)
(***************************************************************************)
Records(seq) == {seq[i] : i \in DOMAIN seq}
Halfway == {"create", "look", "update", "print"}
Deep == {"look", "update", "print"}

(* Where a seeding stands in its document.                                 *)
Control(run) ==
    /\ run.pc = "document" => run.todo = sdir
    /\ run.pc \in Halfway => run.todo # <<>>
    /\ run.pc = "end" => run.todo = <<>>
    /\ run.pc \in Deep => Head(run.todo) \in Bootstrap
    /\ run.missing => run.pc = "end"

(* What a seeding that nobody interfered with has brought about: records   *)
(* behind it are there, with the file's content or another fingerprint,    *)
(* unless one failed or the document was skipped; and what it inserted.    *)
Applied(run, rows, prints) ==
    /\ run.pc \in Deep => rows[Head(run.todo)] # NoRow
    /\ run.pc = "print" => rows[Head(run.todo)].v = run.file
    /\ run.pc = "update" /\ Head(run.todo) = "u" /\ "u" \notin run.blind => prints["u"] # [v |-> run.file, at |-> 0]
    /\ ~run.failed /\ ~run.missing /\ (run.force \/ sdir # <<"g", "h">>) =>
          \A r \in Records(sdir) \ Records(run.todo) :
             rows[r] # NoRow /\ (r \in Bootstrap /\ prints[r].v = rows[r].v => rows[r].v = run.file)
    /\ run.inserted => \E r \in Records(sdir) : rows[r] # NoRow /\ rows[r].v = run.file

(* While it is undisturbed no other seeding is inside its document.        *)
QuietAt(s) ==
    sruns[s].pc # "idle" /\ sruns[s].quiet =>
        Applied(sruns[s], srow, sprint) /\ \A o \in Seeders \ {s} : sruns[o].pc \in {"idle", "end"}

(* "u" rows have no time in their fingerprint.                             *)
UsersHaveNoTime == sprint["u"] # NoPrint => sprint["u"].at = 0

SeedInv ==
    /\ TypeOKSeeds
    /\ UsersHaveNoTime
    /\ \A s \in Seeders : (sruns[s].pc # "idle" => Control(sruns[s])) /\ QuietAt(s)

(***************************************************************************)
(* Documents                                                               *)
(***************************************************************************)
Rests == {<<>>, <<"u">>, <<"t">>, <<"h">>, <<"g", "h">>}
RestsOf(dir) == {SubSeq(dir, i, Len(dir)) : i \in 1..(Len(dir) + 1)}

LEMMA RestsAre ==
    /\ RestsOf(<<"u">>) = {<<"u">>, <<>>}
    /\ RestsOf(<<"t">>) = {<<"t">>, <<>>}
    /\ RestsOf(<<"g", "h">>) = {<<"g", "h">>, <<"h">>, <<>>}
<1> DEFINE S == {"u", "t", "g", "h"}
<1>0. <<"u">> \in Seq(S) /\ <<"t">> \in Seq(S) /\ <<"g", "h">> \in Seq(S)
  OBVIOUS
<1>3. Len(<<"u">>) = 1 /\ Len(<<"t">>) = 1 /\ Len(<<"g", "h">>) = 2 /\ 1..2 = {1, 2} /\ 1..3 = {1, 2, 3}
  OBVIOUS
<1> HIDE DEF S
<1>6. SubSeq(<<"u">>, 1, 1) = <<"u">> /\ SubSeq(<<"t">>, 1, 1) = <<"t">> /\ SubSeq(<<"g", "h">>, 1, 2) = <<"g", "h">>
  BY <1>0, <1>3, SubSeqFull
<1>7. ASSUME NEW s, NEW n \in {1, 2} PROVE SubSeq(s, n + 1, n) = <<>>
  BY SubSeqEmpty
<1>8. SubSeq(<<"u">>, 2, 1) = <<>> /\ SubSeq(<<"t">>, 2, 1) = <<>> /\ SubSeq(<<"g", "h">>, 3, 2) = <<>>
  <2>1. SubSeq(<<"u">>, 1 + 1, 1) = <<>> /\ SubSeq(<<"t">>, 1 + 1, 1) = <<>> /\ SubSeq(<<"g", "h">>, 2 + 1, 2) = <<>>
    BY <1>7
  <2> QED BY <2>1
<1>2. SubSeq(<<"g", "h">>, 2, 2) = <<"h">>
  <2>1. SubSeq(<<"g", "h">>, 2, 2) = Tail(<<"g", "h">>)
    BY <1>0, <1>3, TailIsSubSeq
  <2>2. Tail(<<"g", "h">>) = <<"h">>
    OBVIOUS
  <2> QED BY <2>1, <2>2
<1>4. RestsOf(<<"u">>) = {SubSeq(<<"u">>, i, 1) : i \in {1, 2}} /\ RestsOf(<<"t">>) = {SubSeq(<<"t">>, i, 1) : i \in {1, 2}}
  BY <1>3 DEF RestsOf
<1>5. RestsOf(<<"g", "h">>) = {SubSeq(<<"g", "h">>, i, 2) : i \in {1, 2, 3}}
  BY <1>3 DEF RestsOf
<1> QED BY <1>2, <1>4, <1>5, <1>6, <1>8

LEMMA RecordsAre ==
    /\ Records(<<>>) = {} /\ Records(<<"u">>) = {"u"} /\ Records(<<"t">>) = {"t"}
    /\ Records(<<"h">>) = {"h"} /\ Records(<<"g", "h">>) = {"g", "h"}
BY DEF Records

LEMMA TailsAre ==
    /\ Head(<<"u">>) = "u" /\ Tail(<<"u">>) = <<>> /\ Len(<<"u">>) = 1
    /\ Head(<<"t">>) = "t" /\ Tail(<<"t">>) = <<>> /\ Len(<<"t">>) = 1
    /\ Head(<<"h">>) = "h" /\ Tail(<<"h">>) = <<>> /\ Len(<<"h">>) = 1
    /\ Head(<<"g", "h">>) = "g" /\ Tail(<<"g", "h">>) = <<"h">> /\ Len(<<"g", "h">>) = 2
OBVIOUS

(* The record at the head, and what is left after it.                      *)
LEMMA Restful ==
    ASSUME sdir \in SeedDocuments, NEW todo \in RestsOf(sdir)
    PROVE  /\ sdir \in RestsOf(sdir) /\ <<>> \in RestsOf(sdir) /\ sdir # <<>>
           /\ todo # <<>> =>
                 /\ Head(todo) \in Records(sdir) /\ Head(todo) \in SeedRecords /\ Tail(todo) \in RestsOf(sdir)
                 /\ (Len(todo) = 1) = (Tail(todo) = <<>>)
                 /\ Records(todo) = Records(Tail(todo)) \cup {Head(todo)}
                 /\ Head(todo) \in Bootstrap => Records(sdir) = {Head(todo)} /\ todo = sdir /\ Tail(todo) = <<>>
           /\ Records(<<>>) = {} /\ Records(sdir) \subseteq SeedRecords
           /\ sdir = <<"g", "h">> => Records(sdir) = Content
           /\ sdir # <<"g", "h">> => Records(sdir) \subseteq Bootstrap
<1> USE RecordsAre, TailsAre DEF SeedRecords, Bootstrap, Content
<1>1. CASE sdir = <<"u">>
  <2>1. todo \in {<<"u">>, <<>>}
    BY <1>1, RestsAre
  <2> QED BY <1>1, <2>1, RestsAre
<1>2. CASE sdir = <<"t">>
  <2>1. todo \in {<<"t">>, <<>>}
    BY <1>2, RestsAre
  <2> QED BY <1>2, <2>1, RestsAre
<1>3. CASE sdir = <<"g", "h">>
  <2>1. todo \in {<<"g", "h">>, <<"h">>, <<>>}
    BY <1>3, RestsAre
  <2>2. CASE todo = <<>>
    BY <1>3, <2>2, RestsAre
  <2>3. CASE todo = <<"h">>
    BY <1>3, <2>3, RestsAre
  <2>4. CASE todo = <<"g", "h">>
    BY <1>3, <2>4, RestsAre
  <2> QED BY <2>1, <2>2, <2>3, <2>4
<1> QED BY <1>1, <1>2, <1>3 DEF SeedDocuments

(***************************************************************************)
(* One seeding                                                             *)
(***************************************************************************)
LEMMA SeedTypes ==
    ASSUME SeedInv
    PROVE  /\ NoRow \notin SeedRow /\ NoPrint \notin [v : {0, 1}, at : 0..MaxSeedings]
           /\ \A s \in Seeders : sruns[s].pc # "idle" => sruns[s] \in SeedRun
           /\ \A s \in Seeders : sruns[s] \in SeedRun \/ sruns[s] = IdleSeeder
           /\ \A r \in SeedRecords : Present(r) => srow[r] \in SeedRow
           /\ sdir \in SeedDocuments
<1>1. NoRow \notin SeedRow
  BY DEF NoRow, SeedRow
<1>2. NoPrint \notin [v : {0, 1}, at : 0..MaxSeedings]
  BY DEF NoPrint
<1>3. \A s \in Seeders : sruns[s] \in SeedRun \/ sruns[s] = IdleSeeder
  BY DEF SeedInv, TypeOKSeeds
<1>4. \A s \in Seeders : sruns[s].pc # "idle" => sruns[s] \in SeedRun
  BY <1>3 DEF IdleSeeder
<1>5. \A r \in SeedRecords : Present(r) => srow[r] \in SeedRow
  BY DEF SeedInv, TypeOKSeeds, Present
<1>6. sdir \in SeedDocuments
  BY DEF SeedInv, TypeOKSeeds
<1> QED BY <1>1, <1>2, <1>3, <1>4, <1>5, <1>6

LEMMA SeedInit == InitSeeds => SeedInv
<1> SUFFICES ASSUME InitSeeds PROVE SeedInv
  OBVIOUS
<1>1. \A s \in Seeders : sruns[s] = IdleSeeder /\ sruns[s].pc = "idle"
  BY DEF InitSeeds, IdleSeeder
<1>2. sruns \in [Seeders -> SeedRun \cup {IdleSeeder}]
  BY DEF InitSeeds
<1>3. srow \in [SeedRecords -> SeedRow \cup {NoRow}]
  BY DEF InitSeeds
<1>4. sprint \in [Bootstrap -> [v : {0, 1}, at : 0..MaxSeedings] \cup {NoPrint}]
  BY DEF InitSeeds
<1>5. sclock \in 0..MaxSeedings /\ smeddled \in 0..MaxMeddling /\ sfile \in {0, 1} /\ sdir \in SeedDocuments
  BY SeedAssumption DEF InitSeeds, SeedAssumption
<1>6. TypeOKSeeds
  BY <1>2, <1>3, <1>4, <1>5 DEF TypeOKSeeds
<1>7. UsersHaveNoTime
  BY DEF UsersHaveNoTime, InitSeeds, Bootstrap
<1> QED BY <1>1, <1>6, <1>7 DEF SeedInv, QuietAt

(* A seeding inside its document is the only one that may be undisturbed:  *)
(* what it does only has to keep its own claims.                           *)
LEMMA SeederMoves ==
    ASSUME SeedInv, NEW s \in Seeders, NEW run \in SeedRun,
           sruns[s].pc \in Halfway \cup {"document"}, sruns' = [sruns EXCEPT ![s] = run],
           run.quiet = sruns[s].quiet,
           srow' \in [SeedRecords -> SeedRow \cup {NoRow}],
           sprint' \in [Bootstrap -> [v : {0, 1}, at : 0..MaxSeedings] \cup {NoPrint}],
           UNCHANGED <<sdir, sfile, sclock, smeddled>>,
           UsersHaveNoTime', Control(run), run.quiet => Applied(run, srow', sprint')
    PROVE  SeedInv'
<1>1. \A o \in Seeders : sruns'[o] = IF o = s THEN run ELSE sruns[o]
  BY DEF SeedInv, TypeOKSeeds
<1>2. SeedRun' = SeedRun /\ \A r : Control(r)' = Control(r)
  BY DEF SeedRun, Control
<1>3. TypeOKSeeds'
  BY <1>2 DEF SeedInv, TypeOKSeeds
<1>4. ASSUME NEW o \in Seeders \ {s}, sruns[o].pc # "idle" PROVE ~sruns[o].quiet
  BY <1>4 DEF SeedInv, QuietAt, Halfway
<1>5. \A o \in Seeders : QuietAt(o)'
  <2> TAKE o \in Seeders
  <2>1. CASE o = s
    <3>1. \A q \in Seeders \ {s} : sruns'[q] = sruns[q]
      BY <1>1
    <3>2. run.quiet => \A q \in Seeders \ {s} : sruns[q].pc \in {"idle", "end"}
      BY DEF SeedInv, QuietAt, Halfway
    <3> QED BY <1>1, <2>1, <3>1, <3>2 DEF QuietAt, Applied
  <2>2. CASE o # s
    BY <1>1, <1>4, <2>2 DEF QuietAt
  <2> QED BY <2>1, <2>2
<1>6. \A o \in Seeders : (sruns[o].pc # "idle" => Control(sruns[o]))'
  BY <1>1, <1>2 DEF SeedInv
<1> QED BY <1>3, <1>5, <1>6 DEF SeedInv

(* Where a seeding inside its document stands.                             *)
LEMMA SeederStands ==
    ASSUME SeedInv, NEW s \in Seeders, sruns[s].pc \in Halfway \cup {"document"}
    PROVE  /\ sruns[s] \in SeedRun /\ Control(sruns[s])
           /\ sruns[s].quiet => Applied(sruns[s], srow, sprint)
           /\ sruns[s].todo # <<>> /\ Now(s) \in Records(sdir) /\ Now(s) \in SeedRecords
           /\ Now(s) \in Bootstrap => Records(sdir) = {Now(s)} /\ sruns[s].todo = sdir /\ Tail(sruns[s].todo) = <<>>
           /\ sruns[s].pc \in Deep => Now(s) \in Bootstrap
<1>1. sruns[s] \in SeedRun /\ Control(sruns[s]) /\ QuietAt(s) /\ sdir \in SeedDocuments
  BY SeedTypes DEF SeedInv, Halfway
<1>2. sruns[s].todo \in RestsOf(sdir)
  BY <1>1 DEF SeedRun, RestsOf
<1>4. Deep \subseteq Halfway
  BY DEF Deep, Halfway
<1>5. sruns[s].pc # "idle"
  BY DEF Halfway
<1>3. sruns[s].todo # <<>>
  BY <1>1, <1>2, Restful DEF Control, Halfway
<1>6. /\ Now(s) \in Records(sdir) /\ Now(s) \in SeedRecords
      /\ Now(s) \in Bootstrap => Records(sdir) = {Now(s)} /\ sruns[s].todo = sdir /\ Tail(sruns[s].todo) = <<>>
  BY <1>1, <1>2, <1>3, Restful DEF Now
<1>7. sruns[s].pc \in Deep => Now(s) \in Bootstrap
  BY <1>1 DEF Control, Now
<1>8. sruns[s].quiet => Applied(sruns[s], srow, sprint)
  BY <1>1, <1>5 DEF QuietAt
<1> QED BY <1>1, <1>3, <1>6, <1>7, <1>8

(* The next record, after one that is settled or has failed.               *)
LEMMA Advances ==
    ASSUME SeedInv, NEW s \in Seeders, sruns[s].pc \in Halfway, NEW run \in SeedRun,
           run.todo = sruns[s].todo, ~run.missing
    PROVE  /\ Advance(run) \in SeedRun /\ Control(Advance(run))
           /\ Advance(run).pc \in {"create", "end"} /\ Advance(run).todo = Tail(run.todo)
           /\ Advance(run).file = run.file /\ Advance(run).force = run.force /\ ~Advance(run).missing
           /\ Advance(run).inserted = run.inserted /\ Advance(run).failed = run.failed
           /\ Advance(run).quiet = run.quiet /\ Advance(run).blind = run.blind
<1>1. run.todo \in RestsOf(sdir) /\ sdir \in SeedDocuments /\ run.todo # <<>>
  BY SeedTypes, SeederStands DEF SeedRun, RestsOf
<1>2. /\ Tail(run.todo) \in RestsOf(sdir) /\ (Len(run.todo) = 1) = (Tail(run.todo) = <<>>)
      /\ Records(run.todo) = Records(Tail(run.todo)) \cup {Now(s)}
  BY <1>1, Restful DEF Now
<1> DEFINE rest == Tail(run.todo)
           pc == IF Len(run.todo) = 1 THEN "end" ELSE "create"
<1>6. Advance(run) = [run EXCEPT !.todo = rest, !.pc = pc]
  BY DEF Advance
<1>7. pc = (IF rest = <<>> THEN "end" ELSE "create") /\ rest \in RestsOf(sdir)
  BY <1>2
<1> HIDE DEF rest, pc
<1>8. Advance(run) \in SeedRun /\ Advance(run).todo = rest /\ Advance(run).pc = pc
  BY <1>6, <1>7 DEF SeedRun, RestsOf
<1>3. Advance(run) \in SeedRun /\ Advance(run).todo = Tail(run.todo)
      /\ Advance(run).pc = IF Tail(run.todo) = <<>> THEN "end" ELSE "create"
  BY <1>7, <1>8 DEF rest
<1>4. /\ Advance(run).file = run.file /\ Advance(run).force = run.force /\ Advance(run).missing = run.missing
      /\ Advance(run).inserted = run.inserted /\ Advance(run).failed = run.failed
      /\ Advance(run).quiet = run.quiet /\ Advance(run).blind = run.blind
  BY DEF Advance, SeedRun
<1>5. Control(Advance(run))
  BY <1>3, <1>4 DEF Control, Deep, Halfway
<1> QED BY <1>2, <1>3, <1>4, <1>5

LEMMA TailOf ==
    ASSUME SeedInv, NEW s \in Seeders, sruns[s].pc \in Halfway
    PROVE  Records(sruns[s].todo) = Records(Tail(sruns[s].todo)) \cup {Now(s)}
<1>1. sruns[s].todo \in RestsOf(sdir) /\ sdir \in SeedDocuments /\ sruns[s].todo # <<>>
  BY SeedTypes, SeederStands DEF SeedRun, RestsOf
<1> QED BY <1>1, Restful DEF Now

(* The record at hand is settled: what is behind the seeding next is what  *)
(* was behind it and this record.                                          *)
LEMMA Settles ==
    ASSUME SeedInv, NEW s \in Seeders, sruns[s].pc \in Halfway, NEW next \in SeedRun,
           next.pc \in {"create", "end"}, next.todo = Tail(sruns[s].todo), NEW rows, NEW prints,
           ~next.failed /\ (next.force \/ sdir # <<"g", "h">>) =>
              \A r \in (Records(sdir) \ Records(sruns[s].todo)) \cup {Now(s)} :
                 rows[r] # NoRow /\ (r \in Bootstrap /\ prints[r].v = rows[r].v => rows[r].v = next.file),
           next.inserted => \E r \in Records(sdir) : rows[r] # NoRow /\ rows[r].v = next.file
    PROVE  Applied(next, rows, prints)
<1>1. next.pc \notin Deep /\ next.pc # "print" /\ next.pc # "update"
  BY DEF Deep
<1>2. Records(sdir) \ Records(next.todo) \subseteq (Records(sdir) \ Records(sruns[s].todo)) \cup {Now(s)}
  BY TailOf
<1> QED BY <1>1, <1>2 DEF Applied

(* Rows of ordinary content survive, but for operators.                    *)
ContentStays == \A r \in Content : Present(r) => srow'[r] \in {srow[r], NoRow} \/ srow'[r].by = "operator"

LEMMA TypesOfSeeds ==
    ASSUME SeedInv
    PROVE  /\ srow \in [SeedRecords -> SeedRow \cup {NoRow}]
           /\ sprint \in [Bootstrap -> [v : {0, 1}, at : 0..MaxSeedings] \cup {NoPrint}]
           /\ UsersHaveNoTime /\ sruns \in [Seeders -> SeedRun \cup {IdleSeeder}]
BY DEF SeedInv, TypeOKSeeds

LEMMA Unreadable ==
    ASSUME SeedInv, NEW s \in Seeders, FileUnreadable(s) PROVE SeedInv' /\ ContentStays
<1> DEFINE run == [SkipAll(sruns[s]) EXCEPT !.failed = TRUE]
<1>1. /\ sruns[s].pc = "document" /\ sruns' = [sruns EXCEPT ![s] = run]
      /\ UNCHANGED <<sdir, sfile, srow, sprint, sclock, smeddled>>
  BY DEF FileUnreadable, At
<1>2. sruns[s] \in SeedRun /\ Control(sruns[s]) /\ (sruns[s].quiet => Applied(sruns[s], srow, sprint))
  BY <1>1, SeederStands
<1>3. <<>> \in RestsOf(sdir)
  BY SeedTypes, Restful, RestsAre DEF SeedDocuments
<1>4. run \in SeedRun /\ run.pc = "end" /\ run.todo = <<>> /\ run.failed /\ run.missing = sruns[s].missing
      /\ run.quiet = sruns[s].quiet /\ run.inserted = sruns[s].inserted /\ run.file = sruns[s].file
  BY <1>2, <1>3 DEF SkipAll, SeedRun, RestsOf
<1> HIDE DEF run
<1>5. Control(run)
  BY <1>4 DEF Control, Halfway, Deep
<1>6. run.quiet => Applied(run, srow, sprint)
  BY <1>2, <1>4 DEF Applied, Deep
<1>7. SeedInv'
  BY <1>1, <1>4, <1>5, <1>6, TypesOfSeeds, SeederMoves DEF UsersHaveNoTime
<1> QED BY <1>1, <1>7 DEF ContentStays

LEMMA Starts ==
    ASSUME SeedInv, NEW s \in Seeders, StartDocument(s) PROVE SeedInv' /\ ContentStays
<1>1. sruns[s].pc = "document" /\ UNCHANGED <<sdir, sfile, srow, sprint, sclock, smeddled>>
  BY DEF StartDocument, At
<1>2. /\ sruns[s] \in SeedRun /\ Control(sruns[s]) /\ (sruns[s].quiet => Applied(sruns[s], srow, sprint))
      /\ Now(s) \in Records(sdir) /\ sruns[s].todo # <<>>
  BY <1>1, SeederStands
<1>3. CASE Now(s) \in Content /\ ~sruns[s].force /\ sruns' = [sruns EXCEPT ![s] = SkipAll(@)]
  <2> DEFINE run == SkipAll(sruns[s])
  <2>0. sruns' = [sruns EXCEPT ![s] = run]
    BY <1>3
  <2>1. <<>> \in RestsOf(sdir) /\ sdir = <<"g", "h">>
    BY <1>2, <1>3, SeedTypes, RestsAre, RecordsAre DEF SeedDocuments, Content
  <2>2. run \in SeedRun /\ run.pc = "end" /\ run.todo = <<>> /\ ~run.force /\ run.missing = sruns[s].missing
        /\ run.quiet = sruns[s].quiet /\ run.inserted = sruns[s].inserted /\ run.file = sruns[s].file
    BY <1>2, <1>3, <2>1 DEF SkipAll, SeedRun, RestsOf
  <2> HIDE DEF run
  <2>3. Control(run)
    BY <2>2 DEF Control, Halfway, Deep
  <2>4. run.quiet => Applied(run, srow, sprint)
    BY <1>2, <2>1, <2>2 DEF Applied, Deep
  <2>5. SeedInv'
    BY <1>1, <2>0, <2>2, <2>3, <2>4, TypesOfSeeds, SeederMoves DEF UsersHaveNoTime
  <2> QED BY <1>1, <2>5 DEF ContentStays
<1>4. CASE sruns' = [sruns EXCEPT ![s].pc = "create"]
  <2> DEFINE run == [sruns[s] EXCEPT !.pc = "create"]
  <2>0. sruns' = [sruns EXCEPT ![s] = run]
    BY <1>4
  <2>2. run \in SeedRun /\ run.pc = "create" /\ run.todo = sruns[s].todo /\ run.force = sruns[s].force /\ run.missing = sruns[s].missing
        /\ run.quiet = sruns[s].quiet /\ run.inserted = sruns[s].inserted /\ run.file = sruns[s].file /\ run.failed = sruns[s].failed
    BY <1>2 DEF SeedRun
  <2> HIDE DEF run
  <2>3. Control(run)
    BY <1>1, <1>2, <2>2 DEF Control, Halfway, Deep
  <2>4. run.quiet => Applied(run, srow, sprint)
    BY <1>2, <2>2 DEF Applied, Deep
  <2>5. SeedInv'
    BY <1>1, <2>0, <2>2, <2>3, <2>4, TypesOfSeeds, SeederMoves DEF UsersHaveNoTime
  <2> QED BY <1>1, <2>5 DEF ContentStays
<1> QED BY <1>3, <1>4 DEF StartDocument

LEMMA Fails ==
    ASSUME SeedInv, NEW s \in Seeders, RecordFails(s) PROVE SeedInv' /\ ContentStays
<1> DEFINE next == Advance(sruns[s])
           run == [next EXCEPT !.failed = TRUE]
<1>1. sruns[s].pc \in Halfway /\ UNCHANGED <<sdir, sfile, srow, sprint, sclock, smeddled>>
  BY DEF RecordFails, Halfway
<1>2. sruns[s] \in SeedRun /\ (sruns[s].quiet => Applied(sruns[s], srow, sprint)) /\ ~sruns[s].missing
  BY <1>1, SeederStands DEF Control, Halfway
<1>3. sruns' = [sruns EXCEPT ![s] = run]
  BY DEF RecordFails
<1>4. /\ next \in SeedRun /\ Control(next) /\ next.pc \in {"create", "end"} /\ next.todo = Tail(sruns[s].todo)
      /\ next.file = sruns[s].file /\ next.quiet = sruns[s].quiet /\ next.inserted = sruns[s].inserted
  BY <1>1, <1>2, Advances
<1> HIDE DEF next
<1>5. /\ run \in SeedRun /\ run.pc = next.pc /\ run.todo = next.todo /\ run.missing = next.missing /\ run.failed
      /\ run.file = next.file /\ run.quiet = next.quiet /\ run.inserted = next.inserted
  BY <1>4 DEF SeedRun
<1> HIDE DEF run
<1>6. Control(run)
  BY <1>4, <1>5 DEF Control
<1>7. run.quiet => Applied(run, srow, sprint)
  <2>1. run.quiet /\ run.inserted => \E r \in Records(sdir) : srow[r] # NoRow /\ srow[r].v = run.file
    BY <1>2, <1>4, <1>5 DEF Applied
  <2>2. run.pc \in {"create", "end"} /\ run.todo = Tail(sruns[s].todo)
    BY <1>4, <1>5
  <2> QED BY <1>1, <1>5, <2>1, <2>2, Settles
<1>8. SeedInv'
  BY <1>1, <1>3, <1>5, <1>4, <1>6, <1>7, TypesOfSeeds, SeederMoves DEF UsersHaveNoTime
<1> QED BY <1>1, <1>8 DEF ContentStays

LEMMA LooksUp ==
    ASSUME SeedInv, NEW s \in Seeders, LookUp(s) PROVE SeedInv' /\ ContentStays
<1>1. sruns[s].pc = "look" /\ sruns[s].pc \in Halfway /\ sruns[s].pc \in Deep
      /\ UNCHANGED <<sdir, sfile, srow, sprint, sclock, smeddled>>
  BY DEF LookUp, Halfway, At, Deep
<1>2. /\ sruns[s] \in SeedRun /\ Control(sruns[s]) /\ (sruns[s].quiet => Applied(sruns[s], srow, sprint)) /\ ~sruns[s].missing
      /\ Now(s) \in Bootstrap /\ Records(sdir) = {Now(s)} /\ sruns[s].todo # <<>>
  BY <1>1, SeederStands DEF Control, Halfway
<1>3. CASE bootstrapNeedsReconcile(Now(s), s)
  <2> DEFINE run == [sruns[s] EXCEPT !.pc = "update"]
  <2>0. sruns' = [sruns EXCEPT ![s] = run]
    BY <1>3 DEF LookUp
  <2>2. run \in SeedRun /\ run.pc = "update" /\ run.todo = sruns[s].todo /\ run.force = sruns[s].force /\ run.missing = sruns[s].missing
        /\ run.quiet = sruns[s].quiet /\ run.inserted = sruns[s].inserted /\ run.file = sruns[s].file /\ run.failed = sruns[s].failed
    BY <1>2 DEF SeedRun
  <2> HIDE DEF run
  <2>3. Control(run)
    BY <1>2, <2>2 DEF Control, Now
  <2>4. Now(s) = "u" => sprint["u"] # [v |-> run.file, at |-> 0]
    BY <1>3, <2>2 DEF bootstrapNeedsReconcile, fingerprintOf, applyCurrentTimestamps
  <2>5. run.quiet => Applied(run, srow, sprint)
    BY <1>1, <1>2, <2>2, <2>4 DEF Applied, Now
  <2>6. SeedInv'
    BY <1>1, <2>0, <2>2, <2>3, <2>5, TypesOfSeeds, SeederMoves DEF UsersHaveNoTime
  <2> QED BY <1>1, <2>6 DEF ContentStays
<1>4. CASE ~bootstrapNeedsReconcile(Now(s), s)
  <2> DEFINE next == Advance(sruns[s])
  <2>1. sruns' = [sruns EXCEPT ![s] = Advance(sruns[s])]
    BY <1>4 DEF LookUp
  <2>2. sprint[Now(s)].v = sruns[s].file
    BY <1>4 DEF bootstrapNeedsReconcile, fingerprintOf
  <2>3. sruns[s].quiet => Applied(Advance(sruns[s]), srow, sprint)
    <3>0. sruns[s].pc \in Halfway /\ sruns[s] \in SeedRun /\ ~sruns[s].missing
      BY <1>1, <1>2
    <3>1. next \in SeedRun /\ next.pc \in {"create", "end"} /\ next.todo = Tail(sruns[s].todo)
          /\ next.file = sruns[s].file /\ next.inserted = sruns[s].inserted /\ next.failed = sruns[s].failed
          /\ next.force = sruns[s].force
      BY <3>0, Advances
    <3> HIDE DEF next
    <3>2. ASSUME sruns[s].quiet
          PROVE  /\ srow[Now(s)] # NoRow
                 /\ ~next.failed /\ (next.force \/ sdir # <<"g", "h">>) =>
                       \A r \in (Records(sdir) \ Records(sruns[s].todo)) \cup {Now(s)} :
                          srow[r] # NoRow /\ (r \in Bootstrap /\ sprint[r].v = srow[r].v => srow[r].v = next.file)
                 /\ next.inserted => \E r \in Records(sdir) : srow[r] # NoRow /\ srow[r].v = next.file
      BY <1>1, <1>2, <2>2, <3>1, <3>2 DEF Applied, Now
    <3>3. sruns[s].quiet => Applied(next, srow, sprint)
      BY <3>0, <3>1, <3>2, Settles
    <3> QED BY <3>3 DEF next
  <2>4. SeedInv'
    BY <1>1, <1>2, <2>1, <2>3, Advances, TypesOfSeeds, SeederMoves DEF UsersHaveNoTime
  <2> QED BY <1>1, <2>4 DEF ContentStays
<1> QED BY <1>3, <1>4

LEMMA LooksInVain ==
    ASSUME SeedInv, NEW s \in Seeders, LookUpFails(s) PROVE SeedInv' /\ ContentStays
<1>1. sruns[s].pc = "look" /\ sruns[s].pc \in Halfway /\ sruns[s].pc \in Deep
      /\ UNCHANGED <<sdir, sfile, srow, sprint, sclock, smeddled>>
  BY DEF LookUpFails, Halfway, At, Deep
<1>2. /\ sruns[s] \in SeedRun /\ Control(sruns[s]) /\ (sruns[s].quiet => Applied(sruns[s], srow, sprint)) /\ ~sruns[s].missing
      /\ Now(s) \in Bootstrap /\ Now(s) \in SeedRecords /\ sruns[s].todo # <<>>
  BY <1>1, SeederStands DEF Control, Halfway
<1> DEFINE blind == sruns[s].blind \cup {Now(s)}
           run == [sruns[s] EXCEPT !.pc = "update", !.blind = blind]
<1>3. sruns' = [sruns EXCEPT ![s] = run]
  BY DEF LookUpFails
<1>4. blind \in SUBSET SeedRecords
  BY <1>2 DEF SeedRun
<1>5. run \in SeedRun /\ run.pc = "update" /\ run.todo = sruns[s].todo /\ run.force = sruns[s].force /\ run.missing = sruns[s].missing
      /\ run.quiet = sruns[s].quiet /\ run.inserted = sruns[s].inserted /\ run.file = sruns[s].file /\ run.failed = sruns[s].failed
      /\ Now(s) \in run.blind
  <2> HIDE DEF blind
  <2>1. run \in SeedRun /\ run.blind = blind
    BY <1>2, <1>4 DEF SeedRun
  <2> QED BY <1>2, <2>1 DEF SeedRun, blind
<1> HIDE DEF run
<1>6. Control(run)
  BY <1>2, <1>5 DEF Control, Now
<1>7. run.quiet => Applied(run, srow, sprint)
  BY <1>1, <1>2, <1>5 DEF Applied, Now
<1>8. SeedInv'
  BY <1>1, <1>3, <1>5, <1>6, <1>7, TypesOfSeeds, SeederMoves DEF UsersHaveNoTime
<1> QED BY <1>1, <1>8 DEF ContentStays

LEMMA Creates ==
    ASSUME SeedInv, NEW s \in Seeders, CreateRecord(s) PROVE SeedInv' /\ ContentStays
<1>1. /\ sruns[s].pc = "create" /\ sruns[s].pc \in Halfway
      /\ UNCHANGED <<sdir, sfile, sprint, sclock, smeddled>>
  BY DEF CreateRecord, Halfway, At
<1>2. /\ sruns[s] \in SeedRun /\ Control(sruns[s]) /\ (sruns[s].quiet => Applied(sruns[s], srow, sprint)) /\ ~sruns[s].missing
      /\ sruns[s].todo # <<>> /\ Now(s) \in Records(sdir) /\ Now(s) \in SeedRecords
      /\ Now(s) \in Bootstrap => Records(sdir) = {Now(s)}
  BY <1>1, SeederStands DEF Control, Halfway
<1> DEFINE next == Advance(sruns[s])
<1>3. /\ next \in SeedRun /\ Control(next) /\ next.pc \in {"create", "end"} /\ next.todo = Tail(sruns[s].todo) /\ ~next.missing
      /\ next.file = sruns[s].file /\ next.inserted = sruns[s].inserted /\ next.failed = sruns[s].failed
      /\ next.force = sruns[s].force /\ next.quiet = sruns[s].quiet
  BY <1>1, <1>2, Advances
<1> HIDE DEF next
<1>4. CASE Present(Now(s)) /\ srow' = srow /\ Now(s) \in Bootstrap /\ sruns' = [sruns EXCEPT ![s] = [@ EXCEPT !.pc = "look"]]
  <2> DEFINE run == [sruns[s] EXCEPT !.pc = "look"]
  <2>1. sruns' = [sruns EXCEPT ![s] = run]
    BY <1>4
  <2>2. run \in SeedRun /\ run.pc = "look" /\ run.todo = sruns[s].todo /\ run.force = sruns[s].force /\ run.missing = sruns[s].missing
        /\ run.quiet = sruns[s].quiet /\ run.inserted = sruns[s].inserted /\ run.file = sruns[s].file /\ run.failed = sruns[s].failed
    BY <1>2 DEF SeedRun
  <2> HIDE DEF run
  <2>3. Control(run)
    BY <1>2, <1>4, <2>2 DEF Control, Now
  <2>4. run.quiet => Applied(run, srow, sprint)
    BY <1>1, <1>2, <1>4, <2>2 DEF Applied, Now, Present
  <2>5. SeedInv'
    BY <1>1, <1>4, <2>1, <2>2, <2>3, <2>4, TypesOfSeeds, SeederMoves DEF UsersHaveNoTime
  <2> QED BY <1>4, <2>5 DEF ContentStays
<1>5. CASE Present(Now(s)) /\ srow' = srow /\ Now(s) \notin Bootstrap /\ sruns' = [sruns EXCEPT ![s] = next]
  <2>1. ASSUME next.quiet
        PROVE  /\ ~next.failed /\ (next.force \/ sdir # <<"g", "h">>) =>
                     \A r \in (Records(sdir) \ Records(sruns[s].todo)) \cup {Now(s)} :
                        srow[r] # NoRow /\ (r \in Bootstrap /\ sprint[r].v = srow[r].v => srow[r].v = next.file)
               /\ next.inserted => \E r \in Records(sdir) : srow[r] # NoRow /\ srow[r].v = next.file
    BY <1>2, <1>3, <1>5, <2>1 DEF Applied, Present
  <2>2. next.quiet => Applied(next, srow, sprint)
    BY <1>1, <1>3, <2>1, Settles
  <2>3. SeedInv'
    BY <1>1, <1>3, <1>5, <2>2, TypesOfSeeds, SeederMoves DEF UsersHaveNoTime
  <2> QED BY <1>5, <2>3 DEF ContentStays
<1>6. ASSUME ~Present(Now(s)), srow' = [srow EXCEPT ![Now(s)] = Written(Now(s), s)]
      PROVE  /\ srow' \in [SeedRecords -> SeedRow \cup {NoRow}]
             /\ srow'[Now(s)].v = sruns[s].file /\ srow'[Now(s)] # NoRow
             /\ \A r \in SeedRecords \ {Now(s)} : srow'[r] = srow[r]
             /\ ContentStays
  <2>1. Written(Now(s), s) \in SeedRow /\ Written(Now(s), s).v = sruns[s].file
    BY <1>2, SeedAssumption DEF Written, applyCurrentTimestamps, SeedRow, SeedRun, SeedAssumption
  <2>2. Written(Now(s), s) # NoRow
    BY <2>1, SeedTypes
  <2> QED BY <1>2, <1>6, <2>1, <2>2, TypesOfSeeds DEF ContentStays, Content, SeedRecords
<1>7. CASE /\ ~Present(Now(s)) /\ srow' = [srow EXCEPT ![Now(s)] = Written(Now(s), s)]
           /\ Now(s) \in Bootstrap
           /\ sruns' = [sruns EXCEPT ![s] = [[@ EXCEPT !.pc = "print"] EXCEPT !.inserted = TRUE]]
  <2> DEFINE run == [[sruns[s] EXCEPT !.pc = "print"] EXCEPT !.inserted = TRUE]
  <2>1. sruns' = [sruns EXCEPT ![s] = run]
    BY <1>7
  <2>2. run \in SeedRun /\ run.pc = "print" /\ run.todo = sruns[s].todo /\ run.force = sruns[s].force /\ run.missing = sruns[s].missing
        /\ run.quiet = sruns[s].quiet /\ run.inserted /\ run.file = sruns[s].file /\ run.failed = sruns[s].failed
    BY <1>2 DEF SeedRun
  <2> HIDE DEF run
  <2>3. Control(run)
    BY <1>2, <1>7, <2>2 DEF Control, Now
  <2>4. Records(sdir) \ Records(run.todo) = {}
    BY <1>1, <1>2, <1>7, <2>2, SeederStands
  <2>5. run.quiet => Applied(run, srow', sprint')
    BY <1>2, <1>6, <1>7, <2>2, <2>4 DEF Applied, Now
  <2>6. SeedInv'
    BY <1>1, <1>6, <1>7, <2>1, <2>2, <2>3, <2>5, TypesOfSeeds, SeederMoves DEF UsersHaveNoTime
  <2> QED BY <1>6, <1>7, <2>6
<1>8. CASE /\ ~Present(Now(s)) /\ srow' = [srow EXCEPT ![Now(s)] = Written(Now(s), s)]
           /\ Now(s) \notin Bootstrap
           /\ sruns' = [sruns EXCEPT ![s] = [Advance(@) EXCEPT !.inserted = TRUE]]
  <2> DEFINE run == [next EXCEPT !.inserted = TRUE]
  <2>1. sruns' = [sruns EXCEPT ![s] = run]
    BY <1>8 DEF next
  <2>2. run \in SeedRun /\ run.pc = next.pc /\ run.todo = next.todo /\ run.force = next.force /\ run.missing = next.missing
        /\ run.quiet = next.quiet /\ run.inserted /\ run.file = next.file /\ run.failed = next.failed
    BY <1>3 DEF SeedRun
  <2> HIDE DEF run
  <2>3. Control(run)
    BY <1>3, <2>2 DEF Control
  <2>4. ASSUME run.quiet
        PROVE  /\ ~run.failed /\ (run.force \/ sdir # <<"g", "h">>) =>
                     \A r \in (Records(sdir) \ Records(sruns[s].todo)) \cup {Now(s)} :
                        srow'[r] # NoRow /\ (r \in Bootstrap /\ sprint'[r].v = srow'[r].v => srow'[r].v = run.file)
               /\ run.inserted => \E r \in Records(sdir) : srow'[r] # NoRow /\ srow'[r].v = run.file
    <3>1. Records(sdir) \subseteq SeedRecords
      BY SeedTypes, RecordsAre DEF SeedDocuments, SeedRecords, Bootstrap, Content
    <3>2. ASSUME NEW r \in Records(sdir) \ Records(sruns[s].todo), ~run.failed, run.force \/ sdir # <<"g", "h">>, r # Now(s)
          PROVE  srow'[r] # NoRow /\ (r \in Bootstrap /\ sprint'[r].v = srow'[r].v => srow'[r].v = run.file)
      BY <1>1, <1>2, <1>3, <1>6, <1>8, <2>2, <2>4, <3>1, <3>2 DEF Applied
    <3> QED BY <1>2, <1>3, <1>6, <1>8, <2>2, <3>2
  <2>5. run.pc \in {"create", "end"} /\ run.todo = Tail(sruns[s].todo)
    BY <1>3, <2>2
  <2>6. run.quiet => Applied(run, srow', sprint')
    BY <1>1, <2>2, <2>4, <2>5, Settles
  <2>7. SeedInv'
    BY <1>1, <1>3, <1>6, <1>8, <2>1, <2>2, <2>3, <2>6, TypesOfSeeds, SeederMoves DEF UsersHaveNoTime
  <2> QED BY <1>6, <1>8, <2>7
<1>9. \/ /\ ~Present(Now(s)) /\ srow' = [srow EXCEPT ![Now(s)] = Written(Now(s), s)]
         /\ sruns' = [sruns EXCEPT ![s] = [IF Now(s) \in Bootstrap THEN [@ EXCEPT !.pc = "print"] ELSE Advance(@)
                                              EXCEPT !.inserted = TRUE]]
      \/ /\ Present(Now(s)) /\ srow' = srow
         /\ sruns' = [sruns EXCEPT ![s] = IF Now(s) \in Bootstrap THEN [@ EXCEPT !.pc = "look"] ELSE Advance(@)]
  BY DEF CreateRecord
<1>10. CASE Now(s) \in Bootstrap
  BY <1>4, <1>7, <1>9, <1>10
<1>11. CASE Now(s) \notin Bootstrap
  BY <1>5, <1>8, <1>9, <1>11 DEF next
<1> QED BY <1>10, <1>11

LEMMA Reconciles ==
    ASSUME SeedInv, NEW s \in Seeders, Reconcile(s) PROVE SeedInv' /\ ContentStays /\ Respects(s, "u")
<1>1. /\ sruns[s].pc = "update" /\ sruns[s].pc \in Halfway /\ sruns[s].pc \in Deep /\ Present(Now(s))
      /\ srow' = [srow EXCEPT ![Now(s)] = Written(Now(s), s)]
      /\ UNCHANGED <<sdir, sfile, sprint, sclock, smeddled>>
  BY DEF Reconcile, Halfway, Deep, At
<1>2. /\ sruns[s] \in SeedRun /\ Control(sruns[s]) /\ (sruns[s].quiet => Applied(sruns[s], srow, sprint)) /\ ~sruns[s].missing
      /\ sruns[s].todo # <<>> /\ Now(s) \in Bootstrap /\ Now(s) \in SeedRecords
      /\ Records(sdir) = {Now(s)} /\ sruns[s].todo = sdir
  BY <1>1, SeederStands DEF Control, Halfway
<1> DEFINE run == [sruns[s] EXCEPT !.pc = "print"]
<1>3. sruns' = [sruns EXCEPT ![s] = run]
  BY DEF Reconcile
<1>4. run \in SeedRun /\ run.pc = "print" /\ run.todo = sruns[s].todo /\ run.force = sruns[s].force /\ run.missing = sruns[s].missing
      /\ run.quiet = sruns[s].quiet /\ run.inserted = sruns[s].inserted /\ run.file = sruns[s].file /\ run.failed = sruns[s].failed
  BY <1>2 DEF SeedRun
<1> HIDE DEF run
<1>5. Written(Now(s), s) \in SeedRow /\ Written(Now(s), s).v = sruns[s].file
  BY <1>2, SeedAssumption DEF Written, applyCurrentTimestamps, SeedRow, SeedRun, SeedAssumption
<1>6. /\ srow' \in [SeedRecords -> SeedRow \cup {NoRow}] /\ srow'[Now(s)].v = run.file /\ srow'[Now(s)] # NoRow
      /\ \A r \in SeedRecords \ {Now(s)} : srow'[r] = srow[r]
  BY <1>1, <1>2, <1>4, <1>5, SeedTypes, TypesOfSeeds
<1>7. Control(run)
  BY <1>2, <1>4 DEF Control, Now
<1>8. run.quiet => Applied(run, srow', sprint')
  BY <1>2, <1>4, <1>6 DEF Applied, Now
<1>9. SeedInv'
  BY <1>1, <1>3, <1>4, <1>6, <1>7, <1>8, TypesOfSeeds, SeederMoves DEF UsersHaveNoTime
<1>10. ContentStays
  BY <1>2, <1>6 DEF ContentStays, Content, Bootstrap, SeedRecords
<1>11. Respects(s, "u")
  <2> SUFFICES ASSUME Now(s) = "u", sruns[s].quiet, Recorded("u"), "u" \notin sruns[s].blind
               PROVE  srow["u"].v # sruns[s].file
    BY DEF Respects
  <2>1. sprint["u"] # [v |-> sruns[s].file, at |-> 0]
    BY <1>1, <1>2 DEF Applied, Now
  <2>2. srow["u"] \in SeedRow /\ sprint["u"].v = srow["u"].v
    BY <1>1, <1>2, SeedTypes DEF Recorded
  <2>3. sprint["u"] # NoPrint
    BY <2>2 DEF NoPrint, SeedRow
  <2>4. sprint["u"] \in [v : {0, 1}, at : 0..MaxSeedings] /\ sprint["u"].at = 0
    BY <2>3, TypesOfSeeds DEF UsersHaveNoTime, Bootstrap
  <2>5. sprint["u"] = [v |-> sprint["u"].v, at |-> sprint["u"].at]
    BY <2>4
  <2> QED BY <2>1, <2>2, <2>4, <2>5
<1> QED BY <1>9, <1>10, <1>11

(* The fingerprint is of the row as it was written, stored or not.         *)
LEMMA Prints ==
    ASSUME SeedInv, NEW s \in Seeders, recordBootstrapFingerprint(s) \/ FingerprintFails(s) PROVE SeedInv' /\ ContentStays
<1>1. /\ sruns[s].pc = "print" /\ sruns[s].pc \in Halfway /\ sruns[s].pc \in Deep
      /\ sruns' = [sruns EXCEPT ![s] = Advance(sruns[s])]
      /\ sprint' = sprint \/ sprint' = [sprint EXCEPT ![Now(s)] = fingerprintOf(Now(s), s)]
      /\ UNCHANGED <<sdir, sfile, srow, sclock, smeddled>>
  BY DEF recordBootstrapFingerprint, FingerprintFails, Halfway, Deep, At
<1>2. /\ sruns[s] \in SeedRun /\ (sruns[s].quiet => Applied(sruns[s], srow, sprint)) /\ ~sruns[s].missing
      /\ sruns[s].todo # <<>> /\ Now(s) \in Bootstrap /\ Records(sdir) = {Now(s)}
  BY <1>1, SeederStands DEF Control, Halfway
<1> DEFINE next == Advance(sruns[s])
<1>3. /\ next \in SeedRun /\ Control(next) /\ next.pc \in {"create", "end"} /\ next.todo = Tail(sruns[s].todo) /\ ~next.missing
      /\ next.file = sruns[s].file /\ next.inserted = sruns[s].inserted /\ next.failed = sruns[s].failed
      /\ next.force = sruns[s].force /\ next.quiet = sruns[s].quiet
  BY <1>1, <1>2, Advances
<1>4. sruns' = [sruns EXCEPT ![s] = next]
  BY <1>1
<1> HIDE DEF next
<1>5. /\ fingerprintOf(Now(s), s) \in [v : {0, 1}, at : 0..MaxSeedings]
      /\ Now(s) = "u" => fingerprintOf(Now(s), s).at = 0
  BY <1>2, SeedAssumption DEF fingerprintOf, applyCurrentTimestamps, SeedRun, SeedAssumption
<1>6. /\ sprint' \in [Bootstrap -> [v : {0, 1}, at : 0..MaxSeedings] \cup {NoPrint}]
      /\ UsersHaveNoTime'
  <2>1. CASE sprint' = sprint
    BY <2>1, TypesOfSeeds DEF UsersHaveNoTime
  <2>2. CASE sprint' = [sprint EXCEPT ![Now(s)] = fingerprintOf(Now(s), s)]
    <3>1. sprint'["u"] = IF Now(s) = "u" THEN fingerprintOf(Now(s), s) ELSE sprint["u"]
      BY <2>2, TypesOfSeeds DEF Bootstrap
    <3> QED BY <1>2, <1>5, <2>2, <3>1, TypesOfSeeds DEF UsersHaveNoTime
  <2> QED BY <1>1, <2>1, <2>2
<1>7. ASSUME next.quiet
      PROVE  /\ ~next.failed /\ (next.force \/ sdir # <<"g", "h">>) =>
                   \A r \in (Records(sdir) \ Records(sruns[s].todo)) \cup {Now(s)} :
                      srow'[r] # NoRow /\ (r \in Bootstrap /\ sprint'[r].v = srow'[r].v => srow'[r].v = next.file)
             /\ next.inserted => \E r \in Records(sdir) : srow'[r] # NoRow /\ srow'[r].v = next.file
  BY <1>1, <1>2, <1>3, <1>7 DEF Applied, Now
<1>8. next.quiet => Applied(next, srow', sprint')
  BY <1>1, <1>3, <1>7, Settles
<1>9. SeedInv'
  BY <1>1, <1>3, <1>4, <1>6, <1>8, TypesOfSeeds, SeederMoves
<1> QED BY <1>1, <1>9 DEF ContentStays

(***************************************************************************)
(* The beginning and the end of a seeding, and everybody else              *)
(***************************************************************************)
(* A seeding that ends or dies leaves the others' claims alone.            *)
LEMMA SomeEnd ==
    ASSUME SeedInv, UNCHANGED <<sdir, sfile, srow, sprint, sclock, smeddled>>,
           sruns' \in [Seeders -> SeedRun \cup {IdleSeeder}],
           \A o \in Seeders : sruns'[o] \in {sruns[o], IdleSeeder}
    PROVE  SeedInv'
<1>1. SeedRun' = SeedRun /\ \A r : Control(r)' = Control(r)
  BY DEF SeedRun, Control
<1>2. TypeOKSeeds'
  BY <1>1 DEF SeedInv, TypeOKSeeds
<1>3. ASSUME NEW o \in Seeders, sruns'[o].pc # "idle"
      PROVE  sruns'[o] = sruns[o] /\ sruns[o].pc # "idle"
  BY <1>3 DEF IdleSeeder
<1>4. ASSUME NEW o \in Seeders, sruns[o].pc \in {"idle", "end"} PROVE sruns'[o].pc \in {"idle", "end"}
  BY <1>4 DEF IdleSeeder
<1>5. ASSUME NEW o \in Seeders PROVE QuietAt(o)'
  BY <1>3, <1>4 DEF SeedInv, QuietAt, Applied
<1>6. ASSUME NEW o \in Seeders PROVE (sruns[o].pc # "idle" => Control(sruns[o]))'
  BY <1>1, <1>3 DEF SeedInv
<1> QED BY <1>2, <1>5, <1>6 DEF SeedInv, UsersHaveNoTime

LEMMA Ends ==
    ASSUME SeedInv, NEW s \in Seeders, EndSeeding(s) PROVE SeedInv' /\ ContentStays
<1>1. sruns' = [sruns EXCEPT ![s] = IdleSeeder] /\ UNCHANGED <<sdir, sfile, srow, sprint, sclock, smeddled>>
  BY DEF EndSeeding
<1>2. sruns' \in [Seeders -> SeedRun \cup {IdleSeeder}] /\ \A o \in Seeders : sruns'[o] \in {sruns[o], IdleSeeder}
  BY <1>1, TypesOfSeeds
<1> QED BY <1>1, <1>2, SomeEnd DEF ContentStays

LEMMA Dies == ASSUME SeedInv, SeederDies PROVE SeedInv' /\ ContentStays
<1>1. sruns' = [s \in Seeders |-> IdleSeeder] /\ UNCHANGED <<sdir, sfile, srow, sprint, sclock, smeddled>>
  BY DEF SeederDies
<1>2. sruns' \in [Seeders -> SeedRun \cup {IdleSeeder}] /\ \A o \in Seeders : sruns'[o] \in {sruns[o], IdleSeeder}
  BY <1>1
<1> QED BY <1>1, <1>2, SomeEnd DEF ContentStays

(* When all are disturbed only their control is left to keep.              *)
LEMMA NobodyIsQuiet ==
    ASSUME SeedInv, sdir' = sdir, TypeOKSeeds', UsersHaveNoTime',
           \A o \in Seeders : sruns'[o].pc # "idle" => Control(sruns'[o]) /\ ~sruns'[o].quiet
    PROVE  SeedInv'
<1>1. \A r : Control(r)' = Control(r)
  BY DEF Control
<1>2. \A o \in Seeders : QuietAt(o)' /\ (sruns[o].pc # "idle" => Control(sruns[o]))'
  BY <1>1 DEF QuietAt
<1> QED BY <1>2 DEF SeedInv

LEMMA Disturbing ==
    ASSUME SeedInv, NEW runs, runs = Disturbed(sruns)
    PROVE  /\ runs \in [Seeders -> SeedRun \cup {IdleSeeder}]
           /\ \A o \in Seeders : runs[o].pc = sruns[o].pc /\ (runs[o].pc # "idle" => Control(runs[o]) /\ ~runs[o].quiet)
<1>1. ASSUME NEW o \in Seeders
      PROVE  /\ runs[o] \in SeedRun \cup {IdleSeeder}
             /\ runs[o].pc = sruns[o].pc /\ (runs[o].pc # "idle" => Control(runs[o]) /\ ~runs[o].quiet)
  <2>1. CASE sruns[o].pc = "idle"
    BY <2>1, TypesOfSeeds DEF Disturbed
  <2>2. CASE sruns[o].pc # "idle"
    <3> DEFINE run == [sruns[o] EXCEPT !.quiet = FALSE]
    <3>1. sruns[o] \in SeedRun /\ Control(sruns[o]) /\ runs[o] = run
      BY <2>2, SeedTypes DEF SeedInv, Disturbed
    <3>2. run \in SeedRun /\ run.pc = sruns[o].pc /\ run.todo = sruns[o].todo /\ run.missing = sruns[o].missing /\ ~run.quiet
      BY <3>1 DEF SeedRun
    <3> HIDE DEF run
    <3>3. Control(run)
      BY <3>1, <3>2 DEF Control
    <3> QED BY <3>1, <3>2, <3>3
  <2> QED BY <2>1, <2>2
<1> QED BY <1>1 DEF Disturbed

LEMMA Deletes ==
    ASSUME SeedInv, NEW r \in SeedRecords, OperatorDeletes(r) PROVE SeedInv' /\ ContentStays
<1>1. /\ srow' = [srow EXCEPT ![r] = NoRow] /\ sruns' = Disturbed(sruns) /\ UNCHANGED <<sdir, sfile, sprint, sclock>>
      /\ smeddled < MaxMeddling /\ smeddled' = smeddled + 1
  BY DEF OperatorDeletes, Meddle
<1>2. /\ sruns' \in [Seeders -> SeedRun \cup {IdleSeeder}]
      /\ \A o \in Seeders : sruns'[o].pc # "idle" => Control(sruns'[o]) /\ ~sruns'[o].quiet
  BY <1>1, Disturbing
<1>3. SeedRun' = SeedRun
  BY <1>1 DEF SeedRun
<1>4. smeddled' \in 0..MaxMeddling
  BY <1>1, SeedAssumption DEF SeedInv, TypeOKSeeds, SeedAssumption
<1>5. TypeOKSeeds'
  BY <1>1, <1>2, <1>3, <1>4 DEF SeedInv, TypeOKSeeds
<1>6. SeedInv'
  BY <1>1, <1>2, <1>5, TypesOfSeeds, NobodyIsQuiet DEF UsersHaveNoTime
<1>7. ContentStays
  BY <1>1, TypesOfSeeds DEF ContentStays, Content, SeedRecords
<1> QED BY <1>6, <1>7

(* An operator's edit leaves the content a row was written from.           *)
LEMMA Edits ==
    ASSUME SeedInv, NEW r \in SeedRecords, OperatorEdits(r) PROVE SeedInv' /\ ContentStays
<1>1. /\ Present(r) /\ srow' = [srow EXCEPT ![r].by = "operator"] /\ UNCHANGED <<sdir, sfile, sprint, sruns, sclock>>
      /\ smeddled < MaxMeddling /\ smeddled' = smeddled + 1
  BY DEF OperatorEdits, Meddle
<1> DEFINE row == [srow[r] EXCEPT !.by = "operator"]
<1>2. srow[r] \in SeedRow
  BY <1>1, SeedTypes
<1>3. row \in SeedRow /\ row.by = "operator" /\ row.v = srow[r].v
  BY <1>2 DEF SeedRow
<1>4. srow' = [srow EXCEPT ![r] = row]
  BY <1>1
<1> HIDE DEF row
<1>5. /\ srow' \in [SeedRecords -> SeedRow \cup {NoRow}]
      /\ \A q \in SeedRecords : srow'[q] = IF q = r THEN row ELSE srow[q]
  BY <1>3, <1>4, TypesOfSeeds
<1>6. \A q \in SeedRecords : (srow'[q] = NoRow) = (srow[q] = NoRow) /\ (srow[q] # NoRow => srow'[q].v = srow[q].v)
  BY <1>1, <1>2, <1>3, <1>5, SeedTypes DEF Present
<1>7. SeedRun' = SeedRun /\ \A q : Control(q)' = Control(q)
  BY <1>1 DEF SeedRun, Control
<1>8. smeddled' \in 0..MaxMeddling
  BY <1>1, SeedAssumption DEF SeedInv, TypeOKSeeds, SeedAssumption
<1>9. TypeOKSeeds'
  BY <1>1, <1>5, <1>7, <1>8 DEF SeedInv, TypeOKSeeds
<1>10. \A q \in Records(sdir) : q \in SeedRecords
  BY SeedTypes, RecordsAre DEF SeedDocuments, SeedRecords, Bootstrap, Content
<1>11. ASSUME NEW run, Control(run), Applied(run, srow, sprint) PROVE Applied(run, srow', sprint)
  <2>1. run.pc \in Deep => Head(run.todo) \in SeedRecords
    BY <1>11 DEF Control, SeedRecords
  <2>2. run.pc = "print" => run.pc \in Deep
    BY DEF Deep
  <2>3. run.pc \in Deep => srow'[Head(run.todo)] # NoRow
    BY <1>6, <1>11, <2>1 DEF Applied
  <2>4. run.pc = "print" => srow'[Head(run.todo)].v = run.file
    BY <1>6, <1>11, <2>1, <2>2 DEF Applied
  <2>5. ~run.failed /\ ~run.missing /\ (run.force \/ sdir # <<"g", "h">>) =>
          \A q \in Records(sdir) \ Records(run.todo) :
             srow'[q] # NoRow /\ (q \in Bootstrap /\ sprint[q].v = srow'[q].v => srow'[q].v = run.file)
    BY <1>6, <1>10, <1>11 DEF Applied
  <2>6. run.inserted => \E q \in Records(sdir) : srow'[q] # NoRow /\ srow'[q].v = run.file
    BY <1>6, <1>10, <1>11 DEF Applied
  <2>7. run.pc = "update" /\ Head(run.todo) = "u" /\ "u" \notin run.blind => sprint["u"] # [v |-> run.file, at |-> 0]
    BY <1>11 DEF Applied
  <2> QED BY <2>3, <2>4, <2>5, <2>6, <2>7 DEF Applied
<1>12. ASSUME NEW s \in Seeders PROVE QuietAt(s)'
  <2>1. sruns[s].pc # "idle" /\ sruns[s].quiet => Applied(sruns[s], srow', sprint)
    BY <1>11 DEF SeedInv, QuietAt
  <2> QED BY <1>1, <2>1 DEF SeedInv, QuietAt, Applied
<1>13. SeedInv'
  BY <1>1, <1>7, <1>9, <1>12 DEF SeedInv, UsersHaveNoTime
<1>14. ContentStays
  BY <1>3, <1>5 DEF ContentStays, Content, SeedRecords
<1> QED BY <1>13, <1>14

LEMMA FileChanges == ASSUME SeedInv, SeedFileChanges \/ UNCHANGED seedVars PROVE SeedInv' /\ ContentStays
<1>1. /\ UNCHANGED <<sdir, srow, sprint, sruns, sclock>> /\ sfile' \in {sfile, 1 - sfile}
      /\ smeddled' = smeddled \/ (smeddled < MaxMeddling /\ smeddled' = smeddled + 1)
  BY DEF SeedFileChanges, Meddle, seedVars
<1>2. sfile' \in {0, 1} /\ smeddled' \in 0..MaxMeddling
  BY <1>1, SeedAssumption DEF SeedInv, TypeOKSeeds, SeedAssumption
<1>3. SeedRun' = SeedRun /\ \A r : Control(r)' = Control(r)
  BY <1>1 DEF SeedRun, Control
<1>4. TypeOKSeeds'
  BY <1>1, <1>2, <1>3 DEF SeedInv, TypeOKSeeds
<1>5. \A s \in Seeders : QuietAt(s)'
  BY <1>1 DEF SeedInv, QuietAt, Applied
<1>6. SeedInv'
  BY <1>1, <1>3, <1>4, <1>5 DEF SeedInv, UsersHaveNoTime
<1> QED BY <1>1, <1>6 DEF ContentStays

(* A new seeding is undisturbed when it is alone.                          *)
LEMMA Begins ==
    ASSUME SeedInv, NEW s \in Seeders, NEW run \in SeedRun, sruns[s].pc = "idle",
           Control(run), run.quiet = (Running = {}), ~run.inserted, run.pc \in {"document", "end"}, run.missing \/ run.todo = sdir,
           sclock < MaxSeedings, sclock' = sclock + 1,
           \/ sruns' = [sruns EXCEPT ![s] = run] /\ (Running = {} \/ run.pc = "end")
           \/ sruns' = [Disturbed(sruns) EXCEPT ![s] = run] /\ Running # {},
           UNCHANGED <<sdir, sfile, srow, sprint, smeddled>>
    PROVE  SeedInv' /\ ContentStays
<1>1. SeedRun' = SeedRun /\ \A r : Control(r)' = Control(r)
  BY DEF SeedRun, Control
<1>2. sclock' \in 0..MaxSeedings
  BY SeedAssumption DEF SeedInv, TypeOKSeeds, SeedAssumption
<1>3. UsersHaveNoTime'
  BY TypesOfSeeds DEF UsersHaveNoTime
<1>4. ContentStays
  BY DEF ContentStays
<1>5. CASE Running = {}
  <2>1. sruns' = [sruns EXCEPT ![s] = run] /\ \A o \in Seeders : sruns[o].pc = "idle"
    BY <1>5 DEF Running
  <2>2. \A o \in Seeders : sruns'[o] = IF o = s THEN run ELSE sruns[o]
    BY <2>1, TypesOfSeeds
  <2>3. TypeOKSeeds'
    BY <1>1, <1>2, <2>1 DEF SeedInv, TypeOKSeeds
  <2>4. Applied(run, srow, sprint)
    BY DEF Applied, Deep
  <2>5. ASSUME NEW o \in Seeders PROVE QuietAt(o)'
    BY <2>1, <2>2, <2>4 DEF QuietAt, Applied
  <2>6. ASSUME NEW o \in Seeders PROVE (sruns[o].pc # "idle" => Control(sruns[o]))'
    BY <1>1, <2>1, <2>2
  <2>7. SeedInv'
    BY <1>3, <2>3, <2>5, <2>6 DEF SeedInv
  <2> QED BY <1>4, <2>7
<1>6. CASE sruns' = [Disturbed(sruns) EXCEPT ![s] = run] /\ Running # {}
  <2> DEFINE runs == Disturbed(sruns)
  <2>1. /\ runs \in [Seeders -> SeedRun \cup {IdleSeeder}]
        /\ \A o \in Seeders : runs[o].pc # "idle" => Control(runs[o]) /\ ~runs[o].quiet
    BY Disturbing
  <2>2. sruns' = [runs EXCEPT ![s] = run] /\ ~run.quiet
    BY <1>6
  <2> HIDE DEF runs
  <2>3. TypeOKSeeds'
    BY <1>1, <1>2, <2>1, <2>2 DEF SeedInv, TypeOKSeeds
  <2>4. \A o \in Seeders : sruns'[o].pc # "idle" => Control(sruns'[o]) /\ ~sruns'[o].quiet
    BY <2>1, <2>2
  <2>5. SeedInv'
    BY <1>3, <2>3, <2>4, NobodyIsQuiet
  <2> QED BY <1>4, <2>5
<1>7. CASE sruns' = [sruns EXCEPT ![s] = run] /\ Running # {} /\ run.pc = "end"
  <2>1. \A o \in Seeders : sruns'[o] = IF o = s THEN run ELSE sruns[o]
    BY <1>7, TypesOfSeeds
  <2>2. TypeOKSeeds'
    BY <1>1, <1>2, <1>7 DEF SeedInv, TypeOKSeeds
  <2>3. ASSUME NEW o \in Seeders PROVE QuietAt(o)'
    <3>1. CASE o = s
      BY <1>7, <2>1, <3>1 DEF QuietAt
    <3>2. CASE o # s
      BY <1>7, <2>1, <3>2 DEF SeedInv, QuietAt, Applied
    <3> QED BY <3>1, <3>2
  <2>4. ASSUME NEW o \in Seeders PROVE (sruns[o].pc # "idle" => Control(sruns[o]))'
    BY <1>1, <2>1 DEF SeedInv
  <2>5. SeedInv'
    BY <1>3, <2>2, <2>3, <2>4 DEF SeedInv
  <2> QED BY <1>4, <2>5
<1> QED BY <1>5, <1>6, <1>7

LEMMA Loads ==
    ASSUME SeedInv, NEW s \in Seeders, NEW force \in BOOLEAN, loadSeeds(s, force) PROVE SeedInv' /\ ContentStays
<1> DEFINE run == [pc |-> "document", file |-> sfile, at |-> sclock + 1, force |-> force, todo |-> sdir, missing |-> FALSE,
                   inserted |-> FALSE, failed |-> FALSE, quiet |-> Running = {}, blind |-> {}]
<1>1. /\ sruns[s].pc = "idle" /\ sclock < MaxSeedings /\ sclock' = sclock + 1
      /\ UNCHANGED <<sdir, sfile, srow, sprint, smeddled>>
      /\ \/ sruns' = [sruns EXCEPT ![s] = run] /\ Running = {}
         \/ sruns' = [Disturbed(sruns) EXCEPT ![s] = run] /\ Running # {}
  BY DEF loadSeeds, At
<1>2. sclock + 1 \in 1..MaxSeedings /\ sfile \in {0, 1} /\ sdir \in RestsOf(sdir)
  <2>1. sclock \in 0..MaxSeedings /\ sfile \in {0, 1} /\ sdir \in SeedDocuments
    BY DEF SeedInv, TypeOKSeeds
  <2>2. sdir \in RestsOf(sdir)
    BY <2>1, RestsAre DEF SeedDocuments
  <2> QED BY <1>1, <2>1, <2>2, SeedAssumption DEF SeedAssumption
<1>3. run \in SeedRun
  BY <1>2 DEF SeedRun, RestsOf
<1>4. run.pc = "document" /\ run.todo = sdir /\ ~run.missing /\ ~run.inserted /\ run.quiet = (Running = {})
  OBVIOUS
<1> HIDE DEF run
<1>5. Control(run)
  BY <1>4 DEF Control, Halfway, Deep
<1> QED BY <1>1, <1>3, <1>4, <1>5, Begins

LEMMA NoDirectory ==
    ASSUME SeedInv, NEW s \in Seeders, NEW force \in BOOLEAN, DirectoryMissing(s, force) PROVE SeedInv' /\ ContentStays
<1> DEFINE run == [pc |-> "end", file |-> sfile, at |-> sclock + 1, force |-> force, todo |-> <<>>, missing |-> TRUE,
                   inserted |-> FALSE, failed |-> FALSE, quiet |-> Running = {}, blind |-> {}]
<1>1. /\ sruns[s].pc = "idle" /\ sclock < MaxSeedings /\ sclock' = sclock + 1
      /\ UNCHANGED <<sdir, sfile, srow, sprint, smeddled>>
      /\ sruns' = [sruns EXCEPT ![s] = run]
  BY DEF DirectoryMissing, At
<1>2. sclock + 1 \in 1..MaxSeedings /\ sfile \in {0, 1} /\ <<>> \in RestsOf(sdir)
  <2>1. sclock \in 0..MaxSeedings /\ sfile \in {0, 1} /\ sdir \in SeedDocuments
    BY DEF SeedInv, TypeOKSeeds
  <2>2. <<>> \in RestsOf(sdir)
    BY <2>1, RestsAre DEF SeedDocuments
  <2> QED BY <1>1, <2>1, <2>2, SeedAssumption DEF SeedAssumption
<1>3. run \in SeedRun
  BY <1>2 DEF SeedRun, RestsOf
<1>4. run.pc = "end" /\ run.todo = <<>> /\ run.missing /\ ~run.inserted /\ run.quiet = (Running = {})
  OBVIOUS
<1> HIDE DEF run
<1>5. Control(run)
  BY <1>4 DEF Control, Halfway, Deep
<1> QED BY <1>1, <1>3, <1>4, <1>5, Begins

(* What an undisturbed seeding that ends has brought about.                *)
EndTells(s) ==
    sruns[s].pc = "end" /\ sruns[s].quiet =>
       LET answer == handleSeed(sruns[s])
           records == {sdir[i] : i \in DOMAIN sdir}
       IN /\ IF answer.success
             THEN \A r \in Bootstrap \cap records : Present(r) /\ (Recorded(r) => srow[r].v = sruns[s].file)
             ELSE answer.status = 200 /\ ~sruns[s].missing => \E r \in records : Present(r) /\ srow[r].v = sruns[s].file
          /\ answer.success /\ sruns[s].force => \A r \in records : Present(r)

LEMMA Ended == ASSUME SeedInv, NEW s \in Seeders PROVE EndTells(s)
<1> SUFFICES ASSUME sruns[s].pc = "end", sruns[s].quiet PROVE EndTells(s)
  BY DEF EndTells
<1>1. sruns[s] \in SeedRun /\ sruns[s].todo = <<>> /\ Applied(sruns[s], srow, sprint) /\ sdir \in SeedDocuments
  BY SeedTypes DEF SeedInv, QuietAt, Control
<1>2. Records(sdir) \ Records(sruns[s].todo) = Records(sdir)
  BY <1>1, RecordsAre
<1>3. sdir = <<"g", "h">> => Bootstrap \cap Records(sdir) = {}
  BY RecordsAre DEF Bootstrap
<1>4. ~sruns[s].failed /\ ~sruns[s].missing /\ (sruns[s].force \/ sdir # <<"g", "h">>) =>
         \A r \in Records(sdir) : Present(r) /\ (r \in Bootstrap /\ Recorded(r) => srow[r].v = sruns[s].file)
  BY <1>1, <1>2 DEF Applied, Present, Recorded
<1>5. sruns[s].inserted => \E r \in Records(sdir) : Present(r) /\ srow[r].v = sruns[s].file
  BY <1>1 DEF Applied, Present
<1>6. /\ handleSeed(sruns[s]).success = (~sruns[s].failed /\ ~sruns[s].missing)
      /\ handleSeed(sruns[s]).status = IF sruns[s].failed /\ ~sruns[s].inserted THEN 500 ELSE 200
  BY DEF handleSeed
<1>7. sruns[s].failed \in BOOLEAN /\ sruns[s].missing \in BOOLEAN /\ sruns[s].inserted \in BOOLEAN
  BY <1>1 DEF SeedRun
<1>8. CASE handleSeed(sruns[s]).success
  <2>1. \A r \in Bootstrap \cap Records(sdir) : Present(r) /\ (Recorded(r) => srow[r].v = sruns[s].file)
    BY <1>3, <1>4, <1>6, <1>8
  <2>2. sruns[s].force => \A r \in Records(sdir) : Present(r)
    BY <1>4, <1>6, <1>8
  <2> QED BY <1>8, <2>1, <2>2 DEF EndTells, Records
<1>9. CASE ~handleSeed(sruns[s]).success
  <2>1. handleSeed(sruns[s]).status = 200 /\ ~sruns[s].missing => \E r \in Records(sdir) : Present(r) /\ srow[r].v = sruns[s].file
    <3> SUFFICES ASSUME handleSeed(sruns[s]).status = 200, ~sruns[s].missing
                 PROVE  sruns[s].inserted
      BY <1>5
    <3>1. sruns[s].failed
      BY <1>6, <1>7, <1>9
    <3>2. sruns[s].inserted \/ handleSeed(sruns[s]).status = 500
      BY <1>6, <3>1
    <3> QED BY <3>2
  <2> QED BY <1>9, <2>1 DEF EndTells, Records
<1> QED BY <1>8, <1>9

(***************************************************************************)
(* Every step of seeding, and what it may not do                           *)
(***************************************************************************)
LEMMA SeedStepKeeps ==
    SeedInv /\ [NextSeeds]_seedVars =>
       SeedInv' /\ ContentStays /\ (\A s \in Seeders : Respects(s, "u") /\ EndTells(s))
<1> SUFFICES ASSUME SeedInv, [NextSeeds]_seedVars
             PROVE  SeedInv' /\ ContentStays
  BY Ended, Reconciles DEF Respects
<1>1. ASSUME NEW s \in Seeders, SeedStep(s) PROVE SeedInv' /\ ContentStays
  BY <1>1, Unreadable, Starts, Creates, Fails, LooksUp, LooksInVain, Reconciles, Prints, Ends DEF SeedStep
<1>2. ASSUME NEW s \in Seeders, NEW force \in BOOLEAN, loadSeeds(s, force) \/ DirectoryMissing(s, force)
      PROVE  SeedInv' /\ ContentStays
  BY <1>2, Loads, NoDirectory
<1>3. ASSUME NEW r \in SeedRecords, OperatorEdits(r) \/ OperatorDeletes(r) PROVE SeedInv' /\ ContentStays
  BY <1>3, Edits, Deletes
<1>4. CASE SeederDies
  BY <1>4, Dies
<1>5. CASE SeedFileChanges \/ UNCHANGED seedVars
  BY <1>5, FileChanges
<1> QED BY <1>1, <1>2, <1>3, <1>4, <1>5 DEF NextSeeds

(* Both parts keep their promises in every behaviour of a start.           *)
THEOREM OperatorsStayRespected == Spec => OperatorsAreRespected
<1>1. Init => SeedInv /\ RegistryInv
  BY SeedInit, RegistryInit DEF Init
<1>2. [Next]_startVars => [NextSeeds]_seedVars /\ [NextRegistry]_registryVars
  BY DEF Next, startVars, registryVars, seedVars
<1>3. SeedInv /\ RegistryInv /\ [Next]_startVars => SeedInv' /\ RegistryInv'
  BY <1>2, SeedStepKeeps, RegistryKeeps
<1>4. SeedInv /\ [Next]_startVars =>
        /\ [\A s \in Seeders : Respects(s, "u")]_seedVars
        /\ [\A s \in Seeders : EndSeeding(s) /\ sruns[s].quiet =>
             LET answer == handleSeed(sruns[s])
                 records == {sdir[i] : i \in DOMAIN sdir}
             IN IF answer.success
                THEN \A r \in Bootstrap \cap records : Present(r) /\ (Recorded(r) => srow[r].v = sruns[s].file)
                ELSE answer.status = 200 /\ ~sruns[s].missing => \E r \in records : Present(r) /\ srow[r].v = sruns[s].file]_seedVars
        /\ [/\ \A r \in Content : Present(r) => srow'[r] \in {srow[r], NoRow} \/ srow'[r].by = "operator"
            /\ \A s \in Seeders : EndSeeding(s) /\ handleSeed(sruns[s]).success /\ sruns[s].quiet /\ sruns[s].force =>
                 \A r \in {sdir[i] : i \in DOMAIN sdir} : Present(r)]_seedVars
  BY <1>2, SeedStepKeeps DEF ContentStays, EndTells, EndSeeding, At
<1>5. RegistryInv /\ [Next]_startVars =>
        /\ [\A p \in RegistryProcs : WriteRegistry(p) /\ gproc[p].alone /\ ~gproc[p].blind =>
              \A m \in Migrations :
                 gfile'[m] = gfile[m] \/ (gfile[m] = "pending" /\ gfile'[m] \in {"approved", "rejected"})]_registryVars
        /\ [\A m \in gprisma' \ gprisma : gfile[m] = "approved" /\ ~gtorn]_registryVars
  BY <1>2, RegistryKeeps DEF RegistryStep
<1>6. SeedInv => TypeOKSeeds
  BY DEF SeedInv
<1>7. RegistryInv => TypeOKRegistry
  BY DEF RegistryInv
<1>8. Spec => [](SeedInv /\ RegistryInv)
  BY <1>1, <1>3, PTL DEF Spec
<1>9. Spec => EditsOutliveSeeding /\ SeedChangesArrive /\ ContentIsCompletedNotChanged
  BY <1>4, <1>8, PTL DEF Spec, EditsOutliveSeeding, SeedChangesArrive, ContentIsCompletedNotChanged
<1>10. Spec => DecisionsStick /\ OnlyApprovedIsGenerated
  BY <1>5, <1>8, PTL DEF Spec, DecisionsStick, OnlyApprovedIsGenerated
<1> QED BY <1>6, <1>7, <1>8, <1>9, <1>10, PTL DEF OperatorsAreRespected

(***************************************************************************)
(* SchemaSync                                                              *)
(***************************************************************************)
Moving == {"notnull", "drop", "key"}
Grown == Moving \cup {"relax", "index", "ready"}

(* What may be null by the schema, but not in the table.                   *)
Stuck == {c \in FieldsIn(mschema) \ PrimaryOf(mschema) : mschema.field[c] = "nullable" /\ c \in mtable.notnull}

KeyIsSettled ==
    mschema.primary # "" =>
        \/ mtable.pk = {mschema.primary}
        \/ mschema.primary \in mdata.nulls \cup mdata.dups
        \/ mschema.primary \notin mstart.seen

Contradicted == mschema.index = "unique" /\ "a" \in mdata.dups
IndexIsSettled == generateIndexes => mtable.index # "none" \/ Contradicted

(* The statements of a start whose own have not failed: "add" has the      *)
(* missing columns still to do, "relax" the columns to relax; then the key *)
(* as inspected is the table's until it is moved.                          *)
Faultless ==
    /\ mstart.pc = "add" =>
          /\ FieldsIn(mschema) \subseteq mtable.cols \cup mstart.todo /\ mtable.cols \cap mstart.todo = {}
          /\ mtable.notnull \subseteq mstart.strict \cap mstart.seen
    /\ mstart.pc \in Grown => FieldsIn(mschema) \subseteq mtable.cols
    /\ mdb # "sqlite" =>
          /\ mstart.pc = "relax" => Stuck \subseteq mstart.todo \cup mtable.pk
          /\ mstart.pc \in Moving \cup {"index", "ready"} => Stuck \subseteq mstart.key
          /\ mstart.pc \in {"notnull", "drop"} => mstart.key = mtable.pk
          /\ mstart.pc = "key" => mtable.pk = {}
          /\ mstart.pc \in {"index", "ready"} => KeyIsSettled
    /\ mstart.pc = "ready" => IndexIsSettled

SyncInv ==
    /\ TypeOKSync
    /\ mstart.seen \subseteq mtable.cols
    /\ mstart.pc \in Moving => mschema.primary \in mstart.seen
    /\ mstart.pc = "relax" => mdb # "sqlite"
    /\ mstart.pc = "dead" => mstart.faulted \/ Contradicted
    /\ ~mstart.faulted => Faultless

LEMMA SchemaFacts ==
    ASSUME mschema \in Schemas
    PROVE  /\ FieldsIn(mschema) \subseteq Cols /\ FieldsIn(mschema) # {} /\ PrimaryOf(mschema) \subseteq FieldsIn(mschema)
           /\ mschema.primary \in Cols \cup {""} /\ "" \notin Cols
           /\ mschema.primary = "" => PrimaryOf(mschema) = {}
           /\ mschema.primary # "" => PrimaryOf(mschema) = {mschema.primary}
           /\ mschema.index \in {"none", "plain", "unique"}
           /\ mschema.index # "none" => "a" \in FieldsIn(mschema)
           /\ "a" \in Cols
BY DEF Schemas, FieldsIn, PrimaryOf, Cols

LEMMA SyncTypes ==
    ASSUME TypeOKSync
    PROVE  /\ mtable = [cols |-> mtable.cols, notnull |-> mtable.notnull, pk |-> mtable.pk, index |-> mtable.index]
           /\ mtable.cols \subseteq Cols /\ mtable.notnull \subseteq mtable.cols /\ mtable.pk \subseteq mtable.cols
           /\ mtable.index \in {"none", "plain", "unique"}
           /\ mdata = [rows |-> mdata.rows, nulls |-> mdata.nulls, dups |-> mdata.dups]
           /\ mdata.rows \in BOOLEAN /\ mdata.nulls \subseteq mtable.cols \ mtable.notnull
           /\ mdata.dups \subseteq mtable.cols \ mtable.pk
           /\ mschema \in Schemas /\ mdb \in SqlBackends /\ mstarts \in 0..MaxStarts
BY DEF TypeOKSync

(* A start under way.                                                      *)
StartRecord == [pc : Phases, seen : SUBSET Cols, strict : SUBSET Cols, key : SUBSET Cols,
                todo : SUBSET Cols, faulted : BOOLEAN]

(* A step of a start that leaves the table alone.                          *)
LEMMA OnlyTheStartMoves ==
    ASSUME SyncInv, NEW start \in StartRecord, mstart' = start, TableStays,
           start.seen \subseteq mtable.cols,
           start.pc \in Moving => mschema.primary \in start.seen,
           start.pc = "relax" => mdb # "sqlite",
           start.pc = "dead" => start.faulted \/ Contradicted,
           ~start.faulted => Faultless'
    PROVE  SyncInv'
<1>1. TypeOKSync'
  BY DEF SyncInv, TypeOKSync, TableStays, StartRecord
<1> QED BY <1>1 DEF SyncInv, TableStays, Contradicted

LEMMA SyncInit == InitSync => SyncInv
<1> SUFFICES ASSUME InitSync PROVE SyncInv
  OBVIOUS
<1>1. mschema \in Schemas
  <2> DEFINE s == [field |-> [c \in Cols |-> "required"], primary |-> "", index |-> "none"]
  <2>1. s \in Schemas
    BY DEF Schemas, Cols
  <2> QED BY <2>1 DEF InitSync
<1>2. Down \in StartRecord /\ Down.pc = "down" /\ Down.seen = {}
  BY DEF Down, StartRecord, Phases
<1>3. mtable = [cols |-> {}, notnull |-> {}, pk |-> {}, index |-> "none"] /\ mdata = [rows |-> FALSE, nulls |-> {}, dups |-> {}]
      /\ mstart = Down /\ mstarts = 0 /\ mdb \in SqlBackends
  BY DEF InitSync, NoTable
<1>4. TypeOKSync
  BY <1>1, <1>2, <1>3, SyncAssumption DEF SyncAssumption, TypeOKSync, StartRecord
<1>5. Faultless
  BY <1>2, <1>3 DEF Faultless, Grown, Moving
<1> QED BY <1>2, <1>3, <1>4, <1>5 DEF SyncInv, Moving

LEMMA Stops == ASSUME SyncInv, StopDaemon PROVE SyncInv'
<1>1. mstart' = Down /\ TableStays
  BY DEF StopDaemon
<1>2. Down \in StartRecord /\ Down.pc = "down" /\ Down.seen = {}
  BY DEF Down, StartRecord, Phases
<1>3. Faultless'
  BY <1>1, <1>2 DEF Faultless, Grown, Moving
<1> QED BY <1>1, <1>2, <1>3, OnlyTheStartMoves DEF Moving

LEMMA StartsUp == ASSUME SyncInv, NEW schema \in Schemas, StartDaemon(schema) PROVE SyncInv'
<1> DEFINE start == [Down EXCEPT !.pc = "create"]
<1>1. mstart' = start /\ mschema' = schema /\ mstarts' = mstarts + 1 /\ mstarts < MaxStarts /\ UNCHANGED <<mdb, mtable, mdata>>
  BY DEF StartDaemon
<1>2. start \in StartRecord /\ start.pc = "create" /\ start.seen = {}
  BY DEF Down, StartRecord, Phases
<1> HIDE DEF start
<1>3. mstarts' \in 0..MaxStarts
  BY <1>1, SyncAssumption DEF SyncInv, TypeOKSync, SyncAssumption
<1>4. TypeOKSync'
  BY <1>1, <1>2, <1>3 DEF SyncInv, TypeOKSync, StartRecord
<1>5. Faultless'
  BY <1>1, <1>2 DEF Faultless, Grown, Moving
<1> QED BY <1>1, <1>2, <1>4, <1>5 DEF SyncInv, Moving

LEMMA Inspects == ASSUME SyncInv, Inspect PROVE SyncInv'
<1>1. TypeOKSync /\ TableStays /\ mstart \in StartRecord /\ mtable.cols \subseteq Cols /\ mtable.notnull \subseteq mtable.cols
      /\ mschema \in Schemas
  BY SyncTypes DEF SyncInv, TypeOKSync, StartRecord, Inspect
<1>2. FieldsIn(mschema) \subseteq Cols
  BY <1>1, SchemaFacts
<1>3. CASE mstart' = [mstart EXCEPT !.pc = "add", !.seen = mtable.cols, !.strict = mtable.notnull,
                                    !.todo = FieldsIn(mschema) \ mtable.cols]
  <2> DEFINE todo == FieldsIn(mschema) \ mtable.cols
             start == [mstart EXCEPT !.pc = "add", !.seen = mtable.cols, !.strict = mtable.notnull, !.todo = todo]
  <2>1. todo \in SUBSET Cols /\ "add" \in Phases
    BY <1>2 DEF Phases
  <2>2. mstart' = start
    BY <1>3
  <2> HIDE DEF todo
  <2>3. /\ start \in StartRecord /\ start.pc = "add" /\ start.seen = mtable.cols /\ start.strict = mtable.notnull
        /\ start.todo = todo
    BY <1>1, <2>1 DEF StartRecord
  <2> HIDE DEF start
  <2>4. Faultless'
    BY <1>1, <2>2, <2>3 DEF Faultless, Grown, Moving, TableStays, todo, FieldsIn
  <2> QED BY <1>1, <2>2, <2>3, <2>4, OnlyTheStartMoves DEF Moving
<1>4. CASE mstart' = [mstart EXCEPT !.faulted = TRUE, !.pc = IF mdb = "sqlite" THEN "add" ELSE "index",
                                      !.todo = IF mdb = "sqlite" THEN FieldsIn(mschema) ELSE {}]
  <2> DEFINE todo == IF mdb = "sqlite" THEN FieldsIn(mschema) ELSE {}
             pc == IF mdb = "sqlite" THEN "add" ELSE "index"
             start == [mstart EXCEPT !.faulted = TRUE, !.pc = pc, !.todo = todo]
  <2>1. todo \in SUBSET Cols /\ pc \in Phases /\ pc \in {"add", "index"}
    BY <1>2 DEF Phases
  <2>2. mstart' = start
    BY <1>4
  <2> HIDE DEF todo, pc
  <2>3. start \in StartRecord /\ start.pc = pc /\ start.seen = mstart.seen /\ start.faulted
    BY <1>1, <2>1 DEF StartRecord
  <2> HIDE DEF start
  <2> QED BY <1>1, <2>1, <2>2, <2>3, OnlyTheStartMoves DEF Moving, SyncInv
<1> QED BY <1>3, <1>4 DEF Inspect

LEMMA IsAdded == ASSUME SyncInv, Added PROVE SyncInv'
<1>1. TypeOKSync /\ TableStays /\ mstart \in StartRecord /\ mstart.pc = "add" /\ mstart.todo = {} /\ mschema \in Schemas
  BY SyncTypes DEF SyncInv, TypeOKSync, StartRecord, Added, AtPhase
<1>2. CASE mdb = "sqlite"
  <2> DEFINE start == [mstart EXCEPT !.pc = "index"]
  <2>1. mstart' = start
    BY <1>2 DEF Added
  <2>2. start \in StartRecord /\ start.pc = "index" /\ start.seen = mstart.seen /\ start.faulted = mstart.faulted
    BY <1>1 DEF StartRecord, Phases
  <2> HIDE DEF start
  <2>3. ~start.faulted => Faultless'
    BY <1>1, <1>2, <2>1, <2>2 DEF SyncInv, Faultless, Grown, Moving, TableStays, FieldsIn
  <2> QED BY <1>1, <2>1, <2>2, <2>3, OnlyTheStartMoves DEF Moving, SyncInv
<1>3. CASE mdb # "sqlite"
  <2> DEFINE start == [mstart EXCEPT !.pc = "relax", !.todo = Relaxable]
  <2>1. mstart' = start
    BY <1>3 DEF Added
  <2>2. Relaxable \in SUBSET Cols
    BY <1>1 DEF Relaxable, StartRecord
  <2>3. start \in StartRecord /\ start.pc = "relax" /\ start.seen = mstart.seen /\ start.faulted = mstart.faulted /\ start.todo = Relaxable
    BY <1>1, <2>2 DEF StartRecord, Phases
  <2> HIDE DEF start
  <2>4. ASSUME ~mstart.faulted PROVE FieldsIn(mschema) \subseteq mtable.cols /\ Stuck \subseteq Relaxable
    <3>1. FieldsIn(mschema) \subseteq mtable.cols /\ mtable.notnull \subseteq mstart.strict \cap mstart.seen
      BY <1>1, <2>4 DEF SyncInv, Faultless
    <3>2. \A c \in FieldsIn(mschema) : c # mschema.primary \/ c \in PrimaryOf(mschema)
      BY <1>1, SchemaFacts DEF Cols
    <3> QED BY <3>1, <3>2 DEF Stuck, Relaxable
  <2>5. ~start.faulted => Faultless'
    BY <1>1, <1>3, <2>1, <2>3, <2>4 DEF Faultless, Grown, Moving, TableStays, Stuck, FieldsIn, PrimaryOf
  <2> QED BY <1>1, <1>3, <2>1, <2>3, <2>5, OnlyTheStartMoves DEF Moving, SyncInv
<1> QED BY <1>2, <1>3

LEMMA KeyIsRead == ASSUME SyncInv, CurrentKey PROVE SyncInv'
<1>1. TypeOKSync /\ TableStays /\ mstart \in StartRecord /\ mstart.pc = "relax" /\ mstart.todo = {} /\ mschema \in Schemas
      /\ mtable.pk \subseteq mtable.cols /\ mtable.cols \subseteq Cols /\ mdb # "sqlite"
  BY SyncTypes DEF SyncInv, TypeOKSync, StartRecord, CurrentKey, AtPhase
<1>2. ASSUME NEW key \in SUBSET Cols, NEW fault \in BOOLEAN, InspectKey(key, fault), fault \/ key = mtable.pk
      PROVE  SyncInv'
  <2> DEFINE wrong == mschema.primary \in mstart.seen /\ key # PrimaryOf(mschema)
             pc == IF wrong THEN "notnull" ELSE "index"
             faulted == mstart.faulted \/ fault
             start == [mstart EXCEPT !.key = key, !.faulted = faulted, !.pc = pc]
  <2>1. mstart' = start
    BY <1>2 DEF InspectKey
  <2>2. pc \in Phases /\ faulted \in BOOLEAN /\ (pc = "notnull" => mschema.primary \in mstart.seen) /\ pc \in {"notnull", "index"}
        /\ (pc = "index" => mschema.primary \notin mstart.seen \/ key = PrimaryOf(mschema))
    BY DEF Phases
  <2> HIDE DEF wrong, pc, faulted
  <2>3. start \in StartRecord /\ start.pc = pc /\ start.seen = mstart.seen /\ start.faulted = faulted /\ start.key = key
    BY <1>1, <1>2, <2>2 DEF StartRecord
  <2> HIDE DEF start
  <2>4. ASSUME ~faulted PROVE FieldsIn(mschema) \subseteq mtable.cols /\ Stuck \subseteq key /\ key = mtable.pk
    BY <1>1, <1>2, <2>4 DEF faulted, SyncInv, Faultless, Grown
  <2>5. ASSUME ~faulted, pc = "index", mschema.primary # "" PROVE mtable.pk = {mschema.primary} \/ mschema.primary \notin mstart.seen
    BY <1>1, <2>2, <2>4, <2>5, SchemaFacts
  <2>6. ~start.faulted => Faultless'
    BY <1>1, <2>1, <2>2, <2>3, <2>4, <2>5 DEF Faultless, Grown, Moving, TableStays, Stuck, FieldsIn, PrimaryOf, KeyIsSettled
  <2> QED BY <1>1, <2>1, <2>2, <2>3, <2>6, OnlyTheStartMoves DEF Moving, SyncInv
<1>3. InspectKey(mtable.pk, FALSE) \/ InspectKey({}, TRUE)
  BY DEF CurrentKey
<1> QED BY <1>1, <1>2, <1>3

(* A statement of a start that changes the table and not the rows.         *)
LEMMA TheTableMoves ==
    ASSUME SyncInv, NEW start \in StartRecord, mstart' = start, DataStays,
           NEW cols \in SUBSET Cols, NEW notnull \in SUBSET cols, NEW pk \in SUBSET cols, NEW index \in {"none", "plain", "unique"},
           mtable' = [cols |-> cols, notnull |-> notnull, pk |-> pk, index |-> index],
           mdata.nulls \subseteq cols \ notnull, mdata.dups \subseteq cols \ pk,
           start.seen \subseteq cols,
           start.pc \in Moving => mschema.primary \in start.seen,
           start.pc = "relax" => mdb # "sqlite",
           start.pc = "dead" => start.faulted \/ Contradicted,
           ~start.faulted => Faultless'
    PROVE  SyncInv'
<1>1. /\ mdata = [rows |-> mdata.rows, nulls |-> mdata.nulls, dups |-> mdata.dups] /\ mdata.rows \in BOOLEAN
      /\ mschema \in Schemas /\ mdb \in SqlBackends /\ mstarts \in 0..MaxStarts
  BY SyncTypes DEF SyncInv
<1>2. TypeOKSync'
  BY <1>1 DEF TypeOKSync, DataStays, StartRecord
<1> QED BY <1>2 DEF SyncInv, DataStays, Contradicted

(* Before a statement: the parts of the table, and the start.              *)
LEMMA BeforeStatement ==
    ASSUME SyncInv
    PROVE  /\ mtable = [cols |-> mtable.cols, notnull |-> mtable.notnull, pk |-> mtable.pk, index |-> mtable.index]
           /\ mtable.cols \subseteq Cols /\ mtable.notnull \subseteq mtable.cols /\ mtable.pk \subseteq mtable.cols
           /\ mtable.index \in {"none", "plain", "unique"}
           /\ mdata.nulls \subseteq mtable.cols \ mtable.notnull /\ mdata.dups \subseteq mtable.cols \ mtable.pk
           /\ mschema \in Schemas /\ mstart \in StartRecord /\ mstart.seen \subseteq mtable.cols
BY SyncTypes DEF SyncInv, TypeOKSync, StartRecord

(* A failing statement leads on to pc and is remembered.                   *)
LEMMA Faulting ==
    ASSUME SyncInv, NEW pc \in Phases \ {"relax"}, Fault(pc), UNCHANGED mtable, DataStays,
           pc \notin Moving
    PROVE  SyncInv'
<1> DEFINE start == [mstart EXCEPT !.pc = pc, !.faulted = TRUE]
<1>1. mstart' = start
  BY DEF Fault
<1>2. start \in StartRecord /\ start.pc = pc /\ start.seen = mstart.seen /\ start.faulted
  BY BeforeStatement DEF StartRecord
<1> HIDE DEF start
<1>3. TableStays
  BY DEF TableStays, DataStays
<1> QED BY <1>1, <1>2, <1>3, BeforeStatement, OnlyTheStartMoves

(* Going on to pc with the table as it is.                                 *)
LEMMA GoingOn ==
    ASSUME SyncInv, NEW pc \in Phases \ {"relax"}, Goto(pc), UNCHANGED mtable, DataStays,
           pc \in Moving => mschema.primary \in mstart.seen,
           pc = "dead" => mstart.faulted \/ Contradicted,
           ~mstart.faulted => Faultless'
    PROVE  SyncInv'
<1> DEFINE start == [mstart EXCEPT !.pc = pc]
<1>1. mstart' = start
  BY DEF Goto
<1>2. start \in StartRecord /\ start.pc = pc /\ start.seen = mstart.seen /\ start.faulted = mstart.faulted
  BY BeforeStatement DEF StartRecord
<1> HIDE DEF start
<1>3. TableStays
  BY DEF TableStays, DataStays
<1> QED BY <1>1, <1>2, <1>3, BeforeStatement, OnlyTheStartMoves

LEMMA GoneTo ==
    ASSUME SyncInv, NEW pc \in Phases, Goto(pc)
    PROVE  /\ mstart' \in StartRecord /\ mstart'.pc = pc
           /\ mstart'.seen = mstart.seen /\ mstart'.key = mstart.key /\ mstart'.faulted = mstart.faulted
BY BeforeStatement DEF Goto, StartRecord

LEMMA TableIsCreated == ASSUME SyncInv, createTables PROVE SyncInv'
<1>1. mstart.pc = "create" /\ DataStays
  BY DEF createTables, AtPhase
<1>2. CASE Fault("dead") /\ UNCHANGED mtable
  BY <1>1, <1>2, Faulting DEF Phases, Moving
<1>3. CASE mtable' = (IF mtable.cols = {} THEN generateCreateTable ELSE mtable) /\ Goto("inspect")
  <2>1. mstart' \in StartRecord /\ mstart'.pc = "inspect" /\ mstart'.seen = mstart.seen
    BY <1>3, GoneTo DEF Phases
  <2>2. Faultless'
    BY <2>1 DEF Faultless, Grown, Moving
  <2>3. CASE mtable.cols # {}
    BY <1>1, <1>3, <2>1, <2>2, <2>3, GoingOn DEF Phases, Moving
  <2>4. CASE mtable.cols = {}
    <3> DEFINE cols == FieldsIn(mschema)
               notnull == {c \in FieldsIn(mschema) : mschema.field[c] = "required"} \cup PrimaryOf(mschema)
               pk == PrimaryOf(mschema)
    <3>1. mtable' = [cols |-> cols, notnull |-> notnull, pk |-> pk, index |-> "none"]
      BY <1>3, <2>4 DEF generateCreateTable
    <3>2. cols \in SUBSET Cols /\ notnull \in SUBSET cols /\ pk \in SUBSET cols
      BY BeforeStatement, SchemaFacts
    <3>3. mdata.nulls = {} /\ mdata.dups = {} /\ mstart.seen = {}
      BY <2>4, BeforeStatement
    <3> HIDE DEF cols, notnull, pk
    <3> QED BY <1>1, <2>1, <2>2, <3>1, <3>2, <3>3, TheTableMoves DEF Moving
  <2> QED BY <2>3, <2>4
<1> QED BY <1>2, <1>3 DEF createTables

LEMMA ColumnIsAdded == ASSUME SyncInv, NEW c \in Cols, generateAlterAddColumn(c) PROVE SyncInv'
<1>1. mstart.pc = "add" /\ c \in mstart.todo /\ UNCHANGED <<mdb, mschema, mstarts>> /\ mstart \in StartRecord
  BY BeforeStatement DEF generateAlterAddColumn, AtPhase
<1> DEFINE todo == mstart.todo \ {c}
<1>2. todo \in SUBSET Cols
  BY <1>1 DEF StartRecord
<1>3. CASE /\ c \notin mtable.cols
           /\ mtable' = [mtable EXCEPT !.cols = @ \cup {c}]
           /\ mdata' = [mdata EXCEPT !.nulls = IF mdata.rows THEN @ \cup {c} ELSE @]
           /\ mstart' = [mstart EXCEPT !.todo = @ \ {c}]
  <2> DEFINE start == [mstart EXCEPT !.todo = todo]
             cols == mtable.cols \cup {c}
             nulls == IF mdata.rows THEN mdata.nulls \cup {c} ELSE mdata.nulls
  <2>1. mstart' = start
    BY <1>3
  <2>2. mtable' = [cols |-> cols, notnull |-> mtable.notnull, pk |-> mtable.pk, index |-> mtable.index]
    BY <1>3, BeforeStatement
  <2>3. mdata' = [rows |-> mdata.rows, nulls |-> nulls, dups |-> mdata.dups] /\ mdata.rows \in BOOLEAN
    BY <1>3, SyncTypes DEF SyncInv
  <2>4. /\ cols \in SUBSET Cols /\ mtable.notnull \in SUBSET cols /\ mtable.pk \in SUBSET cols
        /\ nulls \in SUBSET (cols \ mtable.notnull) /\ mdata.dups \in SUBSET (cols \ mtable.pk)
    BY <1>3, BeforeStatement
  <2> HIDE DEF todo
  <2>5. start \in StartRecord /\ start.pc = "add" /\ start.seen = mstart.seen /\ start.faulted = mstart.faulted
        /\ start.todo = todo /\ start.strict = mstart.strict
    BY <1>1, <1>2 DEF StartRecord
  <2> HIDE DEF start, nulls
  <2>6. TypeOKSync'
    <3> HIDE DEF cols
    <3> QED BY <1>1, <2>1, <2>2, <2>3, <2>4, <2>5, BeforeStatement, SyncTypes DEF TypeOKSync, StartRecord, SyncInv
  <2>7. ~mstart.faulted => Faultless'
    <3>1. ASSUME ~mstart.faulted
          PROVE  /\ FieldsIn(mschema) \subseteq cols \cup todo /\ cols \cap todo = {}
                 /\ mtable.notnull \subseteq mstart.strict \cap mstart.seen
      BY <1>1, <1>3, <3>1 DEF SyncInv, Faultless, todo
    <3> QED BY <1>1, <2>1, <2>2, <2>5, <3>1 DEF Faultless, Grown, Moving, FieldsIn
  <2>8. start.seen \subseteq cols
    BY <2>5, BeforeStatement
  <2> QED BY <1>1, <2>1, <2>2, <2>5, <2>6, <2>7, <2>8 DEF SyncInv, Moving
<1>4. CASE mstart' = [mstart EXCEPT !.todo = @ \ {c}, !.faulted = TRUE] /\ UNCHANGED <<mtable, mdata>>
  <2> DEFINE start == [mstart EXCEPT !.todo = todo, !.faulted = TRUE]
  <2>1. mstart' = start
    BY <1>4
  <2> HIDE DEF todo
  <2>2. start \in StartRecord /\ start.pc = "add" /\ start.seen = mstart.seen /\ start.faulted
    BY <1>1, <1>2 DEF StartRecord
  <2> HIDE DEF start
  <2>3. TableStays
    BY <1>1, <1>4 DEF TableStays
  <2> QED BY <2>1, <2>2, <2>3, BeforeStatement, OnlyTheStartMoves DEF Moving
<1> QED BY <1>3, <1>4 DEF generateAlterAddColumn

LEMMA ColumnIsRelaxed == ASSUME SyncInv, NEW c \in Cols, RelaxNotNull(c) PROVE SyncInv'
<1>1. mstart.pc = "relax" /\ c \in mstart.todo /\ DataStays /\ mstart \in StartRecord /\ mdb # "sqlite"
  BY BeforeStatement DEF RelaxNotNull, AtPhase, SyncInv
<1> DEFINE todo == mstart.todo \ {c}
           faulted == mstart.faulted \/ (mtable' = mtable /\ c \notin mtable.pk)
           start == [mstart EXCEPT !.todo = todo, !.faulted = faulted]
<1>2. mstart' = start
  BY DEF RelaxNotNull
<1>3. todo \in SUBSET Cols /\ faulted \in BOOLEAN
  BY <1>1 DEF StartRecord
<1> HIDE DEF todo, faulted
<1>4. start \in StartRecord /\ start.pc = "relax" /\ start.seen = mstart.seen /\ start.faulted = faulted /\ start.todo = todo
  BY <1>1, <1>3 DEF StartRecord
<1> HIDE DEF start
<1>5. ~faulted => FieldsIn(mschema) \subseteq mtable.cols /\ Stuck \subseteq mstart.todo \cup mtable.pk
  BY <1>1 DEF SyncInv, Faultless, Grown, faulted
<1>6. CASE c \notin mtable.pk /\ mtable' = [mtable EXCEPT !.notnull = @ \ {c}]
  <2> DEFINE notnull == mtable.notnull \ {c}
  <2>1. mtable' = [cols |-> mtable.cols, notnull |-> notnull, pk |-> mtable.pk, index |-> mtable.index]
    BY <1>6, BeforeStatement
  <2>2. notnull \in SUBSET mtable.cols /\ mdata.nulls \subseteq mtable.cols \ notnull
    BY BeforeStatement
  <2>3. ~faulted => Faultless'
    BY <1>1, <1>2, <1>4, <1>5, <2>1 DEF Faultless, Grown, Moving, Stuck, FieldsIn, PrimaryOf, DataStays, todo
  <2> HIDE DEF notnull
  <2> QED BY <1>1, <1>2, <1>4, <2>1, <2>2, <2>3, BeforeStatement, TheTableMoves DEF Moving
<1>7. CASE mtable' = mtable
  <2>1. ~faulted => c \in mtable.pk
    BY <1>7 DEF faulted
  <2>2. ~faulted => Faultless'
    BY <1>1, <1>2, <1>4, <1>5, <1>7, <2>1 DEF Faultless, Grown, Moving, Stuck, FieldsIn, PrimaryOf, DataStays, todo
  <2>3. TableStays
    BY <1>1, <1>7 DEF DataStays, TableStays
  <2> QED BY <1>1, <1>2, <1>4, <2>2, <2>3, BeforeStatement, OnlyTheStartMoves DEF Moving
<1> QED BY <1>6, <1>7 DEF RelaxNotNull

LEMMA NotNullIsSet == ASSUME SyncInv, SetNotNull PROVE SyncInv'
<1>1. mstart.pc = "notnull" /\ DataStays /\ mschema.primary \in mstart.seen
  BY DEF SetNotNull, AtPhase, SyncInv, Moving
<1>2. mschema.primary \in mtable.cols /\ mschema.primary # "" /\ PrimaryOf(mschema) = {mschema.primary}
  BY <1>1, BeforeStatement, SchemaFacts
<1>3. CASE Fault("index") /\ UNCHANGED mtable
  BY <1>1, <1>3, Faulting DEF Phases, Moving
<1>4. CASE mschema.primary \notin mdata.nulls /\ mtable' = [mtable EXCEPT !.notnull = @ \cup {mschema.primary}] /\ Goto("drop")
  <2> DEFINE notnull == mtable.notnull \cup {mschema.primary}
  <2>1. mtable' = [cols |-> mtable.cols, notnull |-> notnull, pk |-> mtable.pk, index |-> mtable.index]
    BY <1>4, BeforeStatement
  <2>2. notnull \in SUBSET mtable.cols /\ mdata.nulls \subseteq mtable.cols \ notnull
    BY <1>2, <1>4, BeforeStatement
  <2>3. mstart' \in StartRecord /\ mstart'.pc = "drop" /\ mstart'.seen = mstart.seen /\ mstart'.key = mstart.key
        /\ mstart'.faulted = mstart.faulted
    BY <1>4, GoneTo DEF Phases
  <2>4. ~mstart.faulted => Faultless'
    BY <1>1, <1>2, <2>1, <2>3 DEF SyncInv, Faultless, Grown, Moving, Stuck, FieldsIn, PrimaryOf, DataStays
  <2> HIDE DEF notnull
  <2> QED BY <1>1, <2>1, <2>2, <2>3, <2>4, BeforeStatement, TheTableMoves DEF Moving
<1>5. CASE mschema.primary \in mdata.nulls /\ Goto("index") /\ UNCHANGED mtable
  <2>1. mstart'.pc = "index" /\ mstart'.seen = mstart.seen /\ mstart'.key = mstart.key
    BY <1>5, GoneTo DEF Phases
  <2>2. ~mstart.faulted => Faultless'
    BY <1>1, <1>5, <2>1 DEF SyncInv, Faultless, Grown, Moving, Stuck, FieldsIn, PrimaryOf, DataStays, KeyIsSettled
  <2> QED BY <1>1, <1>5, <2>2, GoingOn DEF Phases, Moving
<1> QED BY <1>3, <1>4, <1>5 DEF SetNotNull

LEMMA KeyIsDropped == ASSUME SyncInv, DropKey PROVE SyncInv'
<1>1. mstart.pc = "drop" /\ DataStays /\ mschema.primary \in mstart.seen
  BY DEF DropKey, AtPhase, SyncInv, Moving
<1>2. CASE Fault("index") /\ UNCHANGED mtable
  BY <1>1, <1>2, Faulting DEF Phases, Moving
<1>3. CASE mtable' = [mtable EXCEPT !.pk = IF mstart.key = {} THEN @ ELSE {}] /\ Goto("key")
  <2> DEFINE pk == IF mstart.key = {} THEN mtable.pk ELSE {}
  <2>1. mtable' = [cols |-> mtable.cols, notnull |-> mtable.notnull, pk |-> pk, index |-> mtable.index]
    BY <1>3, BeforeStatement
  <2>2. pk \in SUBSET mtable.cols /\ mdata.dups \subseteq mtable.cols \ pk
    BY BeforeStatement
  <2>3. mstart' \in StartRecord /\ mstart'.pc = "key" /\ mstart'.seen = mstart.seen /\ mstart'.key = mstart.key
        /\ mstart'.faulted = mstart.faulted
    BY <1>3, GoneTo DEF Phases
  <2>4. ~mstart.faulted => Faultless'
    BY <1>1, <2>1, <2>3 DEF SyncInv, Faultless, Grown, Moving, Stuck, FieldsIn, PrimaryOf, DataStays
  <2> HIDE DEF pk
  <2> QED BY <1>1, <2>1, <2>2, <2>3, <2>4, BeforeStatement, TheTableMoves DEF Moving
<1> QED BY <1>2, <1>3 DEF DropKey

LEMMA KeyIsAdded == ASSUME SyncInv, AddKey PROVE SyncInv'
<1> DEFINE refused == mtable.pk # {} \/ mschema.primary \in mdata.dups
<1>1. mstart.pc = "key" /\ DataStays /\ mschema.primary \in mstart.seen
  BY DEF AddKey, AtPhase, SyncInv, Moving
<1>2. mschema.primary \in mtable.cols /\ mschema.primary # ""
  BY <1>1, BeforeStatement, SchemaFacts
<1>3. CASE Fault("index") /\ UNCHANGED mtable
  BY <1>1, <1>3, Faulting DEF Phases, Moving
<1>4. CASE ~refused /\ mtable' = [mtable EXCEPT !.pk = {mschema.primary}] /\ Goto("index")
  <2>1. mtable' = [cols |-> mtable.cols, notnull |-> mtable.notnull, pk |-> {mschema.primary}, index |-> mtable.index]
    BY <1>4, BeforeStatement
  <2>2. {mschema.primary} \in SUBSET mtable.cols /\ mdata.dups \subseteq mtable.cols \ {mschema.primary}
    BY <1>2, <1>4, BeforeStatement
  <2>3. mstart' \in StartRecord /\ mstart'.pc = "index" /\ mstart'.seen = mstart.seen /\ mstart'.key = mstart.key
        /\ mstart'.faulted = mstart.faulted
    BY <1>4, GoneTo DEF Phases
  <2>4. ~mstart.faulted => Faultless'
    BY <1>1, <2>1, <2>3 DEF SyncInv, Faultless, Grown, Moving, Stuck, FieldsIn, PrimaryOf, DataStays, KeyIsSettled
  <2> QED BY <1>1, <2>1, <2>2, <2>3, <2>4, BeforeStatement, TheTableMoves DEF Moving
<1>5. CASE refused /\ Goto("index") /\ UNCHANGED mtable
  <2>1. mstart'.pc = "index" /\ mstart'.seen = mstart.seen /\ mstart'.key = mstart.key
    BY <1>5, GoneTo DEF Phases
  <2>2. ~mstart.faulted => Faultless'
    BY <1>1, <1>5, <2>1 DEF SyncInv, Faultless, Grown, Moving, Stuck, FieldsIn, PrimaryOf, DataStays, KeyIsSettled
  <2> QED BY <1>1, <1>5, <2>2, GoingOn DEF Phases, Moving
<1> QED BY <1>3, <1>4, <1>5 DEF AddKey

(* The index is the last: what the start found stays.                      *)
LEMMA AtTheIndex ==
    ASSUME SyncInv, mstart.pc = "index", DataStays, ~mstart.faulted,
           mtable'.cols = mtable.cols, mtable'.notnull = mtable.notnull, mtable'.pk = mtable.pk,
           mstart'.pc = "ready" \/ mstart'.pc = "dead", mstart'.seen = mstart.seen, mstart'.key = mstart.key,
           mstart'.pc = "ready" => IndexIsSettled'
    PROVE  Faultless'
<1>1. /\ FieldsIn(mschema) \subseteq mtable.cols
      /\ mdb # "sqlite" => Stuck \subseteq mstart.key /\ KeyIsSettled
  BY DEF SyncInv, Faultless, Grown
<1>2. FieldsIn(mschema') = FieldsIn(mschema) /\ PrimaryOf(mschema') = PrimaryOf(mschema) /\ mschema' = mschema
      /\ mdata' = mdata /\ mdb' = mdb
  BY DEF DataStays
<1>3. Stuck' = Stuck
  BY <1>2 DEF Stuck
<1>4. KeyIsSettled' = KeyIsSettled
  BY <1>2 DEF KeyIsSettled
<1> QED BY <1>1, <1>2, <1>3, <1>4 DEF Faultless, Grown, Moving

LEMMA IndexIsCreated == ASSUME SyncInv, CreateIndex PROVE SyncInv'
<1>1. mstart.pc = "index" /\ DataStays /\ generateIndexes' = generateIndexes /\ Contradicted' = Contradicted
  BY DEF CreateIndex, AtPhase, DataStays, generateIndexes, Contradicted
<1> DEFINE end == IF mdb = "sqlite" THEN "dead" ELSE "ready"
<1>2. end \in Phases \ {"relax"} /\ end \notin Moving /\ end \in {"dead", "ready"} /\ "ready" \in Phases \ {"relax"} /\ "ready" \notin Moving
  BY DEF Phases, Moving
<1>3. CASE ~generateIndexes /\ Goto("ready") /\ UNCHANGED mtable
  <2>1. mstart'.pc = "ready" /\ mstart'.seen = mstart.seen /\ mstart'.key = mstart.key
    BY <1>2, <1>3, GoneTo
  <2>2. IndexIsSettled'
    BY <1>1, <1>3 DEF IndexIsSettled
  <2>3. ~mstart.faulted => Faultless'
    BY <1>1, <1>3, <2>1, <2>2, AtTheIndex
  <2> QED BY <1>1, <1>2, <1>3, <2>3, GoingOn
<1>4. CASE generateIndexes /\ ~IndexRefused /\ mtable' = [mtable EXCEPT !.index = IF @ = "none" THEN mschema.index ELSE @] /\ Goto("ready")
  <2> DEFINE index == IF mtable.index = "none" THEN mschema.index ELSE mtable.index
  <2>1. mtable' = [cols |-> mtable.cols, notnull |-> mtable.notnull, pk |-> mtable.pk, index |-> index]
    BY <1>4, BeforeStatement
  <2>2. index \in {"none", "plain", "unique"} /\ index # "none"
    BY <1>4, BeforeStatement, SchemaFacts DEF generateIndexes
  <2> HIDE DEF index
  <2>3. mstart' \in StartRecord /\ mstart'.pc = "ready" /\ mstart'.seen = mstart.seen /\ mstart'.key = mstart.key
        /\ mstart'.faulted = mstart.faulted
    BY <1>2, <1>4, GoneTo
  <2>4. IndexIsSettled'
    BY <2>1, <2>2 DEF IndexIsSettled
  <2>5. ~mstart.faulted => Faultless'
    BY <1>1, <2>1, <2>3, <2>4, AtTheIndex
  <2>6. mtable.notnull \in SUBSET mtable.cols /\ mtable.pk \in SUBSET mtable.cols /\ mtable.cols \in SUBSET Cols
        /\ mdata.nulls \subseteq mtable.cols \ mtable.notnull /\ mdata.dups \subseteq mtable.cols \ mtable.pk
        /\ mstart.seen \subseteq mtable.cols
    BY BeforeStatement
  <2> QED BY <1>1, <1>2, <2>1, <2>2, <2>3, <2>5, <2>6, TheTableMoves
<1>5. CASE generateIndexes /\ IndexRefused /\ Goto(end) /\ UNCHANGED mtable
  <2>1. mstart'.pc = end /\ mstart'.seen = mstart.seen /\ mstart'.key = mstart.key
    BY <1>2, <1>5, GoneTo
  <2>2. mstart.faulted \/ Contradicted
    <3>1. ~mstart.faulted => FieldsIn(mschema) \subseteq mtable.cols
      BY <1>1 DEF SyncInv, Faultless, Grown
    <3>2. "a" \in FieldsIn(mschema)
      BY <1>5, BeforeStatement, SchemaFacts DEF generateIndexes
    <3> QED BY <1>5, <3>1, <3>2 DEF IndexRefused, Contradicted
  <2>3. ~mstart.faulted => IndexIsSettled'
    BY <1>1, <2>2 DEF IndexIsSettled
  <2>4. ~mstart.faulted => Faultless'
    BY <1>1, <1>2, <1>5, <2>1, <2>3, AtTheIndex
  <2> HIDE DEF end
  <2> QED BY <1>1, <1>2, <1>5, <2>2, <2>4, GoingOn
<1>6. CASE generateIndexes /\ Fault(end) /\ UNCHANGED mtable
  <2> HIDE DEF end
  <2> QED BY <1>1, <1>2, <1>6, Faulting
<1> QED BY <1>3, <1>4, <1>5, <1>6 DEF CreateIndex

LEMMA RowsAreWritten ==
    ASSUME SyncInv, NEW nulls \in SUBSET Cols, NEW dups \in SUBSET Cols, ServeRequests(nulls, dups)
    PROVE  SyncInv'
<1>1. /\ nulls \subseteq mtable.cols \ mtable.notnull /\ dups \subseteq mtable.cols \ mtable.pk
      /\ mdata' = [rows |-> TRUE, nulls |-> nulls, dups |-> dups] /\ UNCHANGED <<mdb, mschema, mtable, mstarts>>
  BY DEF ServeRequests
<1>2. mstart' \in StartRecord /\ mstart'.pc = "up" /\ mstart'.seen = mstart.seen
  BY GoneTo DEF ServeRequests, Phases
<1>3. TypeOKSync'
  BY <1>1, <1>2 DEF SyncInv, TypeOKSync, StartRecord
<1>4. Faultless'
  BY <1>2 DEF Faultless, Grown, Moving
<1> QED BY <1>1, <1>2, <1>3, <1>4 DEF SyncInv, Moving

LEMMA SyncStep == ASSUME SyncInv, [NextSync]_schemaVars PROVE SyncInv'
<1>1. CASE UNCHANGED schemaVars
  <2>1. /\ mdb' = mdb /\ mschema' = mschema /\ mtable' = mtable /\ mdata' = mdata /\ mstart' = mstart /\ mstarts' = mstarts
        /\ FieldsIn(mschema') = FieldsIn(mschema) /\ PrimaryOf(mschema') = PrimaryOf(mschema)
    BY <1>1 DEF schemaVars
  <2>2. Stuck' = Stuck /\ KeyIsSettled' = KeyIsSettled /\ Contradicted' = Contradicted /\ IndexIsSettled' = IndexIsSettled
    BY <2>1 DEF Stuck, KeyIsSettled, Contradicted, IndexIsSettled, generateIndexes
  <2>3. SyncInv => Faultless' \/ mstart.faulted
    BY <2>1, <2>2 DEF SyncInv, Faultless
  <2>4. TypeOKSync'
    BY <2>1 DEF SyncInv, TypeOKSync
  <2> QED BY <2>1, <2>2, <2>3, <2>4 DEF SyncInv
<1>2. CASE NextSync
  BY <1>2, Stops, TableIsCreated, Inspects, IsAdded, KeyIsRead, NotNullIsSet, KeyIsDropped, KeyIsAdded, IndexIsCreated,
     ColumnIsAdded, ColumnIsRelaxed, RowsAreWritten, StartsUp DEF NextSync
<1> QED BY <1>1, <1>2

LEMMA SyncSettles == SyncInv => TypeOKSync /\ StartSettles /\ GrowthIsSurvived
<1> SUFFICES ASSUME SyncInv PROVE TypeOKSync /\ StartSettles /\ GrowthIsSurvived
  OBVIOUS
<1>1. GrowthIsSurvived
  BY DEF SyncInv, GrowthIsSurvived, AtPhase, Contradicted
<1>2. ASSUME mstart.pc = "ready", ~mstart.faulted
      PROVE  /\ FieldsIn(mschema) \subseteq mtable.cols /\ IndexIsSettled
             /\ mdb # "sqlite" => Stuck \subseteq mstart.key /\ KeyIsSettled
  BY <1>2 DEF SyncInv, Faultless, Grown
<1>3. StartSettles
  BY <1>2 DEF StartSettles, AtPhase, IndexIsSettled, Contradicted, Stuck, KeyIsSettled
<1> QED BY <1>1, <1>3 DEF SyncInv

(* The files: a document of one of them, and what was read of it.          *)
Documents == SchemaDocs \cup {PlainDoc}
WasRead == [tables |-> loadFromDirectory(ffile), rules |-> loadSchemas(ffile), first |-> loadFromFile(ffile)]
FilesInv == ffile \in Files \cup {<<PlainDoc>>} /\ fseen \in {Unread, WasRead}

LEMMA PlainDocIsPlain ==
    /\ PlainDoc.names = {"entity"} /\ PlainDoc.type = "string" /\ PlainDoc.values = "none" /\ PlainDoc.key = "no"
    /\ PlainDoc.length = "none" /\ PlainDoc.index = "none" /\ PlainDoc.stem = "other"
BY DEF PlainDoc

LEMMA DocumentParts ==
    ASSUME NEW d \in Documents
    PROVE  /\ d.type \in FieldTypes /\ d.length \in {"none", "reversed", "text"}
           /\ d.names \in {{"entity"}, {"displayName"}, {"name"}, {"entity", "name"}, {}}
           /\ d.index \in {"none", "f", "tenantId", "ghost", "empty"}
           /\ d.values \in {"none", "list", "empty", "numbers"}
           /\ d.key \in {"no", "primary", "primaryKey", "both"}
<1>1. CASE d \in SchemaDocs
  BY <1>1 DEF SchemaDocs
<1>2. CASE d = PlainDoc
  BY <1>2 DEF PlainDoc, FieldTypes
<1> QED BY <1>1, <1>2 DEF Documents

LEMMA FileParts ==
    ASSUME NEW file \in Files \cup {<<PlainDoc>>}
    PROVE  /\ \A i \in DOMAIN file : file[i] \in Documents
           /\ 1 \in DOMAIN file /\ DOMAIN file \subseteq Nat \ {0}
           /\ Len(file) = 1 => DOMAIN file = {1}
           /\ Len(file) > 1 => file[1] = PlainDoc
<1>1. CASE file \in {<<d>> : d \in SchemaDocs} \cup {<<PlainDoc>>}
  <2>1. PICK d \in Documents : file = <<d>>
    BY <1>1 DEF Documents
  <2>2. DOMAIN file = {1} /\ file[1] = d /\ Len(file) = 1
    BY <2>1
  <2> QED BY <2>2
<1>2. CASE file \in {<<PlainDoc, d, PlainDoc>> : d \in {e \in SchemaDocs : ~e.tenant /\ ~e.own}}
  <2>1. PICK d \in SchemaDocs : file = <<PlainDoc, d, PlainDoc>>
    BY <1>2
  <2>2. DOMAIN file = 1..3 /\ file[1] = PlainDoc /\ file[2] = d /\ file[3] = PlainDoc /\ Len(file) = 3
    BY <2>1
  <2> QED BY <2>2 DEF Documents
<1> QED BY <1>1, <1>2 DEF Files

(* A document without fault passes validation, and means the same to both. *)
LEMMA FaultlessIsRead ==
    ASSUME NEW d \in Documents, ~AtFault(d)
    PROVE  /\ ~parseThrows(d)
           /\ NameOf(d) # "" => validate(d)
           /\ parseJson(d).name = CrudEntity(d).name /\ parseJson(d).columns = CrudEntity(d).columns
           /\ parseJson(d).primary = CrudEntity(d).primary /\ ColumnType(parseJson(d).type) = CrudEntity(d).type
<1>1. d.type \in {"string", "datetime", "number", "enum"} /\ d.length = "none" /\ d.key # "both"
  BY DocumentParts DEF AtFault, FieldTypes
<1>2. ~parseThrows(d)
  BY <1>1 DEF AtFault, parseThrows
<1>3. KeysOf(d) = {"id"} \/ KeysOf(d) = {"f"}
  BY <1>1 DEF KeysOf
<1>4. Cardinality(parseFlags(d)) <= 1
  <2>1. Cardinality({"id"}) = 1 /\ Cardinality({"f"}) = 1
    BY FS_Singleton
  <2> QED BY <1>3, <2>1 DEF parseFlags
<1>5. validateField(d)
  BY <1>1 DEF validateField, parseType, getValidFieldTypes, AtFault
<1>6. parseJson(d).columns = {"id", "f"} \cup TenantColumn(d) /\ parseJson(d).name = <<NameOf(d), d.stem>>
      /\ parseJson(d).primary = KeysOf(d) /\ parseJson(d).type = d.type
  BY DEF parseJson, TenantColumn, parseFlags, parseType
<1>7. validateIndexes(d)
  BY <1>6, DocumentParts DEF validateIndexes, TenantColumn, AtFault
<1>8. CrudEntity(d).columns = {"id"} \cup TenantColumn(d) \cup {"f"} /\ CrudEntity(d).name = <<NameOf(d), d.stem>>
      /\ CrudEntity(d).primary = KeysOf(d) /\ CrudEntity(d).type = ColumnType(d.type)
  BY <1>1 DEF CrudEntity
<1> QED BY <1>2, <1>4, <1>5, <1>6, <1>7, <1>8 DEF validate, validateFields

LEMMA TableHasRules == ASSUME FilesInv, fseen = WasRead PROVE TablesHaveRules
<1> SUFFICES ASSUME NEW t \in loadFromDirectory(ffile), \A i \in DOMAIN ffile : ~AtFault(ffile[i])
             PROVE  \E r \in loadSchemas(ffile) : /\ r.name = t.name /\ r.columns = t.columns /\ r.primary = t.primary
                                                  /\ ColumnType(r.type) = t.type
  BY DEF TablesHaveRules, WasRead
<1>1. PICK i \in DOMAIN ffile : t = CrudEntity(ffile[i]) /\ NameOf(ffile[i]) # ""
  BY DEF loadFromDirectory, UntilThrow
<1>2. \A j \in DOMAIN ffile : ffile[j] \in Documents
  BY FileParts DEF FilesInv
<1>3. \A j \in DOMAIN ffile : ~parseThrows(ffile[j])
  BY <1>2, FaultlessIsRead
<1>4. validate(ffile[i])
  BY <1>1, <1>2, FaultlessIsRead
<1>5. ffile[i] \in UntilThrow(ffile, {j \in DOMAIN ffile : parseThrows(ffile[j])})
  BY <1>3 DEF UntilThrow
<1>6. parseJson(ffile[i]) \in loadSchemas(ffile)
  BY <1>4, <1>5 DEF loadSchemas
<1> QED BY <1>1, <1>2, <1>6, FaultlessIsRead

LEMMA OthersAreRead == ASSUME FilesInv, fseen = WasRead PROVE OthersSurvive
<1> SUFFICES ASSUME Len(ffile) > 1
             PROVE  CrudEntity(PlainDoc) \in loadFromDirectory(ffile) /\ parseJson(PlainDoc) \in loadSchemas(ffile)
  BY DEF OthersSurvive, WasRead
<1>1. 1 \in DOMAIN ffile /\ ffile[1] = PlainDoc /\ DOMAIN ffile \subseteq Nat \ {0}
  BY FileParts DEF FilesInv
<1>2. NameOf(PlainDoc) = "entity" /\ ~CrudThrows(PlainDoc) /\ ~AtFault(PlainDoc) /\ PlainDoc \in Documents
  BY PlainDocIsPlain DEF NameOf, CrudThrows, AtFault, Documents
<1>3. ~parseThrows(PlainDoc) /\ validate(PlainDoc)
  BY <1>2, FaultlessIsRead
<1>4. ASSUME NEW bad \in SUBSET DOMAIN ffile, 1 \notin bad PROVE PlainDoc \in UntilThrow(ffile, bad)
  BY <1>1, <1>4 DEF UntilThrow
<1>5. PlainDoc \in UntilThrow(ffile, {i \in DOMAIN ffile : CrudThrows(ffile[i])})
  BY <1>1, <1>2, <1>4
<1>6. PlainDoc \in UntilThrow(ffile, {i \in DOMAIN ffile : parseThrows(ffile[i])})
  BY <1>1, <1>3, <1>4
<1> QED BY <1>2, <1>3, <1>5, <1>6 DEF loadFromDirectory, loadSchemas

LEMMA FileAgrees == ASSUME FilesInv, fseen = WasRead PROVE FileAndDirectoryAgree
<1> DEFINE d == ffile[1]
<1> SUFFICES ASSUME Len(ffile) = 1, d.names # {"name"}, d.length # "text"
             PROVE  loadFromFile(ffile) = loadFromDirectory(ffile)
  BY DEF FileAndDirectoryAgree, WasRead
<1>1. DOMAIN ffile = {1} /\ d \in Documents
  BY FileParts DEF FilesInv
<1>2. CASE CrudThrows(d)
  <2>1. UntilThrow(ffile, {i \in DOMAIN ffile : CrudThrows(ffile[i])}) = {}
    BY <1>1, <1>2 DEF UntilThrow
  <2> QED BY <1>2, <2>1 DEF loadFromFile, loadFromDirectory, CrudThrows
<1>3. CASE ~CrudThrows(d)
  <2>1. UntilThrow(ffile, {i \in DOMAIN ffile : CrudThrows(ffile[i])}) = {d}
    BY <1>1, <1>3 DEF UntilThrow
  <2>2. loadFromDirectory(ffile) = IF NameOf(d) = "" THEN {} ELSE {CrudEntity(d)}
    BY <2>1 DEF loadFromDirectory
  <2>3. NameOf(d) # "name"
    BY <1>1, DocumentParts DEF NameOf
  <2>4. [CrudEntity(d) EXCEPT !.name = IF @[1] = "name" THEN <<"Name", d.stem>> ELSE @] = CrudEntity(d)
    BY <2>3 DEF CrudEntity
  <2> QED BY <1>3, <2>2, <2>4 DEF loadFromFile, CrudThrows
<1> QED BY <1>2, <1>3

LEMMA FilesStep == ASSUME FilesInv, [ReadFiles]_fileVars PROVE FilesInv'
BY DEF FilesInv, ReadFiles, fileVars, WasRead

LEMMA FilesAgree == FilesInv => TablesHaveRules /\ OthersSurvive /\ FileAndDirectoryAgree
<1>1. fseen = Unread => TablesHaveRules /\ OthersSurvive /\ FileAndDirectoryAgree
  BY DEF TablesHaveRules, OthersSurvive, FileAndDirectoryAgree
<1> QED BY <1>1, TableHasRules, OthersAreRead, FileAgrees DEF FilesInv

(* A start brings the tables in step with the schema files, whatever       *)
(* statements fail and wherever it is stopped, for any number of starts    *)
(* with any schemas; and the readers of the files agree.                   *)
THEOREM SchemasStayApplied == Spec => []SchemasAreApplied
<1> DEFINE Inv == SyncInv /\ FilesInv
<1>1. Init => Inv
  <2> SUFFICES ASSUME Init PROVE SyncInv /\ FilesInv
    OBVIOUS
  <2>1. SyncInv
    BY SyncInit DEF Init
  <2>2. FilesInv
    BY DEF Init, InitFiles, FilesInv
  <2> QED BY <2>1, <2>2
<1>2. Inv /\ [Next]_startVars => Inv'
  <2> SUFFICES ASSUME SyncInv, FilesInv, [Next]_startVars PROVE SyncInv' /\ FilesInv'
    OBVIOUS
  <2>1. [NextSync]_schemaVars /\ [ReadFiles]_fileVars
    BY DEF Next, startVars
  <2> QED BY <2>1, SyncStep, FilesStep
<1>3. Inv => SchemasAreApplied
  BY SyncSettles, FilesAgree DEF SchemasAreApplied
<1> QED BY <1>1, <1>2, <1>3, PTL DEF Spec
=============================================================================
