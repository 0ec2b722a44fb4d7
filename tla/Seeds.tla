------------------------------- MODULE Seeds --------------------------------
(***************************************************************************)
(* Seeding at start-up and through POST /admin/seed: every document of the *)
(* seed directory is created record by record; records of bootstrap        *)
(* documents are reconciled when their fingerprint says that the seed file *)
(* changed since it was last applied.                                      *)
(*                                                                         *)
(* Documents share nothing, so the directory holds one: a bootstrap one    *)
(* ("u"), a bootstrap one that gets the current time ("t"), or ordinary    *)
(* content with skipIfExists ("g", "h").  A seed file has two contents it  *)
(* can be edited between.                                                  *)
(***************************************************************************)
EXTENDS Integers, Sequences, FiniteSets

CONSTANTS Seeders,       \* threads that may be seeding
          MaxSeedings,   \* bound on seedings started
          MaxMeddling,   \* bound on edits by operators, of rows and of files
          SeedFails      \* do calls fail

ASSUME SeedAssumption == MaxSeedings \in Nat /\ MaxMeddling \in Nat /\ SeedFails \in BOOLEAN

VARIABLES sdir,      \* the records of the document
          sfile,     \* the content of the seed file
          srow,      \* the seeded rows
          sprint,    \* the rows of SeedFingerprint
          sruns,     \* what each seeder is doing
          sclock, smeddled

seedVars == <<sdir, sfile, srow, sprint, sruns, sclock, smeddled>>

SeedDocuments == {<<"u">>, <<"t">>, <<"g", "h">>}
Bootstrap == {"u", "t"}
Content == {"g", "h"}
SeedRecords == Bootstrap \cup Content

NoRow == [by |-> "nobody"]
NoPrint == [v |-> -1, at |-> -1]
IdleSeeder == [pc |-> "idle"]

(* "v" is the file content the row was last written from.                  *)
SeedRow == [by : {"seed", "operator"}, v : {0, 1}, at : 0..MaxSeedings]
SeedRun == [pc : {"document", "create", "look", "update", "print", "end"}, file : {0, 1}, at : 1..MaxSeedings,
            force : BOOLEAN, todo : {SubSeq(sdir, i, Len(sdir)) : i \in 1..(Len(sdir) + 1)},
            missing : BOOLEAN, inserted : BOOLEAN, failed : BOOLEAN, quiet : BOOLEAN, blind : SUBSET SeedRecords]

(* The rows, and where the loader stands in the file it loads.             *)
TypeOKSeeds ==
    /\ sdir \in SeedDocuments
    /\ sfile \in {0, 1}
    /\ srow \in [SeedRecords -> SeedRow \cup {NoRow}]
    /\ sprint \in [Bootstrap -> [v : {0, 1}, at : 0..MaxSeedings] \cup {NoPrint}]
    /\ sruns \in [Seeders -> SeedRun \cup {IdleSeeder}]
    /\ sclock \in 0..MaxSeedings /\ smeddled \in 0..MaxMeddling

InitSeeds ==
    /\ sdir \in SeedDocuments
    /\ sfile = 0
    /\ srow = [r \in SeedRecords |-> NoRow]
    /\ sprint = [r \in Bootstrap |-> NoPrint]
    /\ sruns = [s \in Seeders |-> IdleSeeder]
    /\ sclock = 0 /\ smeddled = 0

Running == {s \in Seeders : sruns[s].pc # "idle"}
Now(s) == Head(sruns[s].todo)
At(s, pc) == sruns[s].pc = pc
Present(r) == srow[r] # NoRow

(* Seedings in progress that something else has interfered with.           *)
Disturbed(runs) == [s \in Seeders |-> IF runs[s].pc = "idle" THEN runs[s] ELSE [runs[s] EXCEPT !.quiet = FALSE]]

(***************************************************************************)
(* One seeding                                                             *)
(***************************************************************************)
(* The time is different in every seeding.                                 *)
loadSeeds(s, force) ==
    /\ At(s, "idle") /\ sclock < MaxSeedings
    /\ sclock' = sclock + 1
    /\ sruns' = [IF Running = {} THEN sruns ELSE Disturbed(sruns) EXCEPT ![s] =
                    [pc |-> "document", file |-> sfile, at |-> sclock + 1, force |-> force, todo |-> sdir, missing |-> FALSE,
                     inserted |-> FALSE, failed |-> FALSE, quiet |-> Running = {}, blind |-> {}]]
    /\ UNCHANGED <<sdir, sfile, srow, sprint, smeddled>>

(* A request may name any directory.                                       *)
DirectoryMissing(s, force) ==
    /\ At(s, "idle") /\ sclock < MaxSeedings
    /\ sclock' = sclock + 1
    /\ sruns' = [sruns EXCEPT ![s] =
                    [pc |-> "end", file |-> sfile, at |-> sclock + 1, force |-> force, todo |-> <<>>, missing |-> TRUE,
                     inserted |-> FALSE, failed |-> FALSE, quiet |-> Running = {}, blind |-> {}]]
    /\ UNCHANGED <<sdir, sfile, srow, sprint, smeddled>>

Advance(run) ==
    [run EXCEPT !.todo = Tail(@), !.pc = IF Len(run.todo) = 1 THEN "end" ELSE "create"]

SkipAll(run) == [run EXCEPT !.todo = <<>>, !.pc = "end"]

(* The file cannot be read or parsed.                                      *)
FileUnreadable(s) ==
    /\ SeedFails /\ At(s, "document")
    /\ sruns' = [sruns EXCEPT ![s] = [SkipAll(@) EXCEPT !.failed = TRUE]]
    /\ UNCHANGED <<sdir, sfile, srow, sprint, sclock, smeddled>>

(* Ordinary content is skipped when any row of its entity exists; a list   *)
(* that fails does not skip.                                               *)
StartDocument(s) ==
    /\ At(s, "document")
    /\ LET asks == Now(s) \in Content /\ ~sruns[s].force
       IN \/ /\ asks /\ \E r \in Content : Present(r)
             /\ sruns' = [sruns EXCEPT ![s] = SkipAll(@)]
          \/ /\ asks => SeedFails \/ \A r \in Content : ~Present(r)
             /\ sruns' = [sruns EXCEPT ![s].pc = "create"]
    /\ UNCHANGED <<sdir, sfile, srow, sprint, sclock, smeddled>>

(* Zero timestamps of the "t" document become the current time, before the *)
(* record is written and fingerprinted.                                    *)
applyCurrentTimestamps(r, s) == IF r = "t" THEN sruns[s].at ELSE 0

Written(r, s) == [by |-> "seed", v |-> sruns[s].file, at |-> applyCurrentTimestamps(r, s)]
fingerprintOf(r, s) == [v |-> sruns[s].file, at |-> applyCurrentTimestamps(r, s)]

(* createEntity: inserted, or a conflict, which only a bootstrap record    *)
(* looks into.                                                             *)
CreateRecord(s) ==
    /\ At(s, "create")
    /\ LET r == Now(s)
       IN \/ /\ ~Present(r)
             /\ srow' = [srow EXCEPT ![r] = Written(r, s)]
             /\ sruns' = [sruns EXCEPT ![s] = [IF r \in Bootstrap THEN [@ EXCEPT !.pc = "print"] ELSE Advance(@)
                                              EXCEPT !.inserted = TRUE]]
          \/ /\ Present(r)
             /\ sruns' = [sruns EXCEPT ![s] = IF r \in Bootstrap THEN [@ EXCEPT !.pc = "look"] ELSE Advance(@)]
             /\ UNCHANGED srow
    /\ UNCHANGED <<sdir, sfile, sprint, sclock, smeddled>>

(* Any other error of createEntity, or of updateEntity, fails the record.  *)
RecordFails(s) ==
    /\ sruns[s].pc \in {"create", "update"}
    /\ SeedFails \/ (At(s, "update") /\ ~Present(Now(s)))
    /\ sruns' = [sruns EXCEPT ![s] = [Advance(@) EXCEPT !.failed = TRUE]]
    /\ UNCHANGED <<sdir, sfile, srow, sprint, sclock, smeddled>>

(* Wrong: a record that was ever applied is left alone.                    *)
needsReconcileOnce(r, s) == sprint[r] = NoPrint

(* No fingerprint, or another one than the record's now.                   *)
bootstrapNeedsReconcile(r, s) == sprint[r] # fingerprintOf(r, s)

LookUp(s) ==
    /\ At(s, "look")
    /\ sruns' = [sruns EXCEPT ![s] = IF bootstrapNeedsReconcile(Now(s), s)
                                     THEN [@ EXCEPT !.pc = "update"] ELSE Advance(@)]
    /\ UNCHANGED <<sdir, sfile, srow, sprint, sclock, smeddled>>

(* A fingerprint that cannot be read counts as none.                       *)
LookUpFails(s) ==
    /\ SeedFails /\ At(s, "look")
    /\ sruns' = [sruns EXCEPT ![s].pc = "update", ![s].blind = @ \cup {Now(s)}]
    /\ UNCHANGED <<sdir, sfile, srow, sprint, sclock, smeddled>>

Reconcile(s) ==
    /\ At(s, "update") /\ Present(Now(s))
    /\ srow' = [srow EXCEPT ![Now(s)] = Written(Now(s), s)]
    /\ sruns' = [sruns EXCEPT ![s].pc = "print"]
    /\ UNCHANGED <<sdir, sfile, sprint, sclock, smeddled>>

(* Created, or updated where it exists.                                    *)
recordBootstrapFingerprint(s) ==
    /\ At(s, "print")
    /\ sprint' = [sprint EXCEPT ![Now(s)] = fingerprintOf(Now(s), s)]
    /\ sruns' = [sruns EXCEPT ![s] = Advance(@)]
    /\ UNCHANGED <<sdir, sfile, srow, sclock, smeddled>>

(* Only logged.                                                            *)
FingerprintFails(s) ==
    /\ SeedFails /\ At(s, "print")
    /\ sruns' = [sruns EXCEPT ![s] = Advance(@)]
    /\ UNCHANGED <<sdir, sfile, srow, sprint, sclock, smeddled>>

(* What POST /admin/seed is answered.                                      *)
handleSeed(run) == [success |-> ~run.failed /\ ~run.missing,
                    status |-> IF run.failed /\ ~run.inserted THEN 500 ELSE 200]

EndSeeding(s) ==
    /\ At(s, "end")
    /\ sruns' = [sruns EXCEPT ![s] = IdleSeeder]
    /\ UNCHANGED <<sdir, sfile, srow, sprint, sclock, smeddled>>

(***************************************************************************)
(* Everybody else                                                          *)
(***************************************************************************)
Meddle == smeddled < MaxMeddling /\ smeddled' = smeddled + 1

(* A write path of the running daemon, such as POST /admin/credentials.    *)
OperatorEdits(r) ==
    /\ Meddle /\ Present(r)
    /\ srow' = [srow EXCEPT ![r].by = "operator"]
    /\ UNCHANGED <<sdir, sfile, sprint, sruns, sclock>>

OperatorDeletes(r) ==
    /\ Meddle /\ Present(r)
    /\ srow' = [srow EXCEPT ![r] = NoRow]
    /\ sruns' = Disturbed(sruns)
    /\ UNCHANGED <<sdir, sfile, sprint, sclock>>

SeedFileChanges ==
    /\ Meddle
    /\ sfile' = 1 - sfile
    /\ UNCHANGED <<sdir, srow, sprint, sruns, sclock>>

(* The daemon stops in the middle of a seeding.                            *)
SeederDies ==
    /\ Running # {}
    /\ sruns' = [s \in Seeders |-> IdleSeeder]
    /\ UNCHANGED <<sdir, sfile, srow, sprint, sclock, smeddled>>

SeedStep(s) ==
    \/ FileUnreadable(s) \/ StartDocument(s) \/ CreateRecord(s) \/ RecordFails(s) \/ LookUp(s) \/ LookUpFails(s)
    \/ Reconcile(s) \/ recordBootstrapFingerprint(s) \/ FingerprintFails(s) \/ EndSeeding(s)

NextSeeds ==
    \/ \E s \in Seeders : SeedStep(s) \/ \E force \in BOOLEAN : loadSeeds(s, force) \/ DirectoryMissing(s, force)
    \/ \E r \in SeedRecords : OperatorEdits(r) \/ OperatorDeletes(r)
    \/ SeedFileChanges \/ SeederDies

SpecSeeds == InitSeeds /\ [][NextSeeds]_seedVars

(***************************************************************************)
(* Properties                                                              *)
(***************************************************************************)
(* The fingerprint is of the content that the row was written from.        *)
Recorded(r) == Present(r) /\ sprint[r].v = srow[r].v

(* Seeding s does not overwrite what an operator made of row r, when r was *)
(* written from the same file content before and that was recorded.        *)
Respects(s, r) ==
    Reconcile(s) /\ Now(s) = r /\ srow[r].by = "operator" /\ sruns[s].quiet /\ Recorded(r)
      => srow[r].v # sruns[s].file \/ r \in sruns[s].blind

(* seed_loader_action.cpp:38-45: an operator's change of a bootstrap row   *)
(* outlives seedings as long as the seed file has not changed; what loses  *)
(* it is a fingerprint that was not recorded or cannot be read, or two     *)
(* seedings at once.  For records without current timestamps.              *)
EditsOutliveSeeding == [][\A s \in Seeders : Respects(s, "u")]_seedVars

(* A seeding that is answered with success leaves every bootstrap row      *)
(* written from the file it read, whatever was applied, edited or          *)
(* interrupted before, unless a fingerprint was lost or something          *)
(* interfered; one that failed and is not answered with 500 has brought in *)
(* a row, or found no directory (seed_route_handler.cpp:148-159).          *)
SeedChangesArrive ==
    [][\A s \in Seeders : EndSeeding(s) /\ sruns[s].quiet =>
         LET answer == handleSeed(sruns[s])
             records == {sdir[i] : i \in DOMAIN sdir}
         IN IF answer.success
            THEN \A r \in Bootstrap \cap records : Present(r) /\ (Recorded(r) => srow[r].v = sruns[s].file)
            ELSE answer.status = 200 /\ ~sruns[s].missing => \E r \in records : Present(r) /\ srow[r].v = sruns[s].file]_seedVars

(* Seeding never changes a row of ordinary content, forced or not; and a   *)
(* forced seeding answered with success completes what an interrupted      *)
(* one left out (a plain one skips the document for ever).                 *)
ContentIsCompletedNotChanged ==
    [][/\ \A r \in Content : Present(r) => srow'[r] \in {srow[r], NoRow} \/ srow'[r].by = "operator"
       /\ \A s \in Seeders : EndSeeding(s) /\ handleSeed(sruns[s]).success /\ sruns[s].quiet /\ sruns[s].force =>
             \A r \in {sdir[i] : i \in DOMAIN sdir} : Present(r)]_seedVars
=============================================================================
