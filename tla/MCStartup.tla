----------------------------- MODULE MCStartup -----------------------------
(***************************************************************************)
(* What a start of the daemon reads and brings in step - schema files,     *)
(* tables, seeds, the migration registry - side by side: a behaviour picks *)
(* one part and stays with it, so the state counts add.                    *)
(***************************************************************************)
EXTENDS Seeds, SchemaSync, SchemaRegistry

VARIABLE part

startVars == <<part, seedVars, schemaVars, fileVars, registryVars>>

Parts == {"seeds", "sync", "files", "registry"}

(* The parts that do not move start in one state.                          *)
Init ==
    /\ part \in Parts
    /\ InitRegistry
    /\ IF part = "files" THEN InitFiles ELSE ffile = <<PlainDoc>> /\ fseen = Unread
    /\ InitSync /\ (part # "sync" => mdb = CHOOSE b \in SqlBackends : TRUE)
    /\ InitSeeds /\ (part # "seeds" => sdir = CHOOSE d \in SeedDocuments : TRUE)

Next ==
    /\ part' = part
    /\ \/ part = "seeds" /\ NextSeeds /\ UNCHANGED <<schemaVars, fileVars, registryVars>>
       \/ part = "sync" /\ NextSync /\ UNCHANGED <<seedVars, fileVars, registryVars>>
       \/ part = "files" /\ ReadFiles /\ UNCHANGED <<seedVars, schemaVars, registryVars>>
       \/ part = "registry" /\ NextRegistry /\ UNCHANGED <<seedVars, schemaVars, fileVars>>

Spec == Init /\ [][Next]_startVars

(* A start brings the tables in step with the schema files, but for the    *)
(* exceptions the parts name: one without a failing statement brings the   *)
(* table to the schema, no start dies of a schema that grew, a table has   *)
(* its rules in the ACL registry, a bad document costs none before it, and *)
(* a schema means the same alone and in its directory.                     *)
SchemasAreApplied ==
    /\ TypeOKSync
    /\ StartSettles
    /\ GrowthIsSurvived
    /\ TablesHaveRules
    /\ OthersSurvive
    /\ FileAndDirectoryAgree

(* Seeding and the migration queue do not undo what people did: seeding    *)
(* keeps the rows an operator changed, brings in the seeds that changed    *)
(* and completes content without changing it; a decision about a migration *)
(* is undone only by a request that overlaps another's write or finds the  *)
(* file torn, and models are generated for approved migrations alone.      *)
OperatorsAreRespected ==
    /\ [](/\ TypeOKSeeds
          /\ TypeOKRegistry)
    /\ EditsOutliveSeeding
    /\ SeedChangesArrive
    /\ ContentIsCompletedNotChanged
    /\ DecisionsStick
    /\ OnlyApprovedIsGenerated
=============================================================================
