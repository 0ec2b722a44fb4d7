----------------------------- MODULE SchemaSync -----------------------------
(***************************************************************************)
(* The tables of the SQL adapters, and below them the schema files they    *)
(* come from.                                                              *)
(*                                                                         *)
(* What a start of the daemon does to one entity's table: create it,       *)
(* add missing columns, relax NOT NULL, move the primary key, create the   *)
(* indexes.  One step per statement, each of which can fail; the daemon    *)
(* can stop between any two, and come back with another schema.            *)
(*                                                                         *)
(* Two fields; "a" may be indexed.  Of the rows only these facts count:    *)
(* are there any, and which columns hold a NULL or a duplicate.            *)
(***************************************************************************)
EXTENDS Integers, Sequences, FiniteSets

CONSTANTS SqlBackends,   \* of "sql" (Postgres and MySQL) and "sqlite"
          MaxStarts,     \* bound on starts
          StatementsFail \* do statements fail for no reason of their own

ASSUME SyncAssumption ==
    /\ SqlBackends \subseteq {"sql", "sqlite"}
    /\ MaxStarts \in Nat /\ StatementsFail \in BOOLEAN

VARIABLES mdb, mschema, mtable, mdata, mstart, mstarts

schemaVars == <<mdb, mschema, mtable, mdata, mstart, mstarts>>

Cols == {"id", "a"}
Schemas ==
    {s \in [field : [Cols -> {"absent", "required", "nullable"}], primary : Cols \cup {""},
            index : {"none", "plain", "unique"}] :
        /\ \E c \in Cols : s.field[c] # "absent"
        /\ s.primary # "" => s.field[s.primary] # "absent"
        /\ s.index # "none" => s.field["a"] # "absent"}
FieldsIn(s) == {c \in Cols : s.field[c] # "absent"}
PrimaryOf(s) == {s.primary} \ {""}

NoTable == [cols |-> {}, notnull |-> {}, pk |-> {}, index |-> "none"]
Phases == {"down", "create", "inspect", "add", "relax", "look", "notnull", "drop", "key", "index", "ready", "up", "dead"}

(* "seen", "strict" and "key" are the columns, the NOT NULL ones and the   *)
(* primary key as inspected; "faulted" that a statement has failed for no  *)
(* reason of its own.                                                      *)
Down == [pc |-> "down", seen |-> {}, strict |-> {}, key |-> {}, todo |-> {}, faulted |-> FALSE]

(* The table's columns, and the statement the migration has come to.       *)
TypeOKSync ==
    /\ mdb \in SqlBackends /\ mschema \in Schemas
    /\ mtable \in [cols : SUBSET Cols, notnull : SUBSET mtable.cols, pk : SUBSET mtable.cols,
                   index : {"none", "plain", "unique"}]
    /\ mdata \in [rows : BOOLEAN, nulls : SUBSET (mtable.cols \ mtable.notnull), dups : SUBSET (mtable.cols \ mtable.pk)]
    /\ mstart \in [pc : Phases, seen : SUBSET Cols, strict : SUBSET Cols, key : SUBSET Cols,
                   todo : SUBSET Cols, faulted : BOOLEAN]
    /\ mstarts \in 0..MaxStarts

InitSync ==
    /\ mdb \in SqlBackends /\ mschema = CHOOSE s \in Schemas : TRUE
    /\ mtable = NoTable
    /\ mdata = [rows |-> FALSE, nulls |-> {}, dups |-> {}]
    /\ mstart = Down /\ mstarts = 0

AtPhase(pc) == mstart.pc = pc
Goto(pc) == mstart' = [mstart EXCEPT !.pc = pc]
(* A statement failed: on to pc.                                           *)
Fault(pc) == StatementsFail /\ mstart' = [mstart EXCEPT !.pc = pc, !.faulted = TRUE]
TableStays == UNCHANGED <<mdb, mschema, mtable, mdata, mstarts>>
DataStays == UNCHANGED <<mdb, mschema, mdata, mstarts>>

(***************************************************************************)
(* A start                                                                 *)
(***************************************************************************)
(* With the schema of the last start or another one.                       *)
StartDaemon(schema) ==
    /\ AtPhase("down") /\ mstarts < MaxStarts
    /\ mschema' = schema
    /\ mstarts' = mstarts + 1
    /\ mstart' = [Down EXCEPT !.pc = "create"]
    /\ UNCHANGED <<mdb, mtable, mdata>>

(* The columns with their constraints, as the templates render them.       *)
generateCreateTable ==
    [cols |-> FieldsIn(mschema),
     notnull |-> {c \in FieldsIn(mschema) : mschema.field[c] = "required"} \cup PrimaryOf(mschema),
     pk |-> PrimaryOf(mschema), index |-> "none"]

(* Wrong: indexes come before the migration, as they once did.             *)
createTablesIndexFirst ==
    /\ AtPhase("create")
    /\ mtable' = IF mtable.cols = {} THEN generateCreateTable ELSE mtable
    /\ IF mschema.index # "none" /\ "a" \notin mtable'.cols /\ mdb = "sqlite" THEN Goto("dead") ELSE Goto("inspect")
    /\ DataStays

(* CREATE TABLE IF NOT EXISTS; its failure ends the start.                 *)
createTables ==
    /\ AtPhase("create")
    /\ \/ /\ mtable' = IF mtable.cols = {} THEN generateCreateTable ELSE mtable
          /\ Goto("inspect")
       \/ Fault("dead") /\ UNCHANGED mtable
    /\ DataStays

(* The live columns.  An inspection that fails ends the migration in the   *)
(* SQL adapters, and shows no columns to the SQLite adapter.               *)
Inspect ==
    /\ AtPhase("inspect")
    /\ \/ mstart' = [mstart EXCEPT !.pc = "add", !.seen = mtable.cols, !.strict = mtable.notnull,
                                   !.todo = FieldsIn(mschema) \ mtable.cols]
       \/ /\ StatementsFail
          /\ mstart' = [mstart EXCEPT !.faulted = TRUE, !.pc = IF mdb = "sqlite" THEN "add" ELSE "index",
                                      !.todo = IF mdb = "sqlite" THEN FieldsIn(mschema) ELSE {}]
    /\ TableStays

(* ALTER TABLE ADD COLUMN without constraints: NULL in every row; a column *)
(* that is there already is an error.  Errors are logged.                  *)
generateAlterAddColumn(c) ==
    /\ AtPhase("add") /\ c \in mstart.todo
    /\ \/ /\ c \notin mtable.cols
          /\ mtable' = [mtable EXCEPT !.cols = @ \cup {c}]
          /\ mdata' = [mdata EXCEPT !.nulls = IF mdata.rows THEN @ \cup {c} ELSE @]
          /\ mstart' = [mstart EXCEPT !.todo = @ \ {c}]
       \/ /\ StatementsFail \/ c \in mtable.cols
          /\ mstart' = [mstart EXCEPT !.todo = @ \ {c}, !.faulted = TRUE]
          /\ UNCHANGED <<mtable, mdata>>
    /\ UNCHANGED <<mdb, mschema, mstarts>>

(* NOT NULL columns that the schema lets be null.                          *)
Relaxable == {c \in mstart.seen \cap mstart.strict : mschema.field[c] = "nullable" /\ c # mschema.primary}

Added ==
    /\ AtPhase("add") /\ mstart.todo = {}
    /\ mstart' = IF mdb = "sqlite" THEN [mstart EXCEPT !.pc = "index"]
                 ELSE [mstart EXCEPT !.pc = "relax", !.todo = Relaxable]
    /\ TableStays

(* A column of the live primary key cannot be relaxed.                     *)
RelaxNotNull(c) ==
    /\ AtPhase("relax") /\ c \in mstart.todo
    /\ \/ c \notin mtable.pk /\ mtable' = [mtable EXCEPT !.notnull = @ \ {c}]
       \/ (StatementsFail \/ c \in mtable.pk) /\ UNCHANGED mtable
    /\ mstart' = [mstart EXCEPT !.todo = @ \ {c}, !.faulted = @ \/ (mtable' = mtable /\ c \notin mtable.pk)]
    /\ DataStays

(* The primary key is corrected when it is not the schema's and the        *)
(* schema's column was there before this start.                            *)
InspectKey(key, fault) ==
    LET wrong == mschema.primary \in mstart.seen /\ key # PrimaryOf(mschema)
    IN mstart' = [mstart EXCEPT !.key = key, !.faulted = @ \/ fault, !.pc = IF wrong THEN "notnull" ELSE "index"]

CurrentKey ==
    /\ AtPhase("relax") /\ mstart.todo = {}
    /\ \/ InspectKey(mtable.pk, FALSE)
       \/ StatementsFail /\ InspectKey({}, TRUE)
    /\ TableStays

(* Fails when a row has NULL there.                                        *)
SetNotNull ==
    /\ AtPhase("notnull")
    /\ \/ /\ mschema.primary \notin mdata.nulls
          /\ mtable' = [mtable EXCEPT !.notnull = @ \cup {mschema.primary}]
          /\ Goto("drop")
       \/ Fault("index") /\ UNCHANGED mtable
       \/ mschema.primary \in mdata.nulls /\ Goto("index") /\ UNCHANGED mtable
    /\ DataStays

(* Nothing to drop when no key was seen.                                   *)
DropKey ==
    /\ AtPhase("drop")
    /\ \/ mtable' = [mtable EXCEPT !.pk = IF mstart.key = {} THEN @ ELSE {}] /\ Goto("key")
       \/ mstart.key # {} /\ Fault("index") /\ UNCHANGED mtable
    /\ DataStays

(* Fails when there is a key, or two rows have the same value.             *)
AddKey ==
    /\ AtPhase("key")
    /\ LET refused == mtable.pk # {} \/ mschema.primary \in mdata.dups
       IN \/ ~refused /\ mtable' = [mtable EXCEPT !.pk = {mschema.primary}] /\ Goto("index")
          \/ Fault("index") /\ UNCHANGED mtable
          \/ refused /\ Goto("index") /\ UNCHANGED mtable
    /\ DataStays

(* No statement for a unique index of the primary key.                     *)
generateIndexes == mschema.index # "none" /\ (mschema.index = "unique" => mschema.primary # "a")

(* CREATE INDEX IF NOT EXISTS under a name that does not tell a unique     *)
(* index from a plain one.  SQLite ends the start on an error, the SQL     *)
(* adapters ignore it.                                                     *)
IndexRefused ==
    /\ mtable.index = "none"
    /\ "a" \notin mtable.cols \/ (mschema.index = "unique" /\ "a" \in mdata.dups)

CreateIndex ==
    /\ AtPhase("index")
    /\ \/ ~generateIndexes /\ Goto("ready") /\ UNCHANGED mtable
       \/ /\ generateIndexes /\ ~IndexRefused
          /\ mtable' = [mtable EXCEPT !.index = IF @ = "none" THEN mschema.index ELSE @]
          /\ Goto("ready")
       \/ generateIndexes /\ IndexRefused /\ Goto(IF mdb = "sqlite" THEN "dead" ELSE "ready") /\ UNCHANGED mtable
       \/ generateIndexes /\ Fault(IF mdb = "sqlite" THEN "dead" ELSE "ready") /\ UNCHANGED mtable
    /\ DataStays

(***************************************************************************)
(* Around it                                                               *)
(***************************************************************************)
(* Requests write any rows that the table accepts.                         *)
ServeRequests(nulls, dups) ==
    /\ mstart.pc \in {"ready", "up"} /\ (AtPhase("up") => mdata.rows)
    /\ nulls \subseteq mtable.cols \ mtable.notnull
    /\ dups \subseteq mtable.cols \ (mtable.pk \cup IF mtable.index = "unique" THEN {"a"} ELSE {})
    /\ mdata' = [rows |-> TRUE, nulls |-> nulls, dups |-> dups]
    /\ Goto("up")
    /\ UNCHANGED <<mdb, mschema, mtable, mstarts>>

(* Stopped, or killed in the middle of a start.                            *)
StopDaemon ==
    /\ ~AtPhase("down")
    /\ mstart' = Down
    /\ TableStays

NextSync ==
    \/ StopDaemon \/ createTables \/ Inspect \/ Added \/ CurrentKey \/ SetNotNull \/ DropKey \/ AddKey \/ CreateIndex
    \/ \E c \in Cols : generateAlterAddColumn(c) \/ RelaxNotNull(c)
    \/ \E nulls, dups \in SUBSET Cols : ServeRequests(nulls, dups)
    \/ \E s \in Schemas : StartDaemon(s)

SpecSync == InitSync /\ [][NextSync]_schemaVars

(***************************************************************************)
(* Properties                                                              *)
(***************************************************************************)
(* A start in which no statement failed by accident brings the table to    *)
(* the schema, whatever earlier schemas, failures and half-done starts     *)
(* left: the fields are columns, the index exists, what may be null can be *)
(* (except in SQLite, and in a key that is only moving away now), and the  *)
(* primary key is the schema's, unless rows stand against it, the column   *)
(* is new, or the adapter is SQLite's, which never moves a key.            *)
StartSettles ==
    AtPhase("ready") /\ ~mstart.faulted =>
        /\ FieldsIn(mschema) \subseteq mtable.cols
        /\ generateIndexes => mtable.index # "none" \/ (mschema.index = "unique" /\ "a" \in mdata.dups)
        /\ mdb # "sqlite" =>
              /\ \A c \in FieldsIn(mschema) \ PrimaryOf(mschema) :
                    mschema.field[c] = "nullable" /\ c \in mtable.notnull => c \in mstart.key
              /\ mschema.primary # "" =>
                    \/ mtable.pk = {mschema.primary}
                    \/ mschema.primary \in mdata.nulls \cup mdata.dups
                    \/ mschema.primary \notin mstart.seen

(* sqlite_adapter_schema.cpp:123-130: a start does not die of a schema     *)
(* that grew: only of a failing statement or of a unique index that the    *)
(* rows contradict.                                                        *)
GrowthIsSurvived ==
    AtPhase("dead") => mstart.faulted \/ (mschema.index = "unique" /\ "a" \in mdata.dups)

-----------------------------------------------------------------------------
(***************************************************************************)
(* The two readers of the schema directory: SchemaLoader gives the SQL     *)
(* adapters their tables, EntitySchemaLoader gives the ACL registry its    *)
(* rules.  What one accepts the other should not lose.                     *)
(*                                                                         *)
(* A file is a sequence of entity documents.  A document has one field "f" *)
(* besides "id"; the field's type is written in either case.               *)
(***************************************************************************)
VARIABLES ffile, fseen
fileVars == <<ffile, fseen>>

FieldTypes == {"string", "datetime", "number", "relationship", "object", "enum"}
SchemaDocs ==
    [stem : {"thing"}, names : {{"entity"}, {"displayName"}, {"name"}, {"entity", "name"}, {}},
     type : FieldTypes, upper : BOOLEAN, values : {"none", "list", "empty", "numbers"},
     key : {"no", "primary", "primaryKey", "both"}, length : {"none", "reversed", "text"},
     tenant : BOOLEAN, own : BOOLEAN, index : {"none", "f", "tenantId", "ghost", "empty"}]
PlainDoc ==
    [stem |-> "other", names |-> {"entity"}, type |-> "string", upper |-> FALSE, values |-> "none", key |-> "no",
     length |-> "none", tenant |-> FALSE, own |-> FALSE, index |-> "none"]
Files == {<<d>> : d \in SchemaDocs} \cup {<<PlainDoc, d, PlainDoc>> : d \in {e \in SchemaDocs : ~e.tenant /\ ~e.own}}

(***************************************************************************)
(* SchemaLoader::loadFromDirectory                                         *)
(***************************************************************************)
(* entity, else displayName, else name.                                    *)
NameOf(d) ==
    IF "entity" \in d.names THEN "entity" ELSE IF "displayName" \in d.names THEN "displayName"
    ELSE IF "name" \in d.names THEN "name" ELSE ""

(* A list of values that are not strings throws, whatever the type.        *)
CrudThrows(d) == NameOf(d) # "" /\ d.type # "relationship" /\ d.values = "numbers"

ColumnType(t) == IF t \in {"datetime", "number"} THEN "bigint" ELSE t

(* The key may be spelled two ways; "both" makes it a second one.          *)
KeysOf(d) == IF d.key = "no" THEN {"id"} ELSE IF d.key = "both" THEN {"id", "f"} ELSE {"f"}

(* The column that "tenantId": true implies, or the field's own.           *)
TenantColumn(d) == IF d.tenant \/ d.own THEN {"tenantId"} ELSE {}

CrudEntity(d) ==
    [name |-> <<NameOf(d), d.stem>>,
     columns |-> {"id"} \cup TenantColumn(d) \cup (IF d.type = "relationship" THEN {} ELSE {"f"}),
     type |-> ColumnType(d.type),
     primary |-> IF d.type = "relationship" THEN KeysOf(d) \ {"f"} ELSE KeysOf(d)]

(* Documents from the one that throws on are lost, those before it kept.   *)
UntilThrow(file, bad) == {file[i] : i \in {i \in DOMAIN file : \A j \in bad : i < j}}

loadFromDirectory(file) ==
    {CrudEntity(d) : d \in {e \in UntilThrow(file, {i \in DOMAIN file : CrudThrows(file[i])}) : NameOf(e) # ""}}

(***************************************************************************)
(* EntitySchemaLoader::loadSchemas                                         *)
(***************************************************************************)
(* Lengths must be numbers here; values only matter to enums.              *)
parseThrows(d) == d.length = "text" \/ (d.type = "enum" /\ d.values = "numbers")

(* Types are compared in lower case.                                       *)
parseType(d) == d.type

parseFlags(d) == KeysOf(d)

parseJson(d) ==
    [name |-> <<NameOf(d), d.stem>>, columns |-> {"id", "f"} \cup IF d.tenant \/ d.own THEN {"tenantId"} ELSE {},
     type |-> parseType(d), primary |-> parseFlags(d)]

getValidFieldTypes == {"string", "datetime", "number", "enum"}

validateField(d) ==
    /\ parseType(d) \in getValidFieldTypes
    /\ d.type = "enum" => d.values \notin {"none", "empty"}
    /\ d.length # "reversed"
validateFields(d) == validateField(d) /\ Cardinality(parseFlags(d)) <= 1
validateIndexes(d) == d.index = "none" \/ (d.index # "empty" /\ d.index \in parseJson(d).columns)
validate(d) == NameOf(d) # "" /\ validateFields(d) /\ validateIndexes(d)

loadSchemas(file) ==
    {parseJson(d) : d \in {e \in UntilThrow(file, {i \in DOMAIN file : parseThrows(file[i])}) : validate(e)}}

(* SchemaLoader::loadFromFile: the first document only; a bare name gets a *)
(* capital, and lengths and values that do not parse lose the file.        *)
loadFromFile(file) ==
    LET d == file[1]
    IN IF NameOf(d) = "" \/ (d.type # "relationship" /\ (d.length = "text" \/ d.values = "numbers")) THEN {}
       ELSE {[CrudEntity(d) EXCEPT !.name = IF @[1] = "name" THEN <<"Name", d.stem>> ELSE @]}

(***************************************************************************)
(* Properties                                                              *)
(***************************************************************************)
Unread == [tables |-> {}, rules |-> {}, first |-> {}]
InitFiles == ffile \in Files /\ fseen = Unread
ReadFiles ==
    /\ fseen = Unread
    /\ fseen' = [tables |-> loadFromDirectory(ffile), rules |-> loadSchemas(ffile), first |-> loadFromFile(ffile)]
    /\ UNCHANGED ffile
SpecFiles == InitFiles /\ [][ReadFiles]_fileVars

(* The schema itself is at fault: what only the ACL loader checks.         *)
AtFault(d) ==
    \/ d.type \in {"relationship", "object"}
    \/ d.type = "enum" /\ d.values \in {"none", "empty", "numbers"}
    \/ d.length # "none"
    \/ d.key = "both"
    \/ d.index \in {"ghost", "empty"}
    \/ d.index = "tenantId" /\ ~d.tenant /\ ~d.own

(* entity_loader.cpp:104-138: an entity that gets a table is not missing   *)
(* from the ACL registry, and the registry has its columns and key, unless *)
(* the schema is one that validation rejects or that comes in a file after *)
(* a document that cannot be read.                                         *)
TablesHaveRules ==
    fseen # Unread =>
        \A t \in fseen.tables :
            \/ \E r \in fseen.rules :
                  /\ r.name = t.name /\ r.columns = t.columns /\ r.primary = t.primary
                  /\ ColumnType(r.type) = t.type
            \/ \E i \in DOMAIN ffile : AtFault(ffile[i])

(* A document that cannot be read costs neither loader the documents       *)
(* before it in the same file, and one that is merely rejected none.       *)
OthersSurvive ==
    fseen # Unread /\ Len(ffile) > 1 =>
        CrudEntity(PlainDoc) \in fseen.tables /\ parseJson(PlainDoc) \in fseen.rules

(* The two readers of the adapters agree on a file of one document, except *)
(* for a bare name and lengths, which only one of them reads.              *)
FileAndDirectoryAgree ==
    fseen # Unread /\ Len(ffile) = 1 =>
        \/ fseen.first = fseen.tables
        \/ ffile[1].names = {"name"} \/ ffile[1].length = "text"
=============================================================================
