----------------------------- MODULE RowWriting -----------------------------
(***************************************************************************)
(* Rows on their way into a table and back.  A statement's columns and its *)
(* values are made by separate loops over the schema: holes are numbered   *)
(* in Postgres, counted from the left elsewhere.  A value becomes text, a  *)
(* column of a type, text again and a value again.                         *)
(*                                                                         *)
(* The value of a field is named after it.  Text is a model of text: what  *)
(* the conversions tell apart.                                             *)
(***************************************************************************)
EXTENDS Integers, Sequences, FiniteSets, SequencesExt

CONSTANT Columns       \* the fields of an entity

ASSUME ColumnsAssumption == IsFiniteSet(Columns) /\ {"id", "createdAt"} \subseteq Columns

VARIABLES wcase, wout
writeVars == <<wcase, wout>>

Undone == [done |-> FALSE]

(***************************************************************************)
(* Statements                                                              *)
(***************************************************************************)
Orders == {s \in [1..Cardinality(Columns) -> Columns] : \A i, j \in DOMAIN s : i # j => s[i] # s[j]}
IdForms == {"text", "empty", "number"}      \* what the caller gives for an id

StatementCases ==
    LET cases(kinds, filters, forms) ==
          [kind : kinds, backend : {"postgres", "mysql", "sqlite"}, schema : Orders, data : SUBSET Columns,
           filter : filters, idForm : forms]
    IN cases({"insert"}, {{}}, IdForms) \cup cases({"update"}, {{}}, {"text"})
       \cup cases({"updateMany"}, SUBSET Columns, {"text"})

Given(f) == [of |-> "data", field |-> f]
Wanted(f) == [of |-> "filter", field |-> f]
RowId == [of |-> "route", field |-> "id"]

(* Holes from first on, one per column.                                    *)
Holed(cols, first) == [i \in DOMAIN cols |-> [col |-> cols[i], hole |-> first + i - 1]]
Statement(text, params) == [done |-> TRUE, set |-> text.set, where |-> text.where, params |-> params]
NoStatement == [done |-> TRUE, set |-> <<>>, where |-> <<>>, params |-> <<>>]

(* The loop over columns that passes by those outside a set.               *)
Picked(cols, names) ==
    LET kept[n \in 0..Len(cols)] ==
          IF n = 0 THEN <<>> ELSE IF cols[n] \in names THEN Append(kept[n - 1], cols[n]) ELSE kept[n - 1]
    IN kept[Len(cols)]

Sent(c) == Picked(c.schema, c.data)
Mutable(c) == Picked(Sent(c), Columns \ {"id", "createdAt"})
UsableId(c) == "id" \in c.data /\ c.idForm = "text"
(* The keys of a JSON object, which come in an order of their own.         *)
KeyOrder == CHOOSE s \in Orders : TRUE
InOrder(filter) == Picked(KeyOrder, filter)
GivenAll(cols) == [i \in DOMAIN cols |-> Given(cols[i])]
WantedAll(cols) == [i \in DOMAIN cols |-> Wanted(cols[i])]
IdAt(hole) == <<[col |-> "id", hole |-> hole]>>
Text(set, where) == [set |-> set, where |-> where]

(* SqlAdapter: the columns of an INSERT, and of an UPDATE with $1 its id.  *)
buildInsertSql(c) ==
    Text(Holed(Picked(Sent(c), {f \in Columns : f # "createdAt" /\ (f # "id" \/ UsableId(c))}), 1), <<>>)
buildUpdateSql(c) == Text(Holed(Mutable(c), 2), IdAt(1))

(* SqlAdapter's values for both, with an id put first or none.             *)
jsonToParams(c, prependId) ==
    prependId \o GivenAll(Picked(Sent(c), {f \in Columns :
        f # "createdAt" /\ (f # "id" \/ (prependId = <<>> /\ UsableId(c)))}))

SqlUpdateMany(c) ==
    LET keys == InOrder(c.filter) IN
    Statement(Text(Holed(Sent(c), 1), Holed(keys, Len(Sent(c)) + 1)), GivenAll(Sent(c)) \o WantedAll(keys))

(* MySQL counts holes from the left, so the id comes last.                 *)
MySqlCreate(c) == Statement(Text(Holed(Sent(c), 1), <<>>), GivenAll(Sent(c)))
MySqlUpdate(c) ==
    Statement(Text(Holed(Mutable(c), 1), IdAt(Len(Mutable(c)) + 1)), GivenAll(Mutable(c)) \o <<RowId>>)

(* SQLite: the texts of SQLiteQueryBuilder.                                *)
buildInsertQuery(c) == Text(Holed(Sent(c), 1), <<>>)
buildUpdateQuery(c) == Text(Holed(Mutable(c), 1), IdAt(Len(Mutable(c)) + 1))
buildUpdateManyQuery(c) == Text(Holed(Sent(c), 1), Holed(InOrder(c.filter), Len(Sent(c)) + 1))

(* SQLite: the values of SQLiteTypeConverter.                              *)
jsonToValues(c) == GivenAll(Sent(c))

(* Wrong: the id first, as in Postgres.                                    *)
buildUpdateParamsIdFirst(c) == <<RowId>> \o GivenAll(Mutable(c))

buildUpdateParams(c) == GivenAll(Mutable(c)) \o <<RowId>>
buildUpdateManyParams(c) == GivenAll(Sent(c)) \o WantedAll(InOrder(c.filter))

StatementOf(c) ==
    CASE c.backend = "postgres" /\ c.kind = "insert" -> Statement(buildInsertSql(c), jsonToParams(c, <<>>))
      [] c.backend = "postgres" /\ c.kind = "update" -> Statement(buildUpdateSql(c), jsonToParams(c, <<RowId>>))
      [] c.backend = "mysql" /\ c.kind = "insert" -> MySqlCreate(c)
      [] c.backend = "mysql" /\ c.kind = "update" -> MySqlUpdate(c)
      [] c.backend = "sqlite" /\ c.kind = "insert" -> Statement(buildInsertQuery(c), jsonToValues(c))
      [] c.backend = "sqlite" /\ c.kind = "update" -> Statement(buildUpdateQuery(c), buildUpdateParams(c))
      [] c.backend = "sqlite" /\ c.kind = "updateMany" -> Statement(buildUpdateManyQuery(c), buildUpdateManyParams(c))
      [] OTHER -> SqlUpdateMany(c)

(* An update without columns is refused before it is sent.                 *)
WriteStatement ==
    /\ wcase.kind \in {"insert", "update", "updateMany"} /\ wout = Undone
    /\ wout' = IF wcase.kind # "insert" /\ StatementOf(wcase).set = <<>> THEN NoStatement ELSE StatementOf(wcase)
    /\ UNCHANGED wcase

(***************************************************************************)
(* Values                                                                  *)
(***************************************************************************)
JNull == [k |-> "null", t |-> ""]
Bool(b) == [k |-> "bool", t |-> IF b THEN "true" ELSE "false"]
Num(n) == [k |-> "int", t |-> n]
Str(t) == [k |-> "str", t |-> t]
Obj == [k |-> "obj", t |-> "{}"]
Half == [k |-> "frac", t |-> "1.5"]
Values == {JNull, Bool(TRUE), Bool(FALSE), Num("0"), Num("1"), Half, Obj, Str(""), Str("x"), Str("1"), Str("true"), Str("{}")}

(* A field's type, whether it may be null, and its default, "" for none.   *)
FieldKinds ==
    {f \in [type : {"string", "boolean", "number", "integer", "json"}, required : BOOLEAN, default : {"", "1"}] :
        f.default # "" => ~f.required /\ f.type # "json"}
ValueCases == [kind : {"value"}, backend : {"postgres", "sqlite"}, field : FieldKinds, value : Values]

DbNull == "NULL"
Failed == [k |-> "failed", t |-> ""]

(* SQLiteTypeConverter::jsonValueToString, with a marker for null.         *)
jsonValueToString(v) ==
    CASE v = JNull -> DbNull
      [] v.k = "bool" -> IF v.t = "true" THEN "1" ELSE "0"
      [] v.k = "frac" -> "1"
      [] OTHER -> v.t
(* SqlAdapter's: null is the text for nothing, which execParams binds as   *)
(* null.                                                                   *)
SqlText(v) == IF v.k = "frac" THEN "1" ELSE v.t
execParams(t) == IF t = "" THEN DbNull ELSE t

(* What a column makes of a text: external, the databases' own.            *)
BooleanTexts == {"true", "1", "false", "0"}
Store(backend, f, t) ==
    IF t = DbNull THEN IF f.required THEN Failed.k ELSE DbNull
    ELSE IF backend = "sqlite" THEN t
    ELSE CASE f.type = "boolean" -> IF t \notin BooleanTexts THEN Failed.k
                                    ELSE IF t \in {"true", "1"} THEN "t" ELSE "f"
           [] f.type \in {"number", "integer"} -> IF t \in {"0", "1"} THEN t ELSE Failed.k
           [] f.type = "json" -> IF t = "x" THEN Failed.k ELSE t
           [] OTHER -> t

decodeJsonColumn(t) ==
    CASE t \in {"0", "1"} -> Num(t)
      [] t \in {"true", "false"} -> Bool(t = "true")
      [] t = "{}" -> Obj
      [] OTHER -> Str(t)

(* buildFieldList with coalesceDefault, then rowToJson; a missing value is *)
(* read as the text for nothing.                                           *)
Coalesced(f, t) ==
    IF t # DbNull \/ f.default = "" \/ f.required THEN t
    ELSE IF f.type = "boolean" THEN "t" ELSE f.default
SqlRead(f, stored) ==
    LET t == IF Coalesced(f, stored) = DbNull THEN "" ELSE Coalesced(f, stored)
    IN IF f.type = "boolean" THEN Bool(t \in {"1", "t", "true"})
       ELSE IF f.type \in {"number", "integer"} THEN IF t = "" THEN JNull ELSE Num(t)
       ELSE IF f.type = "json" /\ t # "" THEN decodeJsonColumn(t)
       ELSE IF t # "" THEN Str(t)
       ELSE IF f.default # "" /\ ~f.required THEN Str(f.default)
       ELSE IF f.required THEN Str("")
       ELSE JNull

(* SQLite reads a number out of any text, and knows no type "integer".     *)
columnToJson(f, stored) ==
    IF stored = DbNull THEN JNull
    ELSE CASE f.type = "boolean" -> Bool(stored = "1")
           [] f.type = "number" -> Num(IF stored \in {"0", "1"} THEN stored ELSE "0")
           [] f.type = "json" -> decodeJsonColumn(stored)
           [] OTHER -> Str(stored)

(* A value written, and read back.                                         *)
Through(backend, f, v) ==
    LET stored == Store(backend, f, IF backend = "sqlite" THEN jsonValueToString(v) ELSE execParams(SqlText(v)))
    IN IF stored = Failed.k THEN Failed
       ELSE IF backend = "sqlite" THEN columnToJson(f, stored) ELSE SqlRead(f, stored)

WriteAndRead ==
    /\ wcase.kind = "value" /\ wout = Undone
    /\ wout' = [done |-> TRUE, first |-> Through(wcase.backend, wcase.field, wcase.value)]
    /\ UNCHANGED wcase

(* What was read is sent back by an editor that changed something else.    *)
WriteBack ==
    /\ wcase.kind = "value" /\ wout.done /\ "again" \notin DOMAIN wout /\ wout.first # Failed
    /\ wout' = [done |-> TRUE, first |-> wout.first, again |-> Through(wcase.backend, wcase.field, wout.first)]
    /\ UNCHANGED wcase

InitWriting == wcase \in StatementCases \cup ValueCases /\ wout = Undone
NextWriting == WriteStatement \/ WriteAndRead \/ WriteBack
SpecWriting == InitWriting /\ [][NextWriting]_writeVars

-----------------------------------------------------------------------------
(* Every column gets the value sent for it and every condition the one     *)
(* asked for, whichever loop made the text and whichever the values:       *)
(* buildInsertSql and jsonToParams, buildUpdateQuery and                   *)
(* buildUpdateParams, updateMany and the forms of MySQL.                   *)
ColumnsGetTheirValues ==
    wcase.kind # "value" /\ wout.done =>
        /\ Len(wout.params) = Len(wout.set) + Len(wout.where)
        /\ \A i \in DOMAIN wout.set : wout.params[wout.set[i].hole] = Given(wout.set[i].col)
        /\ \A i \in DOMAIN wout.where :
              wout.params[wout.where[i].hole] =
                 IF wcase.kind = "update" THEN RowId ELSE Wanted(wout.where[i].col)

Suits(f, v) ==
    CASE f.type = "boolean" -> v.k = "bool"
      [] f.type = "number" -> v.k = "int"
      [] f.type = "integer" -> v.k = "int" /\ wcase.backend # "sqlite"
      [] f.type = "json" -> v.k \in {"obj", "int"}
      [] OTHER -> v.k = "str" /\ (v.t # "" \/ wcase.backend = "sqlite")

(* A value of the field's own type is read back as it was sent, from both  *)
(* databases; SQLite gives integer fields back as text, and Postgres keeps *)
(* no empty text.                                                          *)
OwnValuesSurvive ==
    wcase.kind = "value" /\ wout.done /\ Suits(wcase.field, wcase.value) => wout.first = wcase.value

(* What was read can be sent back: it is accepted and read the same again, *)
(* although a null may come back as false, a default or an empty text, and *)
(* a text in a json column as what it spells.  Only a boolean in a json    *)
(* column of SQLite goes on to change: it is written as a number.          *)
ReadingBackIsStable ==
    wcase.kind = "value" /\ wout.done /\ "again" \in DOMAIN wout =>
        \/ wout.again = wout.first
        \/ wcase.backend = "sqlite" /\ wcase.field.type = "json" /\ wout.first.k = "bool"

(* What is written is what is read, but for the exceptions the parts name: *)
(* the value of each column reaches that column of the statement, a value  *)
(* of the field's own type comes back as it was sent, and writing what was *)
(* read changes nothing.                                                   *)
ValuesSurvive ==
    /\ ColumnsGetTheirValues
    /\ OwnValuesSurvive
    /\ ReadingBackIsStable
=============================================================================
