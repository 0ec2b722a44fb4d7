---------------------------- MODULE NamedQueries ----------------------------
(***************************************************************************)
(* GET /{tenant}/{package}/query/{name}: procedures loaded from JSON files *)
(* once, and the grouped and ordered lists they ask of the SQL adapters.   *)
(*                                                                         *)
(* Clauses, binding and rows are those of ListQueries.  Aggregates are     *)
(* COUNT, SUM and MAX (MIN and AVG have the same path) under the alias     *)
(* "value"; a procedure has two parameters, p and q.                       *)
(***************************************************************************)
EXTENDS ListQueries, FiniteSetsExt

VARIABLES ncase, nout
namedVars == <<ncase, nout>>

Blank == -2              \* "", which the SQL adapters answer for null
ProcLimit == 100
NoName == ""
GivenValue == [p |-> 0, q |-> 1]
LiteralValue == 1

(***************************************************************************)
(* Procedures and requests                                                 *)
(***************************************************************************)
Where(f, o, from) == [field |-> f, op |-> o, from |-> from]
Wheres == {Where(f, o, from) : f \in {"a", "zzz", NoName}, o \in {"eq", "ne", "gt", "isnull", "in"},
                               from \in {"p", "q", "literal", "neither"}}
Count(f) == [func |-> "count", field |-> f]
Funcs == {"count", "sum", "max", "median"}
Aggregates == {<<>>} \cup {<<[func |-> g, field |-> f]>> : g \in Funcs, f \in {"*", "a", "zzz"}}
Unsorted == [field |-> NoName, dir |-> "asc"]
Sorts == {Unsorted, [field |-> "a", dir |-> "asc"], [field |-> "a", dir |-> "desc"],
          [field |-> "value", dir |-> "desc"]}

Procedure == [entity |-> "Snippet", required |-> NoName, where |-> <<>>, group |-> <<>>, select |-> <<>>,
              sort |-> Unsorted, limit |-> None]
Asking == [given |-> {"p"}, limit |-> None, page |-> None]

WhereCases ==
    {[kind |-> "query", backend |-> b, proc |-> [Procedure EXCEPT !.where = w, !.required = r, !.select = s,
                                                   !.group = IF s = <<>> THEN <<>> ELSE <<"a">>],
      ask |-> [Asking EXCEPT !.given = g]] :
        b \in {"postgres", "sqlite"}, r \in {NoName, "q"}, s \in {<<>>, <<Count("*")>>}, g \in SUBSET {"p", "q"},
        w \in {<<w>> : w \in Wheres} \cup {<<Where("a", "ne", "p"), w>> : w \in Wheres}}
ShapeCases ==
    {[kind |-> "query", backend |-> b,
      proc |-> [Procedure EXCEPT !.select = s, !.group = g, !.sort = o, !.limit = l, !.where = w],
      ask |-> [Asking EXCEPT !.limit = al, !.page = ap]] :
        b \in {"postgres", "mysql", "sqlite"}, s \in Aggregates, g \in {<<>>, <<"a">>, <<"tenantId">>, <<"zzz">>},
        o \in Sorts, l \in {None, 1, Bad}, al \in {None, Bad, 0, 2}, ap \in {None, 2},
        w \in {<<>>, <<Where("a", "gt", "q")>>}}
NamelessCases == {[kind |-> "query", backend |-> "sqlite", proc |-> [Procedure EXCEPT !.entity = NoName], ask |-> Asking]}

(* A file of the queries directory: its procedure's name, or unreadable.   *)
Files == {"x", "y", "broken"}
LoadCases == [kind : {"load"}, files : SeqOf(Files, 3)]

Unqueried == [status |-> 0]
InitNamed == ncase \in WhereCases \cup ShapeCases \cup NamelessCases \cup LoadCases /\ nout = Unqueried

(***************************************************************************)
(* QueryRouteHandler                                                       *)
(***************************************************************************)
(* The procedure of a name is the last file's that has it; a file that     *)
(* cannot be read is left out.                                             *)
loadProcedures(files) ==
    [n \in ToSet(files) \ {"broken"} |-> Max({i \in DOMAIN files : files[i] = n})]

MissingParameter(proc, ask) == proc.required # NoName /\ proc.required \notin ask.given

(* A limit that is no number in the file ends in an exception, one in the  *)
(* query string is ignored.                                                *)
Paging(proc, ask) ==
    [limit |-> IF ask.limit \notin {None, Bad} THEN ask.limit ELSE IF proc.limit = None THEN ProcLimit ELSE proc.limit,
     page |-> IF ask.page = None THEN 1 ELSE ask.page]

(* The operators that handle knows; every other one is equality.           *)
OpOf(op) == IF op \in {"ne", "lt", "lte", "gt", "gte", "like", "ilike", "isnull", "isnotnull"} THEN op ELSE "eq"

(* Bound from the query string or literal; without a value it is left out. *)
WhereConditions(proc, ask) ==
    LET used == SelectSeq(proc.where, LAMBDA w : w.field # NoName /\ w.from \in ask.given \cup {"literal"})
    IN [i \in DOMAIN used |->
          [field |-> used[i].field, op |-> OpOf(used[i].op),
           values |-> <<IF used[i].from = "literal" THEN LiteralValue ELSE GivenValue[used[i].from]>>]]

(* The tenant of the route is always a filter.                             *)
Options(proc, ask) ==
    [filter |-> [f \in {"tenantId"} |-> RouteTenant], conditions |-> WhereConditions(proc, ask), groups |-> <<>>]

FuncOf(select) ==
    [func |-> IF select.func \in {"sum", "max"} THEN select.func ELSE "count", field |-> select.field]

(***************************************************************************)
(* The database: groups, their values and orders                           *)
(***************************************************************************)
(* An unknown name is a string to SQLite, and so is its quoted "*".        *)
CellOf(row, f) == Column(row, f)
ValueOf(agg, rows) ==
    LET known == {r \in rows : CellOf(r, agg.field) # Null}
    IN IF agg.func = "count" THEN Cardinality(IF agg.field = "*" THEN rows ELSE known)
       ELSE IF known = {} THEN Null
       ELSE IF agg.func = "max" THEN Max({CellOf(r, agg.field) : r \in known})
       ELSE IF agg.field \in Fields THEN FoldSet(LAMBDA r, n : n + r[agg.field], 0, known) ELSE 0

KeyOf(row, group) == [i \in DOMAIN group |-> CellOf(row, group[i])]
GroupsOf(rows, group, agg) ==
    IF group = <<>> THEN {[key |-> <<>>, value |-> ValueOf(agg, rows)]}
    ELSE {[key |-> k, value |-> ValueOf(agg, {r \in rows : KeyOf(r, group) = k})] : k \in {KeyOf(r, group) : r \in rows}}

(* Every order that puts rank in the direction asked for; null is least.   *)
Ranked(items, rank, dir) ==
    {s \in SetToSeqs(items) :
        \A i, j \in DOMAIN s : i < j => IF dir = "asc" THEN rank[s[i]] <= rank[s[j]] ELSE rank[s[i]] >= rank[s[j]]}
Level(items) == [x \in items |-> 0]
Slice(s, limit, page) ==
    LET size == IF limit > 0 THEN limit ELSE 50
        first == IF page > 1 THEN (page - 1) * size ELSE 0
    IN SubSeq(s, first + 1, IF first + size < Len(s) THEN first + size ELSE Len(s))

(***************************************************************************)
(* SqlAdapter::list                                                        *)
(***************************************************************************)
QueryAnswer(status, items, total) == [status |-> status, items |-> items, total |-> total]
Refusal(status) == [status |-> status, items |-> <<>>, total |-> 0]

(* runQuery: values are text, and null is empty.                           *)
TextOf(x) == IF x = Null THEN Blank ELSE x
TextItem(g) == [key |-> [i \in DOMAIN g.key |-> TextOf(g.key[i])], value |-> TextOf(g.value)]

buildGroupBy(group) == ToSet(group) \subseteq Fields
buildAggregateSelect(agg) == agg.field = "*" \/ agg.field \in Fields

(* Names are validated; neither the order nor the limit is part of the     *)
(* statement.                                                              *)
SqlAggregate(listed, proc) ==
    LET agg == FuncOf(proc.select[1])
    IN IF ~buildGroupBy(proc.group) \/ ~buildAggregateSelect(agg) \/ listed.status # 200 THEN {Refusal(400)}
       ELSE IF agg.field = "*" /\ agg.func # "count" THEN {Refusal(500)}
       ELSE {QueryAnswer(200, s, Len(s)) : s \in SetToSeqs({TextItem(g) : g \in GroupsOf(listed.rows, proc.group, agg)})}

(* Without a sort the newest come first, which orders nothing here.        *)
buildOrderBy(rows, sort) ==
    IF sort.field = NoName THEN Ranked(rows, Level(rows), "desc")
    ELSE Ranked(rows, [r \in rows |-> CellOf(r, sort.field)], sort.dir)

(* Postgres puts null last where MySQL puts it first.                      *)
NullsMoved(s, backend) ==
    LET isNull(r) == r.a = Null
    IN IF backend # "postgres" \/ ~\E i \in DOMAIN s : isNull(s[i]) THEN s
       ELSE IF isNull(s[1]) THEN Tail(s) \o <<s[1]>> ELSE <<Last(s)>> \o Front(s)

SqlPlain(listed, proc, paging, backend) ==
    LET sorted == proc.sort.field # NoName
    IN IF listed.status # 200 THEN {Refusal(400)}
       ELSE IF sorted /\ proc.sort.field \notin Fields THEN {Refusal(400)}
       ELSE {QueryAnswer(200, Slice(IF sorted THEN NullsMoved(s, backend) ELSE s, paging.limit, paging.page), listed.total) :
               s \in buildOrderBy(listed.rows, proc.sort)}

(***************************************************************************)
(* SQLiteAdapter::list                                                     *)
(***************************************************************************)
(* Grouping without aggregates answers some row of each group.             *)
OneOfEach(rows, group) ==
    {s \in SUBSET rows : /\ Cardinality(s) = Cardinality({KeyOf(r, group) : r \in rows})
                         /\ {KeyOf(r, group) : r \in s} = {KeyOf(r, group) : r \in rows}}

RowOrders(rows, sort) ==
    Ranked(rows, IF sort.field \in Fields THEN [r \in rows |-> r[sort.field]] ELSE Level(rows), sort.dir)

(* Groups can be ordered by the alias and by what they are grouped by; by  *)
(* another column the order is that of some row of each.                   *)
GroupOrders(groups, group, sort) ==
    Ranked(groups, [g \in groups |-> IF sort.field = "value" THEN g.value
                                     ELSE IF group = <<sort.field>> THEN g.key[1] ELSE 0], sort.dir)

(* The count is of groups when there are groups, else of rows, and zero    *)
(* is replaced by the number of items.                                     *)
SqliteGrouped(rows, proc, paging) ==
    LET keys == {KeyOf(r, proc.group) : r \in rows}
        counted == IF proc.group = <<>> THEN Cardinality(rows) ELSE Cardinality(keys)
        page(s) == Slice(s, paging.limit, paging.page)
        total(s) == IF counted > 0 THEN counted ELSE Len(page(s))
    IN IF proc.select = <<>>
       THEN {QueryAnswer(200, page(s), total(s)) :
               s \in UNION {RowOrders(some, proc.sort) :
                              some \in IF proc.group = <<>> THEN {rows} ELSE OneOfEach(rows, proc.group)}}
       ELSE {QueryAnswer(200, page(s), total(s)) :
               s \in GroupOrders(GroupsOf(rows, proc.group, FuncOf(proc.select[1])), proc.group, proc.sort)}

(***************************************************************************)
(* handle                                                                  *)
(***************************************************************************)
handle(proc, ask, backend) ==
    LET o == Options(proc, ask)
        paging == Paging(proc, ask)
    IN IF MissingParameter(proc, ask) THEN {Refusal(400)}
       ELSE IF proc.limit = Bad THEN {Refusal(500)}
       ELSE IF proc.entity = NoName THEN {Refusal(500)}
       ELSE IF backend = "sqlite" THEN SqliteGrouped(SqliteList(o).rows, proc, paging)
       ELSE IF proc.select # <<>> THEN SqlAggregate(SqlList(o), proc)
       ELSE SqlPlain(SqlList(o), proc, paging, backend)

AnswerQuery ==
    /\ ncase.kind = "query" /\ nout = Unqueried
    /\ nout' \in handle(ncase.proc, ncase.ask, ncase.backend)
    /\ UNCHANGED ncase

LoadQueries ==
    /\ ncase.kind = "load" /\ nout = Unqueried
    /\ nout' = [status |-> 200, loaded |-> loadProcedures(ncase.files)]
    /\ UNCHANGED ncase

NextNamed == AnswerQuery \/ LoadQueries
SpecNamed == InitNamed /\ [][NextNamed]_namedVars

-----------------------------------------------------------------------------
QueryAnswered == ncase.kind = "query" /\ nout.status = 200
PlainNames == \A i \in DOMAIN ncase.proc.where : ncase.proc.where[i].field # "zzz"

(* The rows the author of the procedure means: of the tenant, meeting each *)
(* condition whose parameter was given.                                    *)
Meant ==
    {row \in Table :
        /\ row.tenantId = RouteTenant
        /\ \A i \in DOMAIN ncase.proc.where :
              LET w == ncase.proc.where[i] IN
              \/ w.field = NoName \/ w.from = "neither"
              \/ w.from \in {"p", "q"} \ ncase.ask.given
              \/ LET v == IF w.from = "literal" THEN LiteralValue ELSE GivenValue[w.from] IN
                 CASE w.op = "isnull" -> row.a = Null
                   [] w.op = "ne" -> row.a # Null /\ row.a # v
                   [] w.op = "gt" -> row.a # Null /\ row.a > v
                   [] OTHER -> row.a = v}

(* query_route_handler.cpp: without the parameters it declares required a  *)
(* procedure does not run, and otherwise its plain rows, or what its       *)
(* groups count, are of exactly the rows of the tenant in the route that   *)
(* meet every condition with a value, on each adapter.                     *)
AnswersTheProcedure ==
    QueryAnswered =>
        /\ ncase.proc.required \in ncase.ask.given \cup {NoName}
        /\ PlainNames /\ ncase.proc.select = <<>> => ToSet(nout.items) \subseteq Meant
        /\ PlainNames /\ ncase.proc.select = <<Count("*")>> /\ ncase.proc.group = <<"a">> =>
              /\ ToSet(nout.items) \subseteq
                    {[key |-> <<k>>, value |-> Cardinality({r \in Meant : TextOf(r.a) = TextOf(k)})] :
                        k \in {r.a : r \in Meant} \cup {TextOf(r.a) : r \in Meant}}
              /\ Len(nout.items) = nout.total => nout.total = Cardinality({r.a : r \in Meant})

(* A page holds what its number says: the first page of an ordered list    *)
(* leaves nothing out that belongs before one of its items, in the         *)
(* direction the procedure asks for, wherever null goes.  The grouped      *)
(* statements of SqlAdapter have no order.                                 *)
FirstPageIsTop ==
    LET sort == ncase.proc.sort IN
    QueryAnswered /\ ncase.ask.page = None /\ ncase.proc.select = <<>> /\ sort.field = "a"
      /\ (ncase.backend = "sqlite" => ncase.proc.group = <<>>) =>
        \A i \in DOMAIN nout.items : \A r \in Meant :
            LET x == nout.items[i].a IN
            r.a # Null /\ x # Null /\ (IF sort.dir = "asc" THEN r.a < x ELSE r.a > x) =>
                \E j \in 1..(i - 1) : nout.items[j] = r

(* A pager that is told a total of plain rows is told how many there are,  *)
(* also past the last page, and a page is never longer than was asked for. *)
PlainPagesAddUp ==
    QueryAnswered /\ PlainNames /\ ncase.proc.select = <<>> /\ ncase.proc.group = <<>> =>
        /\ nout.total = Cardinality(Meant)
        /\ LET limit == Paging(ncase.proc, ncase.ask).limit IN limit > 0 => Len(nout.items) <= limit

(* A file that cannot be read hides no procedure of another file, whatever *)
(* the order in which the directory is read.                               *)
BrokenFileHidesNone ==
    ncase.kind = "load" /\ nout # Unqueried =>
        \A i \in DOMAIN ncase.files : ncase.files[i] # "broken" =>
            /\ ncase.files[i] \in DOMAIN nout.loaded
            /\ ncase.files[nout.loaded[ncase.files[i]]] = ncase.files[i]

(* A list or a named query returns rows of the route's tenant that meet    *)
(* the conditions of the request, each value bound to its own column; the  *)
(* page of an offset holds the row at that offset, a first page the top    *)
(* rows, totals are those of the rows meant, and a broken procedure file   *)
(* hides no other. The parts name the exceptions.                          *)
QueriesAnswerTheRequest ==
    /\ TenantAlwaysFilters
    /\ RowsMeetFilter
    /\ ValuesReachTheirColumns
    /\ PageHoldsTheOffset
    /\ AnswersTheProcedure
    /\ FirstPageIsTop
    /\ PlainPagesAddUp
    /\ BrokenFileHidesNone
=============================================================================
