---------------------------- MODULE ListQueries -----------------------------
(***************************************************************************)
(* GET /{tenant}/{package}/{entity} with a query string: what the handler  *)
(* makes of the parameters, the WHERE clause and the bound values each     *)
(* adapter builds from them, and the rows the statement then selects.      *)
(*                                                                         *)
(* A clause is a sequence of alternatives, an alternative has holes in     *)
(* text order, and the values are bound by position.  One column "a" and   *)
(* the tenant stand for the fields; a pattern has no wildcards.  Names are *)
(* the caller's: columns, a word that is no column, and a text that is no  *)
(* word at all, which the SQLite builder still puts between quotes as it   *)
(* is.  What such a statement means depends on the text, so the rows it    *)
(* selects are left open.                                                  *)
(***************************************************************************)
EXTENDS Integers, Sequences, FiniteSets, SequencesExt

CONSTANTS IntMax,        \* the largest int
          DefaultLimit   \* of ListOptions

ASSUME IntAssumption == IntMax \in Nat /\ DefaultLimit \in 1..IntMax

VARIABLES lreq, lans
listVars == <<lreq, lans>>

Null == -1
Literal == 2             \* an unknown name in quotes is a string to SQLite
None == -9               \* a parameter that is absent
Bad == -8                \* one that is not a number
Fields == {"a", "tenantId"}
NotAName == "not a name" \* a text quoteId does not make an identifier of
ManyOps == {"in", "notin", "between"}
NullOps == {"isnull", "isnotnull"}
Ops == {"ne", "lt", "lte", "gt", "gte", "like", "ilike"} \cup ManyOps \cup NullOps
Table == [a : {Null, 0, 1}, tenantId : {0, 1}]
RouteTenant == 0

(***************************************************************************)
(* Requests                                                                *)
(***************************************************************************)
Param(f, o, v) == [field |-> f, op |-> o, value |-> v]
ValuesOf(o) ==
    IF o \in ManyOps THEN {<<>>, <<0>>, <<1>>, <<0, 1>>, <<1, 0>>, <<Null, 1>>}
    ELSE IF o \in NullOps THEN {<<0>>} ELSE {<<0>>, <<1>>}
FirstParams == UNION {{Param(f, o, v) : v \in ValuesOf(o)} :
                        f \in Fields \cup {"zzz"}, o \in Ops \cup {"eq", "sounds like"}}
OrParams == {Param("a", "eq", <<0>>), Param("a", "notin", <<>>), Param("a", "between", <<0>>),
             Param("a", "isnull", <<0>>), Param("tenantId", "in", <<0, 1>>)}
NamedRequests ==
    [kind : {"filter"}, backend : {"sql", "sqlite"}, sort : {<<>>},
     filters : {<<>>} \cup {<<p>> : p \in FirstParams}
        \cup {<<Param("tenantId", "eq", <<1>>), p>> : p \in FirstParams},
     ors : {<<>>} \cup {<<p>> : p \in OrParams} \cup {<<p, q>> : p, q \in OrParams}, apart : BOOLEAN]
(* Sorted lists, and parameters whose names are not names.                 *)
OddRequests ==
    [kind : {"filter"}, backend : {"sql", "sqlite"}, apart : {FALSE},
     sort : {<<>>, <<"a">>, <<"zzz">>, <<NotAName>>},
     filters : {<<>>, <<Param(NotAName, "eq", <<1>>)>>, <<Param(NotAName, "isnull", <<0>>)>>,
                <<Param("tenantId", "eq", <<1>>), Param(NotAName, "ne", <<1>>)>>},
     ors : {<<>>, <<Param("a", "eq", <<0>>), Param(NotAName, "ne", <<1>>)>>}]
FilterRequests == NamedRequests \cup OddRequests
PageRequests ==
    [kind : {"page"}, backend : {"sql", "sqlite"}, limit : {None, Bad, 0, 1, 3}, take : {None, 2},
     page : {None, 0, 1, 3, IntMax}, offset : {None, Bad, -1, 0, 5, IntMax}, skip : {None, 4}]

Waiting == [status |-> 0]
InitList == lreq \in FilterRequests \cup PageRequests /\ lans = Waiting

(***************************************************************************)
(* The handler                                                             *)
(***************************************************************************)
(* Of two spellings of a parameter the later in the map's order counts.    *)
Later(x, y) == IF y = None THEN x ELSE y
Refused(q) ==
    \/ \E x \in {q.limit, q.take} \ {None} : x <= 0
    \/ q.page # None /\ q.page <= 0
    \/ \E x \in {q.offset, q.skip} \ {None} : x < 0

(* parseQueryParameters: 400, or a limit and a page.                       *)
parseQueryParameters(q) ==
    LET limit == Later(q.limit, q.take)
        offset == Later(q.offset, q.skip)
        size == IF limit = None THEN DefaultLimit ELSE limit
    IN IF Refused(q) THEN [ok |-> FALSE]
       ELSE [ok |-> TRUE, limit |-> size,
             page |-> IF q.page # None THEN q.page
                      ELSE IF offset # None THEN (offset \div size) + 1 ELSE 1]

splitCsv(v) == SelectSeq(v, LAMBDA token : token # Null)
parseOpString(op) == IF op \in Ops THEN op ELSE "eq"

makeCondition(p) ==
    [field |-> p.field, op |-> parseOpString(p.op),
     values |-> IF parseOpString(p.op) \in ManyOps THEN splitCsv(p.value) ELSE p.value]

(* Plain equality goes to the filter map, the other operators to typed     *)
(* conditions, or[i] to groups; the tenant is put into the map last.       *)
handleList(q) ==
    LET plain == SelectSeq(q.filters, LAMBDA p : p.op = "eq")
        rich == SelectSeq(q.filters, LAMBDA p : p.op # "eq")
        ors == [i \in DOMAIN q.ors |-> makeCondition(q.ors[i])]
    IN [filter |-> [f \in {plain[i].field : i \in DOMAIN plain} \cup {"tenantId"} |->
                      IF f = "tenantId" THEN RouteTenant
                      ELSE (CHOOSE p \in ToSet(plain) : p.field = f).value[1]],
        conditions |-> [i \in DOMAIN rich |-> makeCondition(rich[i])],
        sort |-> q.sort,
        groups |-> IF q.apart THEN [i \in DOMAIN ors |-> <<ors[i]>>] ELSE <<ors>>]

(***************************************************************************)
(* The builders                                                            *)
(***************************************************************************)
Atom(f, o, n) == [field |-> f, op |-> o, holes |-> n]

(* SqlWhereBuilder: an empty list is never true, a short range always.     *)
buildCondition(c) ==
    IF c.op \in {"in", "notin"} /\ c.values = <<>> THEN [atom |-> Atom(c.field, "false", 0), params |-> <<>>]
    ELSE IF c.op = "between" /\ Len(c.values) < 2 THEN [atom |-> Atom(c.field, "true", 0), params |-> <<>>]
    ELSE IF c.op = "between" THEN [atom |-> Atom(c.field, c.op, 2), params |-> SubSeq(c.values, 1, 2)]
    ELSE IF c.op \in NullOps THEN [atom |-> Atom(c.field, c.op, 0), params |-> <<>>]
    ELSE [atom |-> Atom(c.field, c.op, Len(c.values)), params |-> c.values]

(* SQLiteQueryBuilder: a range has two holes whatever was given.           *)
conditionToSql(c) ==
    Atom(c.field, c.op, IF c.op = "between" THEN 2 ELSE IF c.op \in NullOps THEN 0 ELSE Len(c.values))

appendConditionValues(c) ==
    IF c.op \in NullOps THEN <<>>
    ELSE IF c.op # "between" THEN c.values
    ELSE IF Len(c.values) >= 2 THEN SubSeq(c.values, 1, 2) ELSE <<>>

(* The map's keys in order.                                                *)
Keys(filter) == SelectSeq(<<"a", "tenantId", "zzz">>, LAMBDA f : f \in DOMAIN filter)
Legacy(o) == LET keys == Keys(o.filter) IN [i \in DOMAIN keys |-> <<Atom(keys[i], "eq", 1)>>]
LegacyValues(o) == LET keys == Keys(o.filter) IN [i \in DOMAIN keys |-> o.filter[keys[i]]]
Groups(o) == SelectSeq(o.groups, LAMBDA g : g # <<>>)

(* Wrong: the groups are alternatives to the rest of the clause.           *)
buildOr(o) ==
    LET one(c) == buildCondition(c).atom
        text(g) == [i \in DOMAIN g |-> one(g[i])]
        values(cs) == FlattenSeq([i \in DOMAIN cs |-> buildCondition(cs[i]).params])
        root == Legacy(o) \o [i \in DOMAIN o.conditions |-> <<one(o.conditions[i])>>]
    IN [clauses |-> [root EXCEPT ![Len(root)] = @ \o FlattenSeq([i \in DOMAIN Groups(o) |-> text(Groups(o)[i])])],
        params |-> LegacyValues(o) \o values(o.conditions) \o values(FlattenSeq(Groups(o)))]

(* SqlWhereBuilder::build                                                  *)
build(o) ==
    LET one(c) == buildCondition(c).atom
        text(g) == [i \in DOMAIN g |-> one(g[i])]
        values(cs) == FlattenSeq([i \in DOMAIN cs |-> buildCondition(cs[i]).params])
    IN [clauses |-> Legacy(o) \o [i \in DOMAIN o.conditions |-> <<one(o.conditions[i])>>]
                    \o [i \in DOMAIN Groups(o) |-> text(Groups(o)[i])],
        params |-> LegacyValues(o) \o values(o.conditions) \o values(FlattenSeq(Groups(o)))]

(* SQLiteQueryBuilder::buildListQuery with SQLiteTypeConverter's values.   *)
buildListQuery(o) ==
    Legacy(o) \o [i \in DOMAIN o.conditions |-> <<conditionToSql(o.conditions[i])>>]
    \o [i \in DOMAIN Groups(o) |-> [j \in DOMAIN Groups(o)[i] |-> conditionToSql(Groups(o)[i][j])]]
buildListParams(o) ==
    LET values(cs) == FlattenSeq([i \in DOMAIN cs |-> appendConditionValues(cs[i])])
    IN LegacyValues(o) \o values(o.conditions) \o values(FlattenSeq(o.groups))

(* The count in front of it repeats the clause without LIMIT and OFFSET.   *)
buildCountQuery(o) == buildListQuery(o)
buildCountParams(o) == buildListParams(o)

(***************************************************************************)
(* The database: values go to holes by position, a hole without one is     *)
(* null, and nothing compares true with null.                              *)
(***************************************************************************)
HolesBefore(atoms, i) == FoldLeft(LAMBDA n, a : n + a.holes, 0, SubSeq(atoms, 1, i - 1))
Bound(atoms, params) ==
    [i \in DOMAIN atoms |->
        [field |-> atoms[i].field, op |-> atoms[i].op,
         values |-> [k \in 1..atoms[i].holes |->
                       LET h == HolesBefore(atoms, i) + k IN IF h <= Len(params) THEN params[h] ELSE Null]]]

Column(row, f) == IF f \in Fields THEN row[f] ELSE Literal
Holds(row, b) ==
    LET x == Column(row, b.field)
        v == b.values
    IN CASE b.op = "false" -> FALSE
         [] b.op = "true" -> TRUE
         [] b.op = "isnull" -> x = Null
         [] b.op = "isnotnull" -> x # Null
         [] b.op = "in" -> x # Null /\ x \in ToSet(v)
         [] b.op = "notin" -> v = <<>> \/ (x # Null /\ x \notin ToSet(v) /\ Null \notin ToSet(v))
         [] b.op = "between" -> Null \notin {x, v[1], v[2]} /\ v[1] <= x /\ x <= v[2]
         [] OTHER -> /\ Null \notin {x, v[1]}
                     /\ CASE b.op \in {"eq", "like", "ilike"} -> x = v[1]
                          [] b.op = "ne" -> x # v[1]
                          [] b.op = "lt" -> x < v[1]
                          [] b.op = "lte" -> x <= v[1]
                          [] b.op = "gt" -> x > v[1]
                          [] b.op = "gte" -> x >= v[1]

(* Bound clause by clause, in the order of the text.                       *)
BoundClauses(clauses, params) ==
    LET flat == Bound(FlattenSeq(clauses), params)
        before(i) == Len(FlattenSeq(SubSeq(clauses, 1, i - 1)))
    IN [i \in DOMAIN clauses |-> SubSeq(flat, before(i) + 1, before(i) + Len(clauses[i]))]

Selected(bound) == {row \in Table : \A i \in DOMAIN bound : \E j \in DOMAIN bound[i] : Holds(row, bound[i][j])}
HolesOf(clauses) == HolesBefore(FlattenSeq(clauses), Len(FlattenSeq(clauses)) + 1)

(***************************************************************************)
(* list                                                                    *)
(***************************************************************************)
(* What validateField looks at in the WHERE clause.                        *)
FieldsOf(o) == DOMAIN o.filter \cup {o.conditions[i].field : i \in DOMAIN o.conditions}
    \cup {c.field : c \in UNION {ToSet(o.groups[i]) : i \in DOMAIN o.groups}}

SqlListed(bound) ==
    [status |-> 200, bound |-> bound, rows |-> Selected(bound), total |-> Cardinality(Selected(bound))]
(* SqlAdapter::list: an unknown field is the caller's error.               *)
SqlList(o) ==
    IF ~(FieldsOf(o) \subseteq Fields) THEN [status |-> 400]
    ELSE SqlListed(BoundClauses(build(o).clauses, build(o).params))

SqliteListed(bound, counted) ==
    [status |-> 200, bound |-> bound, rows |-> Selected(bound),
     total |-> IF counted > 0 THEN counted ELSE Cardinality(Selected(bound))]
(* SQLiteAdapter::list: LIMIT and OFFSET are the last two holes, and a     *)
(* LIMIT that is null is an error.                                         *)
SqliteList(o) ==
    IF Len(buildListParams(o)) < HolesOf(buildListQuery(o)) THEN [status |-> 500]
    ELSE SqliteListed(BoundClauses(buildListQuery(o), buildListParams(o)),
                      Cardinality(Selected(BoundClauses(buildCountQuery(o), buildCountParams(o)))))

(* An int that overflows wraps on the machines this runs on.               *)
Wrap(n) == ((n + IntMax + 1) % (2 * (IntMax + 1))) - IntMax - 1

(* The window of rows; a negative OFFSET is an error to Postgres and zero  *)
(* to SQLite.                                                              *)
Window(backend, parsed) ==
    LET limit == IF parsed.limit > 0 THEN parsed.limit ELSE 50
        offset == IF parsed.page > 0 THEN Wrap((parsed.page - 1) * limit) ELSE 0
    IN IF offset < 0 /\ backend = "sql" THEN [status |-> 500]
       ELSE [status |-> 200, first |-> IF offset < 0 THEN 0 ELSE offset, limit |-> limit]

(* Names the builder puts into the text: it looks at none of them.         *)
NamesIn(o) == FieldsOf(o) \cup ToSet(o.sort)

(* A statement with a name that is not one: an error, or whatever rows and *)
(* count it happens to select.                                             *)
AnyAnswer ==
    {[status |-> 500]} \cup [status : {200}, bound : {<<>>}, rows : SUBSET Table, total : 0..Cardinality(Table)]

(* buildOrderBy refuses to sort by an unknown field, after the clause was  *)
(* built; to SQLite it is a constant, which orders nothing.                *)
ListAnswers(o, backend) ==
    IF backend = "sql" THEN {IF ToSet(o.sort) \subseteq Fields THEN SqlList(o) ELSE [status |-> 400]}
    ELSE IF NotAName \in NamesIn(o) THEN AnyAnswer
    ELSE {SqliteList(o)}

AnswerFilter ==
    /\ lreq.kind = "filter" /\ lans = Waiting
    /\ lans' \in ListAnswers(handleList(lreq), lreq.backend)
    /\ UNCHANGED lreq

AnswerPage ==
    /\ lreq.kind = "page" /\ lans = Waiting
    /\ lans' = LET parsed == parseQueryParameters(lreq)
               IN IF ~parsed.ok THEN [status |-> 400] ELSE Window(lreq.backend, parsed)
    /\ UNCHANGED lreq

NextList == AnswerFilter \/ AnswerPage
SpecList == InitList /\ [][NextList]_listVars

-----------------------------------------------------------------------------
Answered200 == lans.status = 200
(* Lists that were answered, to the names of columns or words.  For others *)
(* SqlAdapter answers 400, and the SQLite builder's quoteId promises       *)
(* nothing.                                                                *)
ListedByNames ==
    /\ lreq.kind = "filter" /\ Answered200
    /\ lreq.backend = "sqlite" => NotAName \notin NamesIn(handleList(lreq))
Conditions == {makeCondition(p) : p \in ToSet(lreq.filters) \cup ToSet(lreq.ors)}
Short(c) == c.op = "between" /\ Len(c.values) < 2
EmptyList(c) == c.op = "notin" /\ c.values = <<>>

(* Whatever a caller filters by, with its own tenant filter, alternatives  *)
(* or malformed operators, list_handler.cpp and both builders only select  *)
(* rows of the tenant in the route; over SQLite that takes names that are  *)
(* names, for the builder quotes them without a look at them.              *)
TenantAlwaysFilters ==
    ListedByNames => \A row \in lans.rows : row.tenantId = RouteTenant

(* The rows, and the total a pager is told, are those a reader of the      *)
(* query string expects: each condition holds and one of each or[i].  A    *)
(* range without two ends has no meaning, and SqlWhereBuilder takes NOT IN *)
(* of nothing for never; over SQLite names have to be names.               *)
RowsMeetFilter ==
    ListedByNames /\ (\A c \in Conditions : ~Short(c) /\ ~EmptyList(c)) =>
        /\ lans.total = Cardinality(lans.rows)
        /\ lans.rows = {row \in Table :
            /\ row.tenantId = RouteTenant
            /\ \A i \in DOMAIN lreq.filters :
                  \/ lreq.filters[i].field = "tenantId" /\ lreq.filters[i].op = "eq"
                  \/ Holds(row, makeCondition(lreq.filters[i]))
            /\ LET ors == {makeCondition(p) : p \in ToSet(lreq.ors)} IN
               IF lreq.apart THEN \A c \in ors : Holds(row, c)
               ELSE ors = {} \/ \E c \in ors : Holds(row, c)}

(* A value reaches the column it was given for: text and values are built  *)
(* by different loops, in SQLite by different classes, and one hole too    *)
(* many shifts every later value.                                          *)
ValuesReachTheirColumns ==
    ListedByNames =>
        \A i \in DOMAIN lans.bound : \A j \in DOMAIN lans.bound[i] :
            LET b == lans.bound[i][j] IN
            \/ b.op \in {"true", "false"} \cup NullOps
            \/ b.field = "tenantId" /\ b.values = <<RouteTenant>>
            \/ \E c \in Conditions : c.field = b.field /\ c.op = b.op /\ c.values = b.values

(* The page a caller gets for an offset contains the row at that offset,   *)
(* and the arithmetic from offset to page and back cannot overflow.        *)
PageHoldsTheOffset ==
    LET offset == Later(lreq.offset, lreq.skip) IN
    lreq.kind = "page" /\ Answered200 /\ lreq.page = None /\ offset # None =>
        lans.first <= offset /\ offset < lans.first + lans.limit
=============================================================================
