------------------------------- MODULE Query -------------------------------
(***************************************************************************)
(* A Result (model.go): the conditions a caller gives it, the statements   *)
(* One, All, Count, Paginate, Update and Delete make of them, and the      *)
(* reset that ends each of those.  A caller may go on using the Result.    *)
(*                                                                         *)
(* The rows of the table are [id, name]; other fields and the logger are   *)
(* left out.  Queries and Delete run on the pool, Update in the            *)
(* transaction of the DataModel, which the queries do not see: it does not *)
(* change the table here.  One goroutine uses a Result.                    *)
(***************************************************************************)
EXTENDS Filters

CONSTANTS
  Args,        \* sequences of arguments that callers give to Find, And and Or
  Pages,       \* arguments of Paginate: <<page, size>>
  MaxFilters,  \* bound: filters of a Result, nesting aside
  MaxBuilt,    \* bound: filters built before
  MaxCalls     \* bound: statements

ASSUME QueryAssumption ==
  /\ Args \subseteq Seq(Argument)
  /\ MaxFilters \in Nat /\ MaxBuilt \in Nat /\ MaxCalls \in Nat

VARIABLES
  table,   \* rows, as queries see them
  res,     \* the Result: filters, order by name, one column only, limit, offset, Populate
  built,   \* a Filter built with dba.And or dba.Or
  depth,   \* filters built so far
  given,   \* <<op, args>> given to the Result since it was made or reset
  out,     \* the last statement: op, ok, destination, rows it read or wrote, number it returned
  calls    \* statements so far

vars == <<table, res, built, depth, given, out, calls>>

Fresh ==
  [filters |-> <<>>, sort |-> FALSE, one |-> FALSE, limit |-> 0, offset |-> 0, pop |-> FALSE]
NoOut == [op |-> "none", ok |-> TRUE, dst |-> "none", rows |-> {}, n |-> 0]

Init ==
  /\ table = Rows /\ res = Fresh /\ built = Nil /\ depth = 0
  /\ given = <<>> /\ out = NoOut /\ calls = 0

\* reset: the selected columns stay.
Reset(r) == [Fresh EXCEPT !.one = r.one]

----------------------------------------------------------------------------
\* Building

Arguments == Args \cup (IF depth = 0 THEN {} ELSE {<<[k |-> "filter", f |-> built]>>})

\* No statement; nothing is built after the last one.
Building == calls < MaxCalls /\ out' = NoOut /\ calls' = calls

\* dba.And and dba.Or
Build ==
  /\ depth < MaxBuilt /\ depth' = depth + 1
  /\ \E a \in Arguments : built' \in {And(a), Or(a)}
  /\ Building /\ UNCHANGED <<table, res, given>>

\* A new Result; the DataModel keeps nothing of the old one.
Find ==
  /\ \E a \in Arguments :
       /\ res' = [Fresh EXCEPT !.filters = ParseConditions("AND", a)]
       /\ given' = <<<<"AND", a>>>>
  /\ Building /\ UNCHANGED <<table, built, depth>>

Extend(r, f) == [r EXCEPT !.filters = Append(@, f)]

\* Where and And; without arguments the Filter is nil and they do nothing.
ResultAnd(a) ==
  /\ Len(res.filters) < MaxFilters
  /\ a # <<>> /\ res' = Extend(res, And(a)) /\ given' = Append(given, <<"AND", a>>)
  /\ Building /\ UNCHANGED <<table, built, depth>>

ResultOr(a) ==
  /\ Len(res.filters) < MaxFilters
  /\ a # <<>> /\ res' = Extend(res, Or(a)) /\ given' = Append(given, <<"OR", a>>)
  /\ Building /\ UNCHANGED <<table, built, depth>>

\* OrderBy("Name"), Select("ID"), Limit(1), Populate of some relation
Shape ==
  /\ \/ res' = [res EXCEPT !.sort = TRUE]
     \/ res' = [res EXCEPT !.one = TRUE]
     \/ res' = [res EXCEPT !.limit = 1]
     \/ res' = [res EXCEPT !.pop = TRUE]
  /\ Building /\ UNCHANGED <<table, built, depth, given>>

----------------------------------------------------------------------------
\* Statements

Where == ParseWhere(res.filters)
Selected(r) == Matching(ParseWhere(r.filters), table)

\* The rows a query may yield.  Sorting is put in as GROUP BY: one row of each name.
\* Without ORDER BY, LIMIT takes any rows; OFFSET counts only with it.
Grouped(S) ==
  {T \in SUBSET S : {x.name : x \in T} = {x.name : x \in S} /\ \A x, y \in T : x.name = y.name => x = y}
Limited(S, limit, offset) ==
  IF limit = 0 THEN {S}
  ELSE LET left == Cardinality(S) - (IF offset > 0 THEN offset ELSE 0)
           size == IF left < 0 THEN 0 ELSE IF left < limit THEN left ELSE limit
       IN  {T \in SUBSET S : Cardinality(T) = size}
Answers(r) ==
  UNION {Limited(S, r.limit, r.offset) : S \in IF r.sort THEN Grouped(Selected(r)) ELSE {Selected(r)}}

\* The driver takes the statement.
Runs == calls < MaxCalls /\ ~Refused(Where)

\* A statement was run: the deferred reset, also when it failed.
Done(op, dst, ok, rows, n) ==
  /\ calls < MaxCalls /\ calls' = calls + 1
  /\ out' = [op |-> op, ok |-> ok, dst |-> dst, rows |-> rows, n |-> n]
  /\ res' = Reset(res) /\ given' = <<>>
  /\ UNCHANGED <<built, depth>>

Fails(op) == Done(op, "any", FALSE, {}, 0) /\ UNCHANGED table

\* Where a query may put its rows: a struct or a map, which take one row, a slice of
\* structs, and a slice that is nil.  A slice of maps and a pointer to a map panic.
Dst == {"one", "slice", "nilslice"}

\* What autoScan reads of r: a nil slice is a value of no known kind, and nothing is
\* asked of the database.
Scan(r, dst) ==
  CASE dst = "nilslice" -> {{}}
    [] dst = "slice"    -> Answers(r)
    [] dst = "one"      -> UNION {IF T = {} THEN {} ELSE {{x} : x \in T} : T \in Answers(r)}

\* relatesQuery of a path, by what the path names.  The slice it makes for the related
\* rows has no address to take; a bridge that is no schema is asked for a list.
RelatesQuery ==
  [unknown |-> "panic", scalar |-> "err", hasOne |-> "panic", hasMany |-> "panic",
   referencesOne |-> "panic", referencesMany |-> "panic", nativeBridge |-> "err"]

\* afterQuery succeeds: there is nothing to populate, or relatesQuery returns nil.
AfterQueryOK(r) == r.pop => \E path \in DOMAIN RelatesQuery : RelatesQuery[path] = "nil"

\* One and All run the same code.
Fetch(op) ==
  /\ UNCHANGED table
  /\ \E dst \in Dst :
       /\ dst = "nilslice" \/ Runs
       /\ \E T \in Scan(res, dst) : Done(op, dst, AfterQueryOK(res), T, Cardinality(T))

\* sql.ErrNoRows for a struct or map when there is none: Fails.
One == Fetch("one")
All == Fetch("all")

\* The query is that of All: Scan takes the number from the first row, when the row
\* has one column, and there is a row.
Counts(r) == IF r.one THEN {x.id : x \in UNION Answers(r)} ELSE {}

Count ==
  /\ Runs /\ UNCHANGED table
  /\ IF Counts(res) = {} THEN Done("count", "any", FALSE, {}, 0)
     ELSE \E n \in Counts(res) : Done("count", "any", TRUE, {}, n)

\* Mutant of Paginate: the reset comes before All.
PaginateResetsFirst ==
  /\ UNCHANGED table
  /\ \E p \in Pages, dst \in Dst \ {"one"} :
       LET page == [Reset(res) EXCEPT !.limit = p[2], !.offset = (p[1] - 1) * p[2]]
           ns == IF AfterQueryOK(res) THEN Counts(Reset(page)) ELSE {}
       IN  /\ dst = "nilslice" \/ Runs
           /\ \E T \in Scan(page, dst) :
                IF ns = {} THEN Done("page", dst, FALSE, T, 0)
                ELSE \E n \in ns : Done("page", dst, TRUE, T, n)

\* All, whose reset drops the conditions, then Count.
Paginate ==
  /\ UNCHANGED table
  /\ \E p \in Pages, dst \in Dst \ {"one"} :
       LET page == [res EXCEPT !.limit = p[2], !.offset = (p[1] - 1) * p[2]]
           ns == IF AfterQueryOK(res) THEN Counts(Reset(page)) ELSE {}
       IN  /\ dst = "nilslice" \/ Runs
           /\ \E T \in Scan(page, dst) :
                IF ns = {} THEN Done("page", dst, FALSE, T, 0)
                ELSE \E n \in ns : Done("page", dst, TRUE, T, n)

\* The templates of Update and Delete write WHERE in any case: without a condition the
\* database refuses the statement.
Writable == Runs /\ Where.toks # <<>>

Update == Writable /\ UNCHANGED table /\ Done("update", "any", TRUE, Selected(res), Cardinality(Selected(res)))

\* Mutant of Delete: no WHERE without a condition.
DeleteAnyway ==
  /\ Runs /\ table' = table \ Selected(res)
  /\ Done("delete", "any", TRUE, Selected(res), Cardinality(Selected(res)))

Delete ==
  /\ Writable /\ table' = table \ Selected(res)
  /\ Done("delete", "any", TRUE, Selected(res), Cardinality(Selected(res)))

Next ==
  \/ Build \/ Find \/ Shape
  \/ \E a \in Arguments : ResultAnd(a) \/ ResultOr(a)
  \/ One \/ All \/ Count \/ Paginate \/ Update \/ Delete
  \/ \E op \in {"one", "all", "count", "page", "update", "delete"} : Fails(op)

Spec == Init /\ [][Next]_vars

----------------------------------------------------------------------------
\* Properties

\* What the caller has asked for since the Result was made or last used.
Conditions == UNION {{<<g[1], a>> : a \in Range(g[2])} : g \in Range(given)}
Wanted == {x \in table : \A c \in Conditions : Restricts(c[2]) => Passes(c[1], c[2], x)}

\* The SQL that parseWhere writes, with its parameters bound by position and AND
\* binding tighter than OR, is true of the rows the conditions mean and no others,
\* however And and Or are nested.
ClauseMeansConditions == ~Refused(Where) => Selected(res) = Wanted

\* A query reads only rows that its own conditions select, nothing of an earlier use of
\* the Result, also when Populate fails after it; and One or All into a slice that is
\* not nil, without limit and order, reads all of them.
QueryReturnsMatches ==
  [][(calls' # calls /\ out'.op \in {"one", "all", "page"}) =>
       /\ out'.rows \subseteq Wanted
       /\ (out'.dst = "slice" /\ out'.op # "page" /\ res.limit = 0 /\ ~res.sort) =>
            out'.rows = Wanted]_vars

\* Update and Delete touch only rows that the conditions select, and none when the
\* Result was used before and has got no condition since.
WritesNeedConditions ==
  [][(calls' # calls /\ out'.op \in {"update", "delete"} /\ out'.ok) =>
       /\ out'.rows \subseteq Wanted
       /\ \E c \in Conditions : Restricts(c[2])]_vars

\* Sorting drops no rows: beforeQuery says that it parses an order.
SortKeepsRows ==
  [][(calls' # calls /\ out'.op = "all" /\ out'.dst = "slice" /\ res.limit = 0) =>
       out'.rows = Wanted]_vars

\* All with a declared list of documents, as in examples/4-crud, returns nil only when
\* the documents that the conditions select are in it.
AllFillsList ==
  [][(calls' # calls /\ out'.op = "all" /\ out'.ok /\ out'.dst = "nilslice"
          /\ res.limit = 0 /\ ~res.sort) =>
       out'.rows = Wanted]_vars
=============================================================================
