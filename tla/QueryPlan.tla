----------------------------- MODULE QueryPlan ------------------------------
(***************************************************************************)
(* Where the conditions of a SELECT go: QlManager resolves column names    *)
(* and hands each condition to one of the table scans (pop_conds); a scan  *)
(* turns it round to have its own column on the left (SeqScanExecutor's    *)
(* constructor); a join feeds its right side with the values of its left   *)
(* (feed, feed_right), and a scan evaluates what it was fed (eval_cond).   *)
(*                                                                         *)
(* Tables and columns are names, a column is a pair <<table, name>>, and a *)
(* value is an integer: ix_compare orders each type as integers are        *)
(* ordered.  A condition is a record; rhs is a value if is_rhs_val.  The   *)
(* conditions of a query are a set: the code goes through them in order,   *)
(* but treats each by itself.  A FROM clause may name a table twice.       *)
(***************************************************************************)
EXTENDS Integers, Sequences, FiniteSets

CONSTANTS
  Tables,         \* the tables of the database
  ColLists,       \* the lists of column names a table may have
  ColNames,       \* the column names that conditions use
  Values,         \* the values of columns
  MaxTabs,        \* bound: tables in a FROM clause
  MaxConds        \* bound: conditions in a WHERE clause

\* The two errors of check_column are no tables, and a table has a name.
ASSUME QueryAssumption ==
  /\ Tables \cap {"ambiguous", "not found", ""} = {}
  /\ ColLists \subseteq Seq(STRING)
  /\ Values \subseteq Int
  /\ MaxTabs \in Nat /\ MaxConds \in Nat

VARIABLE query    \* tabs and conds, or no tables

Cond(lhs_col, op, is_rhs_val, rhs) ==
  [lhs_col |-> lhs_col, op |-> op, is_rhs_val |-> is_rhs_val, rhs |-> rhs]

CompOps == {"EQ", "NE", "LT", "GT", "LE", "GE"}

Tab(col) == col[1]

\* get_all_cols: the columns of the tables of the FROM clause, in order.  A
\* database db gives each of its tables its list of columns.
get_all_cols(db, tabs) ==
  LET from[i \in 0..Len(tabs)] ==
        IF i = 0 THEN <<>>
        ELSE from[i - 1] \o [j \in 1..Len(db[tabs[i]]) |-> <<tabs[i], db[tabs[i]][j]>>]
  IN  from[Len(tabs)]

\* db_.is_table and TabMeta::is_col, the latter as it is meant to be: at this
\* commit its body is a stub that always says no.
is_table(db, tab) == tab \in DOMAIN db
is_col(db, tab, col_name) == \E j \in 1..Len(db[tab]) : db[tab][j] = col_name

\* The search for a name without a table.  The first match stays the candidate
\* until a second one comes.
infer_table(all_cols, col_name) ==
  LET scan[i \in 0..Len(all_cols)] ==
        IF i = 0 THEN "not found"
        ELSE IF scan[i - 1] = "ambiguous" \/ all_cols[i][2] # col_name THEN scan[i - 1]
        ELSE IF scan[i - 1] = "not found" THEN Tab(all_cols[i]) ELSE "ambiguous"
  IN  scan[Len(all_cols)]

\* Mutant: the search stops at the first match.
FirstColumn(db, all_cols, target) ==
  LET found == SelectSeq(all_cols, LAMBDA c : c[2] = target[2])
  IN  IF Tab(target) = "" THEN IF found = <<>> THEN "not found" ELSE Tab(found[1])
      ELSE IF is_table(db, Tab(target)) /\ is_col(db, Tab(target), target[2])
      THEN Tab(target) ELSE "not found"

\* check_column: the table of a column, or one of the errors "ambiguous" and "not
\* found".  A name with a table is looked up in the database, and the FROM clause
\* is not asked.
check_column(db, all_cols, target) ==
  IF Tab(target) = "" THEN infer_table(all_cols, target[2])
  ELSE IF is_table(db, Tab(target)) /\ is_col(db, Tab(target), target[2])
  THEN Tab(target) ELSE "not found"

\* pop_conds: the conditions that the tables settle, and those that remain.
Settled(cond, tabs) ==
  Tab(cond.lhs_col) \in tabs /\ (cond.is_rhs_val \/ Tab(cond.rhs) \in tabs)

pop_conds(conds, tabs) == {c \in conds : Settled(c, tabs)}

\* Mutant: what is handed out is not erased.
RemainingAll(conds, tabs) == conds

remaining(conds, tabs) == {c \in conds : ~Settled(c, tabs)}

Prefix(tabs, i) == {tabs[j] : j \in 1..i}

\* select_from's loop over the tables: what is left for the scans from i on.
Left(tabs, conds, i) ==
  LET left[j \in 0..Len(tabs)] ==
        IF j = 0 THEN conds ELSE remaining(left[j - 1], Prefix(tabs, j))
  IN  left[i - 1]

curr_conds(tabs, conds, i) == pop_conds(Left(tabs, conds, i), Prefix(tabs, i))

\* get_indexNo takes the first condition that an index of the table could serve;
\* these are all.  The column is looked up in the table by its name, whatever
\* table it names.
Indexable(conds) == {c \in conds : c.is_rhs_val /\ c.op # "NE"}

swap_op == [EQ |-> "EQ", NE |-> "NE", LT |-> "GT", GT |-> "LT", LE |-> "GE", GE |-> "LE"]

\* Mutant: the sides change places and the comparison stays.
OrientedKeepingOp(cond, tab) ==
  IF Tab(cond.lhs_col) = tab THEN cond ELSE Cond(cond.rhs, cond.op, FALSE, cond.lhs_col)

\* The constructor of a scan: its own column to the left.
Oriented(cond, tab) ==
  IF Tab(cond.lhs_col) = tab THEN cond
  ELSE Cond(cond.rhs, swap_op[cond.op], FALSE, cond.lhs_col)

\* Its assertion.
CanOrient(cond, tab) ==
  Tab(cond.lhs_col) # tab => ~cond.is_rhs_val /\ Tab(cond.rhs) = tab

\* feed: a column of another table becomes its value in the dictionary.
Fed(cond, tab, dict) ==
  IF ~cond.is_rhs_val /\ Tab(cond.rhs) # tab
  THEN Cond(cond.lhs_col, cond.op, TRUE, dict[cond.rhs])
  ELSE cond

\* check_runtime_conds' assertions.
Local(cond, tab) == Tab(cond.lhs_col) = tab /\ (cond.is_rhs_val \/ Tab(cond.rhs) = tab)

Compare(op, x, y) ==
  CASE op = "EQ" -> x = y [] op = "NE" -> x # y
    [] op = "LT" -> x < y [] op = "GT" -> x > y
    [] op = "LE" -> x <= y [] op = "GE" -> x >= y

\* eval_cond, on the record of the scan (a function of its columns).
eval_cond(cond, rec) ==
  Compare(cond.op, rec[cond.lhs_col], IF cond.is_rhs_val THEN cond.rhs ELSE rec[cond.rhs])

-----------------------------------------------------------------------------
\* A row of the join: a record for each place of the FROM clause.  The record of
\* scan i, by columns.
Rec(tabs, row, i) == [c \in {tabs[i]} \X ColNames |-> row[i][c[2]]]

\* The first place of a table.
First(tabs, tab) ==
  CHOOSE i \in 1..Len(tabs) : tabs[i] = tab /\ \A j \in 1..(i - 1) : tabs[j] # tab

\* The dictionary of the first i places.  feed_right inserts the columns of its
\* left side into the dictionary it was fed, and insert changes no entry: a table
\* that comes twice has the values of its first record there.
Dict(tabs, row, i) == [c \in Prefix(tabs, i) \X ColNames |-> row[First(tabs, Tab(c))][c[2]]]

\* The conditions scan i works with, when the joins above it are at row.
ScanConds(tabs, conds, i, row) ==
  {Fed(Oriented(c, tabs[i]), tabs[i], Dict(tabs, row, i - 1)) : c \in curr_conds(tabs, conds, i)}

\* The row passes every scan.
Passes(tabs, conds, row) ==
  \A i \in 1..Len(tabs) : \A c \in ScanConds(tabs, conds, i, row) :
    eval_cond(c, Rec(tabs, row, i))

\* What conditions say of the values of a row.
Satisfies(conds, values) == \A c \in conds : eval_cond(c, values)

-----------------------------------------------------------------------------
(* One query.                                                              *)

\* What check_where_clause lets through: a column of any table of the database.
Columns == Tables \X ColNames

Conditions ==
  [lhs_col : Columns, op : CompOps, is_rhs_val : {TRUE}, rhs : Values]
    \cup [lhs_col : Columns, op : CompOps, is_rhs_val : {FALSE}, rhs : Columns]

FromClauses == UNION {[1..n -> Tables] : n \in 1..MaxTabs}

NoQuery == [tabs |-> <<>>, conds |-> {}]

QueryInit == query = NoQuery

\* select_from with the resolved conditions: check_where_clause is done.
Ask ==
  /\ query = NoQuery
  /\ \E tabs \in FromClauses : \E n \in 0..MaxConds : \E conds \in [1..n -> Conditions] :
       query' = [tabs |-> tabs, conds |-> {conds[k] : k \in 1..n}]

QuerySpec == QueryInit /\ [][Ask]_query

From == {query.tabs[i] : i \in 1..Len(query.tabs)}

Rows == [1..Len(query.tabs) -> [ColNames -> Values]]

\* The tables a condition names.
Named(cond) == {Tab(cond.lhs_col)} \cup (IF cond.is_rhs_val THEN {} ELSE {Tab(cond.rhs)})

(***************************************************************************)
(* Handing the conditions out to the scans, turning them round and feeding *)
(* them changes nothing, whatever the order of the tables and also when a  *)
(* table comes twice: a row passes all scans exactly when it satisfies the *)
(* conditions on tables of the FROM clause, read for the first record of   *)
(* each table.                                                             *)
(***************************************************************************)
ScansAreTheWhereClause ==
  \A row \in Rows :
    Passes(query.tabs, query.conds, row) <=>
      Satisfies({c \in query.conds : Named(c) \subseteq From},
                Dict(query.tabs, row, Len(query.tabs)))

(***************************************************************************)
(* The assertions on the way, and when they hold.  The one at the end of   *)
(* select_from's loop, that no condition is left over, fails exactly for a *)
(* condition that names a table outside the FROM clause: check_column lets *)
(* such a name pass.  The others never fail: a scan can turn round what it *)
(* is given, what it evaluates is about its own record, and a condition    *)
(* that asks for an index is on the table whose index is looked up.        *)
(***************************************************************************)
PlanAssertionsHold ==
  LET n == Len(query.tabs)
  IN  /\ Left(query.tabs, query.conds, n + 1) = {c \in query.conds : ~(Named(c) \subseteq From)}
      /\ \A i \in 1..n :
           LET own == curr_conds(query.tabs, query.conds, i)
           IN  /\ \A c \in own : CanOrient(c, query.tabs[i])
               /\ \A c \in Indexable(own) : Tab(c.lhs_col) = query.tabs[i]
               /\ \A row \in Rows : \A c \in ScanConds(query.tabs, query.conds, i, row) :
                    Local(c, query.tabs[i])

\* The databases with the tables of the FROM clause (get_table throws for others).
Databases == UNION {[ts -> ColLists] : ts \in {t \in SUBSET Tables : From \subseteq t}}

(***************************************************************************)
(* A column name without a table is resolved to a table exactly when one   *)
(* column of the FROM clause has that name; a name found twice is refused, *)
(* also when the second comes late or is the same table again.  A name     *)
(* with a table is accepted exactly when the database has that column.     *)
(* (Names are resolved with the FROM clause only: the property looks at it *)
(* before there are conditions.)                                           *)
(***************************************************************************)
NamesResolved ==
  query.conds = {} =>
    \A db \in Databases, name \in ColNames :
      LET all == get_all_cols(db, query.tabs)
          matches == {i \in 1..Len(all) : all[i][2] = name}
          r == check_column(db, all, <<"", name>>)
      IN  /\ matches = {} <=> r = "not found"
          /\ Cardinality(matches) > 1 <=> r = "ambiguous"
          /\ Cardinality(matches) = 1 => \A i \in matches : r = Tab(all[i])
          /\ \A tab \in Tables :
               LET q == check_column(db, all, <<tab, name>>)
               IN  /\ q \in {tab, "not found"}
                   /\ q = tab <=> /\ tab \in DOMAIN db
                                  /\ \E j \in 1..Len(db[tab]) : db[tab][j] = name
=============================================================================
