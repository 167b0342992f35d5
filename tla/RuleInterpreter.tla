--------------------------- MODULE RuleInterpreter --------------------------
(***************************************************************************)
(* port_graph/interpreter.py and rules_schema.py: one grammar of predicate *)
(* trees, compiled twice.  A gate becomes a Python function of a port of   *)
(* the commander; a candidate predicate becomes the WHERE clause of a      *)
(* query on card_ports, with one "?" per value and a list of values bound  *)
(* to them by position.  A tree is the sequence of its nodes in the order  *)
(* of the JSON text, each with the place of its parent, 0 for the root; a  *)
(* leaf compares each <<column, value>> of its fields.  The question which *)
(* rows a tree selects is a state of BenchVerdicts' variable q.            *)
(***************************************************************************)
EXTENDS BenchVerdicts, Ports

CONSTANTS
    Leaves, MaxLeaves, MaxConnectives,   \* bounds: leaves and connectives of a tree
    QueryRows, CommanderSets

Leaf(op, fields) == [op |-> op, fields |-> fields]
Node(op, parent, fields) == [op |-> op, parent |-> parent, fields |-> fields]

Connectives == {"and", "or", "not"}

ASSUME InterpreterAssumption ==
    /\ \A leaf \in Leaves : /\ leaf.op \notin Connectives /\ leaf.fields \in Seq(STRING \X STRING)
                            /\ leaf.op = "not_in_commander_set" => leaf.fields = <<>>
    /\ CommanderSets \subseteq Seq(STRING)

VALID_PORT_TYPES == {"cost", "effect", "keyword", "replacement", "scales_with", "static", "trigger"}

Args(t, i) == {j \in DOMAIN t : t[j].parent = i}

UnderNot(t, i) ==
    LET under[j \in DOMAIN t] ==
            t[j].parent # 0 /\ (t[t[j].parent].op = "not" \/ under[t[j].parent])
    IN  under[i]

Placeholders(t) == {i \in DOMAIN t : t[i].op = "not_in_commander_set"}
count_not_in_commander_set(t) == Cardinality(Placeholders(t))

\* A whole tree, called with `path` "$".
validate_gate_predicate(t, context) ==
    /\ \A i \in DOMAIN t :
          CASE t[i].op \in {"and", "or"}          -> Args(t, i) # {}
            [] t[i].op = "not"                    -> Cardinality(Args(t, i)) = 1
            [] t[i].op = "not_in_commander_set"   -> context = "candidate" /\ ~UnderNot(t, i)
            [] t[i].op = "has_port"               -> t[i].fields[1][2] \in VALID_PORT_TYPES
            [] OTHER                              -> TRUE
    /\ context = "candidate" => count_not_in_commander_set(t) <= 1

-----------------------------------------------------------------------------
\* Columns the extractor of a port type leaves NULL; the others hold text.
Unwritten(type) ==
    (IF type \in {"cost", "keyword"} THEN {"filter"} ELSE {})
    \cup (IF type \in {"cost", "keyword", "scales_with", "static"} THEN {"origin", "dest"} ELSE {})
    \cup (IF type # "effect" THEN {"counter"} ELSE {})
    \cup (IF type # "replacement" THEN {"result"} ELSE {})

\* (port.get(col) or "")
Column(p, col) ==
    IF col \in Unwritten(p.type) THEN ""
    ELSE CASE col = "type" -> p.type [] col = "event" -> p.event [] col = "result" -> p.result
           [] col = "origin" -> p.origin [] col = "dest" -> p.dest [] col = "counter" -> p.counter

\* LIKE does not distinguish a token from one that differs in case.
Lower(t) == CASE t = "Token" -> "token" [] t = "nonToken" -> "nontoken" [] OTHER -> t
LowerFilter(f) == [i \in DOMAIN f |-> [j \in DOMAIN f[i] |-> Lower(f[i][j])]]

\* _compile_gate_predicate; a candidate-only leaf is refused there, and stands here
\* for what its name says.
compile_gate_predicate(t, p, name, cmdrs) ==
    LET accepts(col, value) ==
            IF col = "filter" THEN col \notin Unwritten(p.type) /\ Mentions(p.filter, value)
            ELSE Column(p, col) = value
        holds[i \in DOMAIN t] ==
            CASE t[i].op = "and" -> \A j \in Args(t, i) : holds[j]
              [] t[i].op = "or"  -> \E j \in Args(t, i) : holds[j]
              [] t[i].op = "not" -> ~holds[CHOOSE j \in Args(t, i) : TRUE]
              [] t[i].op = "not_in_commander_set" -> name \notin cmdrs
              [] OTHER -> \A k \in DOMAIN t[i].fields : accepts(t[i].fields[k][1], t[i].fields[k][2])
    IN  holds[1]

-----------------------------------------------------------------------------
\* SQL knows three truth values; they are ordered "F", "N", "T".
SqlAnd(S) == IF "F" \in S THEN "F" ELSE IF "N" \in S THEN "N" ELSE "T"
SqlOr(S)  == IF "T" \in S THEN "T" ELSE IF "N" \in S THEN "N" ELSE "F"
SqlNot(x) == CASE x = "T" -> "F" [] x = "F" -> "T" [] x = "N" -> "N"
SqlBool(b) == IF b THEN "T" ELSE "F"

\* static_params of the first n nodes, in the order of the text.
ParamsUpTo(t, n) ==
    LET upto[m \in 0..Len(t)] ==
            IF m = 0 THEN <<>> ELSE upto[m - 1] \o [k \in DOMAIN t[m].fields |-> t[m].fields[k][2]]
    IN  upto[n]

static_params(t) == ParamsUpTo(t, Len(t))

\* How many "?" the query holds before node i once the placeholder has been replaced.
Before(t, i, cmdrs) ==
    Len(ParamsUpTo(t, i - 1)) + Cardinality({j \in Placeholders(t) : j < i}) * Len(cmdrs)

\* The value of the WHERE clause on a row.
Where(t, row, cmdrs, params) ==
    LET compared(col, bound) ==
            IF col \in Unwritten(row.port.type) THEN "N"
            ELSE SqlBool(IF col = "filter" THEN Mentions(LowerFilter(row.port.filter), Lower(bound))
                         ELSE Column(row.port, col) = bound)
        value[i \in DOMAIN t] ==
            LET args == {value[j] : j \in Args(t, i)}
            IN  CASE t[i].op = "and" -> SqlAnd(args)
                  [] t[i].op = "or"  -> SqlOr(args)
                  [] t[i].op = "not" -> SqlNot(CHOOSE x \in args : TRUE)
                  [] t[i].op = "not_in_commander_set" ->
                         SqlBool(row.name \notin {params[Before(t, i, cmdrs) + k] : k \in DOMAIN cmdrs})
                  [] OTHER -> SqlAnd({compared(t[i].fields[k][1], params[Before(t, i, cmdrs) + k])
                                      : k \in DOMAIN t[i].fields})
    IN  value[1]

\* Mutant: the names are bound first.
NamesFirst(t, cmdrs) == IF count_not_in_commander_set(t) = 0 THEN static_params(t) ELSE cmdrs \o static_params(t)

\* _resolve_sql: the commanders' names are bound after all the static values.
resolve_sql(t, cmdrs) ==
    IF count_not_in_commander_set(t) = 0 THEN static_params(t) ELSE static_params(t) \o cmdrs

\* Only the first placeholder is replaced: the query of a tree with two is an error.
SqlError == {"error"}

\* The names find_complements reports for one rule whose gate has fired.
find_candidates(t, rows, cmdrs) ==
    IF count_not_in_commander_set(t) > 1 THEN SqlError
    ELSE {row.name : row \in {r \in rows : Where(t, r, cmdrs, resolve_sql(t, cmdrs)) = "T"}} \ ToSet(cmdrs)
-----------------------------------------------------------------------------
\* A predicate is written as its text is, from left to right; open holds the
\* connectives whose list of arguments is not yet closed.
QueryInit == q = [kind |-> "query", tree |-> <<>>, open |-> <<>>]

Written == q.tree # <<>> /\ q.open = <<>>
Parent == IF q.open = <<>> THEN 0 ELSE Last(q.open)
Count(ops) == Cardinality({i \in DOMAIN q.tree : q.tree[i].op \in ops})

Open(op) ==
    /\ q.kind = "query" /\ ~Written /\ Count(Connectives) < MaxConnectives
    /\ q' = [q EXCEPT !.tree = Append(@, Node(op, Parent, <<>>)), !.open = Append(@, Len(q.tree) + 1)]

Compare(leaf) ==
    /\ q.kind = "query" /\ ~Written /\ Len(q.tree) - Count(Connectives) < MaxLeaves
    /\ q' = [q EXCEPT !.tree = Append(@, Node(leaf.op, Parent, leaf.fields))]

Close ==
    /\ q.kind = "query" /\ q.open # <<>>
    /\ q' = [q EXCEPT !.open = Front(@)]

QueryNext == (\E op \in Connectives : Open(op)) \/ (\E leaf \in Leaves : Compare(leaf)) \/ Close

QuerySpec == QueryInit /\ [][QueryNext]_vars

-----------------------------------------------------------------------------
\* No value is bound behind the commanders' names.
PlaceholderLast(t) == \A i \in Placeholders(t), j \in DOMAIN t : i < j => t[j].fields = <<>>

\* No NOT stands over a comparison with NULL, and NULL is not compared with "", which
\* Python takes it for.
NullPlaysNoPart(t, port) ==
    \A i \in DOMAIN t : \A k \in DOMAIN t[i].fields :
        t[i].fields[k][1] \in Unwritten(port.type) => ~UnderNot(t, i) /\ t[i].fields[k][2] # ""

\* No token differs from a value it is compared with in the case of letters only.
CasePlaysNoPart(t, port) ==
    \A i \in DOMAIN t : \A k \in DOMAIN t[i].fields :
        LET v == t[i].fields[k][2]
        IN  t[i].fields[k][1] = "filter" =>
                \A w \in Tokens(port.filter) :
                    /\ Lower(v) = Lower(w) => v = w
                    /\ <<Lower(v), Lower(w)>> \in Within => <<v, w>> \in Within

\* One grammar, two compilers: if no value is bound behind the placeholder
\* (PlaceholderLast), then on the rows where NULL and the case of letters play no
\* part, the query of a candidate predicate selects the rows the same tree accepts as
\* a gate, without the commanders, however many there are.  The predicates are those
\* the validator accepts as a whole tree, "$": seeder and interpreter pass it another
\* path, so that what they load may hold a second placeholder.
CompilersAgree ==
    q.kind = "query" /\ Written /\ validate_gate_predicate(q.tree, "candidate") /\ PlaceholderLast(q.tree) =>
        LET rows == {row \in QueryRows : NullPlaysNoPart(q.tree, row.port) /\ CasePlaysNoPart(q.tree, row.port)}
        IN  \A cmdrs \in CommanderSets :
                find_candidates(q.tree, rows, cmdrs)
                    = {row.name : row \in {x \in rows : compile_gate_predicate(q.tree, x.port, x.name, ToSet(cmdrs))}} \ ToSet(cmdrs)
=============================================================================
